------------------------------ MODULE EntryReads ------------------------------
(***************************************************************************)
(* entries() of both ledgers (sql.py, memory.py): what a stored row keeps   *)
(* of the entry that debit returned (as_canonical in types.py, and back in  *)
(* sql.py), the filters, and a caller that polls by "since".                *)
(*                                                                          *)
(* "recorded" holds the entries as debit returned them, in insertion order: *)
(* the list of InMemoryLedger.  "rows" holds the same entries as rows of    *)
(* {prefix}entries.  Writers of other processes resolve a debit's instant   *)
(* and draw its id first and commit later, in any order.                    *)
(*                                                                          *)
(* A moment is a wall clock and its offset from UTC, or NONE when naive.    *)
(***************************************************************************)
EXTENDS BalanceBook, FiniteSets, Sequences

CONSTANTS Writers,       \* processes that debit
          Pollers,       \* callers that poll entries() by "since"
          Offsets,       \* offsets from UTC that moments are written in
          ServerOffset,  \* the time zone PostgreSQL answers in
          Debits,        \* the debits made; occurred_at is a moment, or NONE
          Verdicts,      \* the verdicts, a sequence per debit, they may get
          TEXT,          \* the JSON string "unsupported"
          Ulids,         \* the ids that may be drawn at each instant
          EntryNumbers,  \* numbers of debits begun (Nat, or a bound for TLC)
          Filters        \* the calls of entries()

Moment == [wall : Int, offset : Offsets]

EntryDebit == [run_id : Runs, usage : TokenUsage, cost : CostEstimate \cup {NONE},
               tags : SUBSET Tags, occurred_at : Moment]

ASSUME ReadsAssumption ==
    /\ Offsets \subseteq Int /\ ServerOffset \in Int /\ 0 \in Offsets
    /\ NONE \notin Int
    /\ TEXT \notin Nat
    /\ \A d \in Debits : d.occurred_at = NONE \/ d \in EntryDebit
    /\ \A d \in Debits : [d EXCEPT !.occurred_at = [wall |-> 0, offset |-> 0]] \in EntryDebit
    /\ Verdicts \subseteq Seq(CeilingVerdict)
    /\ Ulids \in [Instants -> SUBSET Nat]
    /\ \A t, u \in Instants : t < u => \A a \in Ulids[t], b \in Ulids[u] : a < b
    /\ EntryNumbers \subseteq Nat
    /\ Filters \subseteq [run_id : Runs \cup {NONE}, tag : Tags \cup {NONE},
                          since : Moment \cup {NONE}]

VARIABLES store,      \* where the ledger keeps its entries (never changes)
          recorded,   \* entries in insertion order, as debit returned them
          rows,       \* the rows of the entries table, if there is one
          drawn,      \* the ids drawn so far
          debiting,   \* the entry each writer has not committed yet, or NONE
          now,        \* the clock, in UTC
          since,      \* the bound of each poller's next query
          returned,   \* the ids returned to each poller
          overtaken,  \* the ids of the debits that were in progress while it polled
          backdated   \* the ids of the debits whose caller stated occurred_at

polls == <<since, returned, overtaken>>
vars == <<store, recorded, rows, drawn, debiting, now, polls, backdated>>

-----------------------------------------------------------------------------
(* Instants *)

utc(m) == m.wall - m.offset
AtUtc(t) == [wall |-> t, offset |-> 0]

as_utc(m) == AtUtc(utc(m))

\* Mutant: the zone the driver answers in is overwritten instead of converted.
from_utc_relabelled(m) == AtUtc(m.wall)

from_utc(m) == IF m.offset = NONE THEN AtUtc(m.wall) ELSE as_utc(m)

\* What the driver binds and hands back: SQLite keeps the wall clock and drops the
\* offset, PostgreSQL keeps the instant and answers in the server's zone.
Bound(dialect, m) == IF dialect = "sqlite" THEN m.wall ELSE utc(m)
Fetched(dialect, column) ==
    IF dialect = "sqlite" THEN [wall |-> column, offset |-> NONE]
    ELSE [wall |-> column + ServerOffset, offset |-> ServerOffset]

-----------------------------------------------------------------------------
(* Rows *)

usage_as_canonical(usage) ==
    [class \in TokenClasses |-> IF usage[class] = UNSUPPORTED THEN TEXT ELSE usage[class]]

\* Mutant: a count of zero reads back as not reported.
count_if_truthy(value) == IF value = TEXT \/ value = 0 THEN UNSUPPORTED ELSE value

count_from_canonical(value) == IF value = TEXT THEN UNSUPPORTED ELSE value

\* The primitive fields of a ceiling, and the ceiling rebuilt from them.
ceiling_fields(c) ==
    [scope |-> c.scope, tokens |-> c.tokens, tag |-> c.tag, partial_pricing |-> c.partial_pricing,
     currency |-> IF c.money = NONE THEN NONE ELSE c.money.currency,
     nanos |-> IF c.money = NONE THEN NONE ELSE c.money.nanos]

ceiling_from_fields(f) ==
    [scope |-> f.scope, tokens |-> f.tokens, tag |-> f.tag, partial_pricing |-> f.partial_pricing,
     money |-> IF f.currency = NONE \/ f.nanos = NONE THEN NONE
               ELSE [currency |-> f.currency, nanos |-> f.nanos]]

verdict_as_canonical(v) == [v EXCEPT !.ceiling = ceiling_fields(v.ceiling)]
verdict_from_canonical(document) == [document EXCEPT !.ceiling = ceiling_from_fields(@)]

\* The canonical debit has no cost; the columns project what the filters need.
row_of(dialect, entry) ==
    [entry_id    |-> entry.entry_id,
     run_id      |-> entry.debit.run_id,
     occurred_at |-> Bound(dialect, as_utc(entry.debit.occurred_at)),
     unpriced    |-> entry.unpriced,
     debit_json  |-> [run_id |-> entry.debit.run_id,
                      usage  |-> usage_as_canonical(entry.debit.usage),
                      tags   |-> entry.debit.tags],
     verdicts_json |-> [i \in DOMAIN entry.verdicts |-> verdict_as_canonical(entry.verdicts[i])]]

entry_from_row(dialect, row) ==
    [entry_id |-> row.entry_id,
     debit    |-> [run_id |-> row.debit_json.run_id,
                   usage  |-> [class \in TokenClasses |->
                                count_from_canonical(row.debit_json.usage[class])],
                   cost   |-> NONE,
                   tags   |-> row.debit_json.tags,
                   occurred_at |-> from_utc(Fetched(dialect, row.occurred_at))],
     unpriced |-> row.unpriced,
     verdicts |-> [i \in DOMAIN row.verdicts_json |-> verdict_from_canonical(row.verdicts_json[i])]]

\* The entry that entries() documents: as returned, without the estimate.
Recovered(entry) ==
    LET debit == entry.debit
    IN  [entry EXCEPT !.debit = [debit EXCEPT !.cost = NONE,
                                              !.occurred_at = as_utc(debit.occurred_at)]]

-----------------------------------------------------------------------------
(* Filters: a run, a tag and a moment, each of them or NONE *)

\* The members of a set of numbers, the smallest first.
InOrder(numbers) ==
    [n \in 1..Cardinality(numbers) |->
        CHOOSE k \in numbers : Cardinality({j \in numbers : j < k}) = n - 1]

\* Mutant: entries after the bound instead of at or after it.
AtOrAfterStrict(entry, bound) == utc(entry.debit.occurred_at) > utc(bound)

AtOrAfter(entry, bound) == utc(entry.debit.occurred_at) >= utc(bound)

memory_kept(f) ==
    {i \in DOMAIN recorded : /\ f.run_id \in {NONE, recorded[i].debit.run_id}
                             /\ f.tag = NONE \/ f.tag \in recorded[i].debit.tags
                             /\ f.since = NONE \/ AtOrAfter(recorded[i], f.since)}

memory_entries(f) ==
    LET kept == InOrder(memory_kept(f))
    IN  [n \in DOMAIN kept |-> recorded[kept[n]]]

\* Mutant: the bound is not normalised before it is bound to the column.
since_raw(bound) == Bound(store, bound)

since_column(bound) == Bound(store, as_utc(bound))

\* The run and the bound in SQL; the tag in Python, over what was read.
sql_kept(f) ==
    LET selected == {row \in rows : /\ f.run_id \in {NONE, row.run_id}
                                    /\ f.since = NONE \/ row.occurred_at >= since_column(f.since)}
        recovered == {entry_from_row(store, row) : row \in selected}
    IN  {entry \in recovered : f.tag = NONE \/ f.tag \in entry.debit.tags}

\* ORDER BY entry_id.
InIdOrder(found) ==
    LET ids == InOrder({entry.entry_id : entry \in found})
    IN  [n \in DOMAIN ids |-> CHOOSE entry \in found : entry.entry_id = ids[n]]

sql_entries(f) == InIdOrder(sql_kept(f))

entries(f) == IF store = "memory" THEN memory_entries(f) ELSE sql_entries(f)

-----------------------------------------------------------------------------
Init ==
    /\ store \in {"memory", "sqlite", "postgresql"}
    /\ recorded = <<>>
    /\ rows = {}
    /\ drawn = {}
    /\ debiting = [w \in Writers |-> NONE]
    /\ now \in Instants
    /\ since = [p \in Pollers |-> AtUtc(now)]
    /\ returned = [p \in Pollers |-> {}]
    /\ overtaken = [p \in Pollers |-> {}]
    /\ backdated = {}

Tick ==
    /\ \E t \in Instants : t > now /\ now' = t
    /\ UNCHANGED <<store, recorded, rows, drawn, debiting, polls, backdated>>

\* new_id: an id of the instant.  One generator draws them in ascending order; two, of two
\* processes, in any order within an instant.
NewId(id) ==
    /\ Cardinality(drawn) + 1 \in EntryNumbers
    /\ id \in Ulids[now] \ drawn
    /\ store = "memory" => \A earlier \in drawn : earlier < id
    /\ drawn' = drawn \cup {id}

\* debit: the clock, the id and the entry.
NewEntry(id, d, vs) ==
    [entry_id |-> id,
     debit    |-> IF d.occurred_at = NONE THEN [d EXCEPT !.occurred_at = AtUtc(now)] ELSE d,
     unpriced |-> is_unpriced(d.cost),
     verdicts |-> vs]

NoteDate(id, d) ==
    backdated' = IF d.occurred_at = NONE THEN backdated ELSE backdated \cup {id}

Insert(entry) ==
    /\ recorded' = Append(recorded, entry)
    /\ rows' = IF store = "memory" THEN rows ELSE rows \cup {row_of(store, entry)}

BeginDebit(w) ==
    /\ store # "memory"
    /\ debiting[w] = NONE
    /\ \E id \in Ulids[now], d \in Debits, vs \in Verdicts :
            /\ NewId(id)
            /\ debiting' = [debiting EXCEPT ![w] = NewEntry(id, d, vs)]
            /\ NoteDate(id, d)
    /\ UNCHANGED <<store, recorded, rows, now, polls>>

CommitDebit(w) ==
    /\ debiting[w] # NONE
    /\ Insert(debiting[w])
    /\ debiting' = [debiting EXCEPT ![w] = NONE]
    /\ UNCHANGED <<store, drawn, now, polls, backdated>>

RollbackDebit(w) ==
    /\ debiting[w] # NONE
    /\ debiting' = [debiting EXCEPT ![w] = NONE]
    /\ UNCHANGED <<store, recorded, rows, drawn, now, polls, backdated>>

\* In memory a debit holds the lock from the clock to the append.
LockedDebit ==
    /\ store = "memory"
    /\ \E id \in Ulids[now], d \in Debits, vs \in Verdicts :
            NewId(id) /\ Insert(NewEntry(id, d, vs)) /\ NoteDate(id, d)
    /\ UNCHANGED <<store, debiting, now, polls>>

InProgress == {debiting[w].entry_id : w \in {x \in Writers : debiting[x] # NONE}}

\* A poller asks for what happened since it last asked.
Poll(p) ==
    LET answer == entries([run_id |-> NONE, tag |-> NONE, since |-> since[p]])
    IN  /\ since' = [since EXCEPT ![p] = AtUtc(now)]
        /\ returned' = [returned EXCEPT ![p] = @ \cup {answer[i].entry_id : i \in DOMAIN answer}]
        /\ overtaken' = [overtaken EXCEPT ![p] = @ \cup InProgress]
        /\ UNCHANGED <<store, recorded, rows, drawn, debiting, now, backdated>>

Next == \/ Tick \/ LockedDebit
        \/ \E p \in Pollers : Poll(p)
        \/ \E w \in Writers : BeginDebit(w) \/ CommitDebit(w) \/ RollbackDebit(w)

Spec == Init /\ [][Next]_vars

-----------------------------------------------------------------------------
(* Properties *)

(* A row reads back as the entry that debit returned, but for its estimate     *)
(* (sql.py entries, "the one place a stored entry differs"): counts that were  *)
(* not reported, verdicts with the ceiling they were decided under, and the    *)
(* instant, whatever offset it was written in and whatever the dialect keeps.  *)
RowsReadBack ==
    store # "memory" =>
        {entry_from_row(store, row) : row \in rows} = {Recovered(recorded[i]) : i \in DOMAIN recorded}

(* Whatever filters are given, SqlLedger answers with the entries that         *)
(* InMemoryLedger would (sql.py class docstring, "observably InMemoryLedger"), *)
(* each once and in the order of their ids, although it filters columns in UTC *)
(* and tags after reading.                                                     *)
SqlReadsAsMemory ==
    store # "memory" =>
        \A f \in Filters :
            LET kept == memory_entries(f)
                answer == sql_entries(f)
            IN  /\ {answer[n] : n \in DOMAIN answer} = {Recovered(kept[n]) : n \in DOMAIN kept}
                /\ \A m, n \in DOMAIN answer : m < n => answer[m].entry_id < answer[n].entry_id

(* A caller that asks for what happened since it last asked misses nothing     *)
(* but debits that were in progress while it asked (entries, "two consecutive  *)
(* queries with touching bounds return each entry exactly once"): any other    *)
(* entry dated by the clock has been returned, or is one the next query        *)
(* returns.  In memory no debit is in progress while a caller asks.            *)
OnlyInFlightIsMissed ==
    \A p \in Pollers, i \in DOMAIN recorded :
        LET entry == recorded[i]
        IN  entry.entry_id \notin backdated \cup returned[p] \cup overtaken[p]
            => AtOrAfter(entry, since[p])

(* A caller that goes on from the greatest id it was given (entries, "Entry    *)
(* ids are ULIDs, lexicographically ordered by the instant they were minted")  *)
(* skips only debits that were in progress while it asked, which commit under  *)
(* an older id than some that it has, debits dated by their caller, and debits *)
(* of the very instant of that id, whose order is not theirs.                  *)
IdsResumeAfterPoll ==
    \A p \in Pollers, i \in DOMAIN recorded :
        LET entry_id == recorded[i].entry_id
        IN  entry_id \notin backdated \cup returned[p] \cup overtaken[p]
            => \A id \in returned[p] :
                    id < entry_id \/ \E t \in Instants : {id, entry_id} \subseteq Ulids[t]

=============================================================================
