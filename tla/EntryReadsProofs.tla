--------------------------- MODULE EntryReadsProofs ---------------------------
(***************************************************************************)
(* What SqlLedger stores of an entry is what entries() gives back, for any  *)
(* debits, verdicts, offsets and writers, and both dialects.                *)
(***************************************************************************)
EXTENDS EntryReads, BalanceBookProofs

-----------------------------------------------------------------------------
(* Round trips *)

(* An instant survives the column and the driver (sql.py _as_utc, _from_utc),   *)
(* whatever offset it was written in and whatever zone the server answers in.   *)
LEMMA InstantRoundTrip ==
    ASSUME NEW dialect \in {"sqlite", "postgresql"}, NEW m \in Moment
    PROVE  from_utc(Fetched(dialect, Bound(dialect, as_utc(m)))) = as_utc(m)
<1>1. /\ m.wall \in Int /\ m.offset \in Int
      /\ ServerOffset \in Int /\ NONE \notin Int
  BY ReadsAssumption DEF Moment
<1>2. utc(as_utc(m)) = utc(m) /\ as_utc(m).wall = utc(m) /\ utc(m) \in Int
  BY <1>1 DEF utc, as_utc, AtUtc
<1>3. CASE dialect = "sqlite"
  BY <1>2, <1>3 DEF Bound, Fetched, from_utc, as_utc
<1>4. CASE dialect = "postgresql"
  <2>1. Bound(dialect, as_utc(m)) = utc(m)
    BY <1>2, <1>4 DEF Bound
  <2>2. Fetched(dialect, utc(m)) = [wall |-> utc(m) + ServerOffset, offset |-> ServerOffset]
    BY <1>4 DEF Fetched
  <2>3. ServerOffset # NONE
    BY <1>1
  <2> HIDE <1>2
  <2>4. from_utc(Fetched(dialect, utc(m))) = AtUtc((utc(m) + ServerOffset) - ServerOffset)
    BY <2>2, <2>3 DEF from_utc, as_utc, utc
  <2>5. (utc(m) + ServerOffset) - ServerOffset = utc(m)
    BY <1>1, <1>2
  <2>6. QED BY <2>1, <2>4, <2>5 DEF as_utc
<1>5. QED BY <1>1, <1>3, <1>4

(* Counts survive, and a count that was not reported is not taken for a number  *)
(* (types.py usage_as_canonical, sql.py _count_from_canonical).                 *)
LEMMA UsageRoundTrip ==
    ASSUME NEW usage \in TokenUsage
    PROVE  [class \in TokenClasses |-> count_from_canonical(usage_as_canonical(usage)[class])]
           = usage
<1>1. ASSUME NEW class \in TokenClasses
      PROVE  count_from_canonical(usage_as_canonical(usage)[class]) = usage[class]
  <2>1. usage[class] \in Nat \cup {UNSUPPORTED}
    BY DEF TokenUsage
  <2>2. usage[class] # UNSUPPORTED => usage[class] # TEXT
    BY <2>1, ReadsAssumption
  <2>3. QED BY <2>2 DEF usage_as_canonical, count_from_canonical
<1>2. QED BY <1>1 DEF TokenUsage

(* A verdict survives with the ceiling it was decided under (types.py           *)
(* as_canonical, sql.py _ceiling_from_canonical, _verdict_from_canonical).      *)
LEMMA CeilingRoundTrip ==
    ASSUME NEW c \in BudgetCeiling
    PROVE  ceiling_from_fields(ceiling_fields(c)) = c
<1>1. c \in [scope : CeilingScope, money : [currency : Currencies, nanos : Nat] \cup {NONE},
             tokens : Nat \cup {NONE}, tag : Tags \cup {NONE}, partial_pricing : PartialPricing]
  BY DEF BudgetCeiling
<1>2. NONE \notin Currencies /\ NONE \notin Nat
  BY DataAssumption
<1>3. CASE c.money = NONE
  BY <1>1, <1>3 DEF ceiling_from_fields, ceiling_fields
<1>4. CASE c.money # NONE
  <2>1. c.money \in [currency : Currencies, nanos : Nat]
    BY <1>1, <1>4
  <2>2. /\ c.money = [currency |-> c.money.currency, nanos |-> c.money.nanos]
        /\ c.money.currency # NONE /\ c.money.nanos # NONE
    BY <1>2, <2>1
  <2>3. QED BY <1>1, <1>4, <2>2 DEF ceiling_from_fields, ceiling_fields
<1>5. QED BY <1>3, <1>4

LEMMA VerdictRoundTrip ==
    ASSUME NEW v \in CeilingVerdict
    PROVE  verdict_from_canonical(verdict_as_canonical(v)) = v
<1>1. v.ceiling \in BudgetCeiling
  BY DEF CeilingVerdict
<1>2. ceiling_from_fields(ceiling_fields(v.ceiling)) = v.ceiling
  BY <1>1, CeilingRoundTrip
<1>3. verdict_from_canonical(verdict_as_canonical(v))
      = [v EXCEPT !.ceiling = ceiling_from_fields(ceiling_fields(v.ceiling))]
  BY DEF verdict_from_canonical, verdict_as_canonical, CeilingVerdict
<1>4. QED BY <1>2, <1>3 DEF CeilingVerdict

StoredEntry == [entry_id : Nat, debit : EntryDebit, unpriced : BOOLEAN,
                verdicts : Seq(CeilingVerdict)]

(* The row of an entry reads back as the entry, without its estimate.           *)
LEMMA EntryRoundTrip ==
    ASSUME NEW dialect \in {"sqlite", "postgresql"}, NEW e \in StoredEntry
    PROVE  entry_from_row(dialect, row_of(dialect, e)) = Recovered(e)
<1> DEFINE row == row_of(dialect, e)
<1>1. /\ e.debit \in EntryDebit /\ e.debit.usage \in TokenUsage
      /\ e.debit.occurred_at \in Moment /\ e.verdicts \in Seq(CeilingVerdict)
  BY DEF StoredEntry, EntryDebit
<1>2. /\ row.entry_id = e.entry_id /\ row.unpriced = e.unpriced
      /\ row.occurred_at = Bound(dialect, as_utc(e.debit.occurred_at))
      /\ row.debit_json.run_id = e.debit.run_id /\ row.debit_json.tags = e.debit.tags
      /\ row.debit_json.usage = usage_as_canonical(e.debit.usage)
      /\ DOMAIN row.verdicts_json = DOMAIN e.verdicts
      /\ \A i \in DOMAIN e.verdicts : row.verdicts_json[i] = verdict_as_canonical(e.verdicts[i])
  BY DEF row_of
<1> HIDE DEF row
<1>3. from_utc(Fetched(dialect, row.occurred_at)) = as_utc(e.debit.occurred_at)
  BY <1>1, <1>2, InstantRoundTrip
<1>4. [class \in TokenClasses |-> count_from_canonical(row.debit_json.usage[class])]
      = e.debit.usage
  BY <1>1, <1>2, UsageRoundTrip
<1>5. [i \in DOMAIN row.verdicts_json |-> verdict_from_canonical(row.verdicts_json[i])]
      = e.verdicts
  <2>1. \A i \in DOMAIN e.verdicts : e.verdicts[i] \in CeilingVerdict
    BY <1>1
  <2>2. \A i \in DOMAIN e.verdicts :
            verdict_from_canonical(row.verdicts_json[i]) = e.verdicts[i]
    BY <1>2, <2>1, VerdictRoundTrip
  <2>3. QED BY <1>1, <1>2, <2>2
<1>6. entry_from_row(dialect, row)
      = [entry_id |-> e.entry_id,
         debit    |-> [run_id |-> e.debit.run_id, usage |-> e.debit.usage, cost |-> NONE,
                       tags |-> e.debit.tags, occurred_at |-> as_utc(e.debit.occurred_at)],
         unpriced |-> e.unpriced,
         verdicts |-> e.verdicts]
  BY <1>2, <1>3, <1>4, <1>5 DEF entry_from_row
<1>7. [e.debit EXCEPT !.cost = NONE, !.occurred_at = as_utc(e.debit.occurred_at)]
      = [run_id |-> e.debit.run_id, usage |-> e.debit.usage, cost |-> NONE,
         tags |-> e.debit.tags, occurred_at |-> as_utc(e.debit.occurred_at)]
  <2> DEFINE priceless == [run_id |-> e.debit.run_id, usage |-> e.debit.usage, cost |-> NONE,
                           tags |-> e.debit.tags, occurred_at |-> e.debit.occurred_at]
  <2>1. [e.debit EXCEPT !.cost = NONE] = priceless
    BY <1>1 DEF EntryDebit
  <2>2. \A m : [priceless EXCEPT !.occurred_at = m]
               = [run_id |-> e.debit.run_id, usage |-> e.debit.usage, cost |-> NONE,
                  tags |-> e.debit.tags, occurred_at |-> m]
    OBVIOUS
  <2> HIDE DEF priceless
  <2>3. QED BY <2>1, <2>2
<1>8. Recovered(e)
      = [e EXCEPT !.debit = [e.debit EXCEPT !.cost = NONE,
                                            !.occurred_at = as_utc(e.debit.occurred_at)]]
  BY DEF Recovered
<1>9. \A debit : [e EXCEPT !.debit = debit]
                 = [entry_id |-> e.entry_id, debit |-> debit, unpriced |-> e.unpriced,
                    verdicts |-> e.verdicts]
  BY DEF StoredEntry
<1>10. QED BY <1>6, <1>7, <1>8, <1>9 DEF row

-----------------------------------------------------------------------------
(* Order *)

(* Sorting a finite set of numbers loses none, invents none and repeats none    *)
(* (sql.py entries, order_by entry_id; memory.py entries, insertion order).     *)
(* The rank of a number is injective, and an injection into as many places      *)
(* fills them all.                                                              *)
LEMMA InOrderSorts ==
    ASSUME NEW S \in SUBSET Nat, IsFiniteSet(S)
    PROVE  /\ DOMAIN InOrder(S) \subseteq Nat
           /\ \A n \in DOMAIN InOrder(S) : InOrder(S)[n] \in S
           /\ \A k \in S : \E n \in DOMAIN InOrder(S) : InOrder(S)[n] = k
           /\ \A m, n \in DOMAIN InOrder(S) : m < n => InOrder(S)[m] < InOrder(S)[n]
<1> DEFINE Below(k) == {j \in S : j < k}
           rank == [k \in S |-> Cardinality(Below(k)) + 1]
<1>1. PICK c \in Nat : c = Cardinality(S)
  BY FS_CardinalityType
<1>2. \A k \in S : IsFiniteSet(Below(k)) /\ Cardinality(Below(k)) \in Nat
  <2>1. \A k \in S : Below(k) \in SUBSET S
    OBVIOUS
  <2> HIDE DEF Below
  <2>2. QED BY <2>1, FS_Subset, FS_CardinalityType
<1>3. ASSUME NEW k \in S PROVE rank[k] \in 1..c
  <2>1. Below(k) \in SUBSET (S \ {k})
    OBVIOUS
  <2>2. IsFiniteSet(S \ {k}) /\ Cardinality(S \ {k}) = c - 1
    BY <1>1, FS_RemoveElement
  <2> HIDE DEF Below
  <2>3. PICK b \in Nat : b = Cardinality(Below(k))
    BY <1>2
  <2>4. b <= c - 1
    BY <2>1, <2>2, <2>3, FS_Subset
  <2>5. rank[k] = b + 1
    BY <2>3
  <2>6. QED BY <2>4, <2>5
<1>4. ASSUME NEW k \in S, NEW l \in S, k < l PROVE rank[k] < rank[l]
  <2>1. Below(k) \cup {k} \in SUBSET Below(l) /\ k \notin Below(k)
    <3>1. k \in Nat /\ l \in Nat /\ \A j \in S : j \in Nat
      OBVIOUS
    <3>2. \A j \in S : j < k => j < l
      BY <1>4, <3>1
    <3>3. ~(k < k)
      BY <3>1
    <3>4. QED BY <1>4, <3>2, <3>3
  <2> HIDE DEF Below
  <2>2. PICK a \in Nat, b \in Nat : a = Cardinality(Below(k)) /\ b = Cardinality(Below(l))
    BY <1>2
  <2>3. Cardinality(Below(k) \cup {k}) = a + 1
    BY <1>2, <2>1, <2>2, FS_AddElement
  <2>4. a + 1 <= b
    BY <1>2, <2>1, <2>2, <2>3, FS_Subset
  <2>5. rank[k] = a + 1 /\ rank[l] = b + 1
    BY <2>2
  <2>6. QED BY <2>4, <2>5
<1>5. rank \in Injection(S, 1..c)
  <2>1. DOMAIN rank = S /\ rank = [k \in S |-> rank[k]]
    OBVIOUS
  <2> HIDE DEF rank
  <2>2. \A k, l \in S : rank[k] = rank[l] => k = l
    <3>1. \A k, l \in S : k \in Nat /\ l \in Nat /\ rank[k] \in Nat /\ rank[l] \in Nat
      BY <1>3
    <3>2. QED BY <1>4, <3>1
  <2>3. QED BY <1>3, <2>1, <2>2 DEF Injection, IsInjective
<1>6. \A n \in 1..c : \E k \in S : rank[k] = n
  <2>1. IsFiniteSet(1..c) /\ Cardinality(1..c) = c
    BY FS_Interval
  <2> HIDE DEF rank
  <2>2. rank \in Surjection(S, 1..c)
    BY <1>1, <1>5, <2>1, FS_Injection
  <2>3. QED BY <2>2 DEF Surjection
<1>7. DOMAIN InOrder(S) = 1..c
  BY <1>1 DEF InOrder
<1>8. ASSUME NEW n \in 1..c PROVE InOrder(S)[n] \in S /\ rank[InOrder(S)[n]] = n
  <2>1. PICK k \in S : rank[k] = n
    BY <1>6
  <2>2. \A j \in S : rank[j] = n <=> Cardinality(Below(j)) = n - 1
    <3>1. \A j \in S : rank[j] = Cardinality(Below(j)) + 1
      OBVIOUS
    <3> HIDE DEF rank, Below
    <3>2. QED BY <1>2, <3>1
  <2>3. InOrder(S)[n] = CHOOSE j \in S : Cardinality(Below(j)) = n - 1
    BY <1>1 DEF InOrder
  <2> HIDE DEF rank, Below
  <2>4. QED BY <2>1, <2>2, <2>3
<1> HIDE DEF rank
<1>9. \A k \in S : \E n \in 1..c : InOrder(S)[n] = k
  <2> SUFFICES ASSUME NEW k \in S PROVE \E n \in 1..c : InOrder(S)[n] = k
    OBVIOUS
  <2>1. rank[k] \in 1..c
    BY <1>3
  <2>2. InOrder(S)[rank[k]] \in S /\ rank[InOrder(S)[rank[k]]] = rank[k]
    BY <1>8, <2>1
  <2>3. InOrder(S)[rank[k]] = k
    BY <1>5, <2>2 DEF Injection, IsInjective
  <2>4. QED BY <2>1, <2>3
<1>10. ASSUME NEW m \in 1..c, NEW n \in 1..c, m < n PROVE InOrder(S)[m] < InOrder(S)[n]
  <2>1. PICK k \in S, l \in S : k = InOrder(S)[m] /\ l = InOrder(S)[n]
    BY <1>8
  <2>2. rank[k] = m /\ rank[l] = n
    BY <1>8, <2>1
  <2>3. k \in Nat /\ l \in Nat
    OBVIOUS
  <2>4. ~(l < k) /\ l # k
    <3>1. ~(n < m) /\ m # n
      BY <1>10
    <3>2. l < k => n < m
      BY <1>4, <2>2
    <3>3. QED BY <2>2, <3>1, <3>2
  <2>5. QED BY <2>1, <2>3, <2>4
<1>11. QED BY <1>7, <1>8, <1>9, <1>10

(* Entries with ids of their own come back by id, each of them once.            *)
LEMMA InIdOrderSorts ==
    ASSUME NEW found, IsFiniteSet(found),
           \A entry \in found : entry.entry_id \in Nat,
           \A e1, e2 \in found : e1.entry_id = e2.entry_id => e1 = e2
    PROVE  LET answer == InIdOrder(found)
           IN  /\ {answer[n] : n \in DOMAIN answer} = found
               /\ \A m, n \in DOMAIN answer : m < n => answer[m].entry_id < answer[n].entry_id
<1> DEFINE ids == {entry.entry_id : entry \in found}
           answer == InIdOrder(found)
<1>1. ids \in SUBSET Nat /\ IsFiniteSet(ids)
  <2>1. ids \in SUBSET Nat
    OBVIOUS
  <2> DEFINE id_of == [entry \in found |-> entry.entry_id]
  <2>2. ids = {id_of[entry] : entry \in found}
    OBVIOUS
  <2>3. IsFiniteSet({id_of[entry] : entry \in found})
    <3>1. DOMAIN id_of = found /\ id_of = [entry \in found |-> id_of[entry]]
      OBVIOUS
    <3> HIDE DEF id_of
    <3>2. QED BY <3>1, ImageIsFinite
  <2>4. QED BY <2>1, <2>2, <2>3
<1>2. DOMAIN answer = DOMAIN InOrder(ids)
  BY DEF InIdOrder
<1>3. ASSUME NEW n \in DOMAIN answer
      PROVE  answer[n] \in found /\ answer[n].entry_id = InOrder(ids)[n]
  <2>1. answer[n] = CHOOSE entry \in found : entry.entry_id = InOrder(ids)[n]
    BY DEF InIdOrder
  <2>2. InOrder(ids)[n] \in ids
    <3> HIDE DEF ids
    <3>1. QED BY <1>1, <1>2, InOrderSorts
  <2>3. \E entry \in found : entry.entry_id = InOrder(ids)[n]
    BY <2>2
  <2> HIDE DEF answer, ids
  <2>4. QED BY <2>1, <2>3
<1>4. ASSUME NEW entry \in found PROVE \E n \in DOMAIN answer : answer[n] = entry
  <2>1. entry.entry_id \in ids
    OBVIOUS
  <2> HIDE DEF answer, ids
  <2>2. PICK n \in DOMAIN answer : InOrder(ids)[n] = entry.entry_id
    BY <1>1, <1>2, <2>1, InOrderSorts
  <2>3. QED BY <1>3, <2>2
<1> HIDE DEF answer, ids
<1>5. \A m, n \in DOMAIN answer : m < n => answer[m].entry_id < answer[n].entry_id
  <2>1. \A m, n \in DOMAIN answer : m < n => InOrder(ids)[m] < InOrder(ids)[n]
    BY <1>1, <1>2, InOrderSorts
  <2>2. QED BY <1>3, <2>1
<1>6. {answer[n] : n \in DOMAIN answer} = found
  BY <1>3, <1>4
<1>7. QED BY <1>5, <1>6 DEF answer

-----------------------------------------------------------------------------
(* The invariant: the rows are those of the entries, and everything that is     *)
(* stored, or about to be, is an entry.                                         *)

RowsFor(dialect, history) == {row_of(dialect, history[i]) : i \in DOMAIN history}

ReadsInv ==
    /\ store \in {"memory", "sqlite", "postgresql"}
    /\ store # "memory" => rows = RowsFor(store, recorded)
    /\ recorded \in Seq(StoredEntry)
    /\ drawn \subseteq Nat
    /\ now \in Instants
    /\ DOMAIN debiting = Writers
    /\ \A w \in Writers : debiting[w] # NONE => debiting[w] \in StoredEntry

(* What a debit is about to store is an entry. *)
LEMMA NewEntryType ==
    ASSUME now \in Instants, NEW id \in Ulids[now], NEW d \in Debits, NEW vs \in Verdicts
    PROVE  id \in Nat /\ NewEntry(id, d, vs) \in StoredEntry
<1>0. id \in Nat
  BY ReadsAssumption
<1>1. AtUtc(now) \in Moment
  BY DataAssumption, ReadsAssumption DEF AtUtc, Moment
<1> DEFINE dated == [d EXCEPT !.occurred_at = [wall |-> 0, offset |-> 0]]
           debit == IF d.occurred_at = NONE THEN [d EXCEPT !.occurred_at = AtUtc(now)] ELSE d
<1>2. dated \in EntryDebit
  BY ReadsAssumption
<1>3. debit \in EntryDebit
  <2>1. CASE d.occurred_at # NONE
    BY <2>1, ReadsAssumption
  <2>2. CASE d.occurred_at = NONE
    <3>1. [d EXCEPT !.occurred_at = AtUtc(now)] = [dated EXCEPT !.occurred_at = AtUtc(now)]
      OBVIOUS
    <3> HIDE DEF dated
    <3>2. [dated EXCEPT !.occurred_at = AtUtc(now)] \in EntryDebit
      BY <1>1, <1>2 DEF EntryDebit
    <3>3. QED BY <2>2, <3>1, <3>2
  <2>3. QED BY <2>1, <2>2
<1>4. is_unpriced(d.cost) \in BOOLEAN
  BY DEF is_unpriced, Totalled
<1>5. vs \in Seq(CeilingVerdict)
  BY ReadsAssumption
<1> HIDE DEF debit
<1>6. QED BY <1>0, <1>3, <1>4, <1>5 DEF NewEntry, StoredEntry, debit

LEMMA InsertKeepsRows ==
    ASSUME ReadsInv, NEW e \in StoredEntry, Insert(e)
    PROVE  /\ store # "memory" => rows' = RowsFor(store, recorded')
           /\ recorded' \in Seq(StoredEntry)
<1>1. /\ recorded' = Append(recorded, e) /\ recorded \in Seq(StoredEntry)
      /\ store # "memory" => rows' = RowsFor(store, recorded) \cup {row_of(store, e)}
  BY DEF ReadsInv, Insert
<1>2. /\ DOMAIN recorded' = DOMAIN recorded \cup {Len(recorded) + 1}
      /\ \A i \in DOMAIN recorded : recorded'[i] = recorded[i]
      /\ recorded'[Len(recorded) + 1] = e
      /\ recorded' \in Seq(StoredEntry)
  BY <1>1
<1> HIDE DEF row_of
<1>3. RowsFor(store, recorded') = RowsFor(store, recorded) \cup {row_of(store, e)}
  BY <1>2 DEF RowsFor
<1>4. QED BY <1>1, <1>2, <1>3

LEMMA ReadsInit == Init => ReadsInv
BY DEF Init, ReadsInv, RowsFor

LEMMA ReadsStep == ReadsInv /\ [Next]_vars => ReadsInv'
<1> SUFFICES ASSUME ReadsInv, [Next]_vars PROVE ReadsInv'
  OBVIOUS
<1>1. CASE Tick
  BY <1>1 DEF Tick, ReadsInv
<1>2. ASSUME NEW p \in Pollers, Poll(p) PROVE ReadsInv'
  BY <1>2 DEF Poll, ReadsInv
<1>3. CASE LockedDebit
  <2>1. PICK id \in Ulids[now], d \in Debits, vs \in Verdicts :
            NewId(id) /\ Insert(NewEntry(id, d, vs))
    BY <1>3 DEF LockedDebit
  <2>2. id \in Nat /\ NewEntry(id, d, vs) \in StoredEntry
    BY NewEntryType DEF ReadsInv
  <2>3. /\ store # "memory" => rows' = RowsFor(store, recorded')
        /\ recorded' \in Seq(StoredEntry)
    BY <2>1, <2>2, InsertKeepsRows
  <2>4. drawn' \subseteq Nat
    BY <2>1, <2>2 DEF NewId, ReadsInv
  <2>5. QED BY <1>3, <2>3, <2>4 DEF LockedDebit, ReadsInv
<1>4. ASSUME NEW w \in Writers, BeginDebit(w) PROVE ReadsInv'
  <2>1. PICK id \in Ulids[now], d \in Debits, vs \in Verdicts :
            NewId(id) /\ debiting' = [debiting EXCEPT ![w] = NewEntry(id, d, vs)]
    BY <1>4 DEF BeginDebit
  <2>2. id \in Nat /\ NewEntry(id, d, vs) \in StoredEntry
    BY NewEntryType DEF ReadsInv
  <2>3. drawn' \subseteq Nat
    BY <2>1, <2>2 DEF NewId, ReadsInv
  <2>4. QED BY <1>4, <2>1, <2>2, <2>3 DEF BeginDebit, ReadsInv
<1>5. ASSUME NEW w \in Writers, CommitDebit(w) PROVE ReadsInv'
  <2>1. debiting[w] \in StoredEntry /\ Insert(debiting[w])
    BY <1>5 DEF CommitDebit, ReadsInv
  <2>2. /\ store # "memory" => rows' = RowsFor(store, recorded')
        /\ recorded' \in Seq(StoredEntry)
    BY <2>1, InsertKeepsRows
  <2>3. QED BY <1>5, <2>2 DEF CommitDebit, ReadsInv
<1>6. ASSUME NEW w \in Writers, RollbackDebit(w) PROVE ReadsInv'
  BY <1>6 DEF RollbackDebit, ReadsInv
<1>7. CASE UNCHANGED vars
  BY <1>7 DEF vars, ReadsInv
<1>8. QED BY <1>1, <1>2, <1>3, <1>4, <1>5, <1>6, <1>7 DEF Next

(* Nothing that was recorded is lost or changed by being stored (sql.py         *)
(* entries, "The one place a stored entry differs"): for any debits, verdicts,  *)
(* offsets and server zone, in either dialect, the rows read back as exactly    *)
(* the recorded entries without their estimates.                                *)
THEOREM RowsAreTheRecord == Spec => []RowsReadBack
<1>1. ReadsInv => RowsReadBack
  <2> SUFFICES ASSUME ReadsInv, store # "memory"
               PROVE  {entry_from_row(store, row) : row \in rows}
                      = {Recovered(recorded[i]) : i \in DOMAIN recorded}
    BY DEF RowsReadBack
  <2>1. PICK dialect \in {"sqlite", "postgresql"} : dialect = store
    BY DEF ReadsInv
  <2>2. \A i \in DOMAIN recorded :
            entry_from_row(dialect, row_of(dialect, recorded[i])) = Recovered(recorded[i])
    <3>1. \A i \in DOMAIN recorded : recorded[i] \in StoredEntry
      BY DEF ReadsInv
    <3>2. QED BY <3>1, EntryRoundTrip
  <2>3. rows = RowsFor(dialect, recorded)
    BY <2>1 DEF ReadsInv
  <2> HIDE DEF row_of, entry_from_row
  <2>4. QED BY <2>1, <2>2, <2>3 DEF RowsFor
<1>2. QED BY <1>1, ReadsInit, ReadsStep, PTL DEF Spec

-----------------------------------------------------------------------------
(* Every debit has an id of its own: no two entries share one, recorded or      *)
(* still being written, and ids drawn later are new.                            *)

IdsInv ==
    /\ \A i \in DOMAIN recorded : recorded[i].entry_id \in drawn
    /\ \A i, j \in DOMAIN recorded : recorded[i].entry_id = recorded[j].entry_id => i = j
    /\ \A w \in Writers : debiting[w] # NONE =>
            /\ debiting[w].entry_id \in drawn
            /\ \A i \in DOMAIN recorded : recorded[i].entry_id # debiting[w].entry_id
            /\ \A x \in Writers \ {w} :
                    debiting[x] # NONE => debiting[x].entry_id # debiting[w].entry_id

LEMMA InsertAppends ==
    ASSUME ReadsInv, NEW e, Insert(e)
    PROVE  /\ DOMAIN recorded' = DOMAIN recorded \cup {Len(recorded) + 1}
           /\ Len(recorded) + 1 \notin DOMAIN recorded
           /\ \A i \in DOMAIN recorded : recorded'[i] = recorded[i]
           /\ recorded'[Len(recorded) + 1] = e
<1>1. recorded' = Append(recorded, e) /\ recorded \in Seq(StoredEntry)
  BY DEF ReadsInv, Insert
<1>2. QED BY <1>1

LEMMA IdsInit == Init => IdsInv
BY DEF Init, IdsInv

LEMMA IdsStep == ReadsInv /\ IdsInv /\ [Next]_vars => IdsInv'
<1> SUFFICES ASSUME ReadsInv, IdsInv, [Next]_vars PROVE IdsInv'
  OBVIOUS
<1>0. /\ \A i \in DOMAIN recorded : recorded[i].entry_id \in Nat
      /\ DOMAIN debiting = Writers
      /\ \A w \in Writers : debiting[w] # NONE => debiting[w].entry_id \in Nat
  <2>1. \A e \in StoredEntry : e.entry_id \in Nat
    BY DEF StoredEntry
  <2>2. \A i \in DOMAIN recorded : recorded[i] \in StoredEntry
    BY DEF ReadsInv
  <2> HIDE DEF StoredEntry
  <2>3. QED BY <2>1, <2>2 DEF ReadsInv
<1>1. CASE Tick
  BY <1>1 DEF Tick, IdsInv
<1>2. ASSUME NEW p \in Pollers, Poll(p) PROVE IdsInv'
  BY <1>2 DEF Poll, IdsInv
<1>3. CASE LockedDebit
  <2>1. PICK id \in Ulids[now], d \in Debits, vs \in Verdicts :
            NewId(id) /\ Insert(NewEntry(id, d, vs))
    BY <1>3 DEF LockedDebit
  <2>2. NewEntry(id, d, vs).entry_id = id /\ id \notin drawn
    BY <2>1 DEF NewEntry, NewId
  <2>3. \A w \in Writers : debiting'[w] # NONE => debiting[w] # NONE
    BY <1>3 DEF LockedDebit
  <2>4. /\ DOMAIN recorded' = DOMAIN recorded \cup {Len(recorded) + 1}
        /\ Len(recorded) + 1 \notin DOMAIN recorded
        /\ \A i \in DOMAIN recorded : recorded'[i] = recorded[i]
        /\ recorded'[Len(recorded) + 1].entry_id = id
    BY <2>1, <2>2, InsertAppends
  <2>5. drawn' = drawn \cup {id} /\ debiting' = debiting
    BY <1>3, <2>1 DEF LockedDebit, NewId
  <2>6. QED BY <1>0, <2>2, <2>4, <2>5 DEF IdsInv
<1>4. ASSUME NEW w \in Writers, BeginDebit(w) PROVE IdsInv'
  <2>1. PICK id \in Ulids[now], d \in Debits, vs \in Verdicts :
            NewId(id) /\ debiting' = [debiting EXCEPT ![w] = NewEntry(id, d, vs)]
    BY <1>4 DEF BeginDebit
  <2>2. NewEntry(id, d, vs).entry_id = id /\ id \notin drawn
    BY <2>1 DEF NewEntry, NewId
  <2>3. /\ recorded' = recorded /\ drawn' = drawn \cup {id}
        /\ \A x \in Writers \ {w} : debiting'[x] = debiting[x]
        /\ debiting'[w].entry_id = id
    BY <1>0, <1>4, <2>1, <2>2 DEF BeginDebit, NewId
  <2>4. QED BY <1>0, <2>2, <2>3 DEF IdsInv
<1>5. ASSUME NEW w \in Writers, CommitDebit(w) PROVE IdsInv'
  <2>1. debiting[w] # NONE /\ Insert(debiting[w]) /\ drawn' = drawn
    BY <1>5 DEF CommitDebit
  <2>2. /\ DOMAIN recorded' = DOMAIN recorded \cup {Len(recorded) + 1}
        /\ Len(recorded) + 1 \notin DOMAIN recorded
        /\ \A i \in DOMAIN recorded : recorded'[i] = recorded[i]
        /\ recorded'[Len(recorded) + 1] = debiting[w]
    BY <2>1, InsertAppends
  <2>3. \A x \in Writers : debiting'[x] # NONE => x # w /\ debiting'[x] = debiting[x]
    BY <1>0, <1>5 DEF CommitDebit
  <2>4. QED BY <1>0, <2>1, <2>2, <2>3 DEF IdsInv
<1>6. ASSUME NEW w \in Writers, RollbackDebit(w) PROVE IdsInv'
  <2>1. \A x \in Writers : debiting'[x] # NONE => x # w /\ debiting'[x] = debiting[x]
    BY <1>0, <1>6 DEF RollbackDebit
  <2>2. recorded' = recorded /\ drawn' = drawn
    BY <1>6 DEF RollbackDebit
  <2>3. QED BY <1>0, <2>1, <2>2 DEF IdsInv
<1>7. CASE UNCHANGED vars
  BY <1>7 DEF vars, IdsInv
<1>8. QED BY <1>1, <1>2, <1>3, <1>4, <1>5, <1>6, <1>7 DEF Next

-----------------------------------------------------------------------------
(* What the filters keep *)

(* The bound compares with the column as instants do (sql.py _as_utc).          *)
LEMMA BoundCompares ==
    ASSUME NEW dialect \in {"sqlite", "postgresql"}, NEW m \in Moment
    PROVE  Bound(dialect, as_utc(m)) = utc(m) /\ utc(m) \in Int
<1>1. m.wall \in Int /\ m.offset \in Int
  BY ReadsAssumption DEF Moment
<1>2. as_utc(m).wall = utc(m) /\ utc(as_utc(m)) = utc(m) /\ utc(m) \in Int
  BY <1>1 DEF as_utc, AtUtc, utc
<1> HIDE DEF as_utc, utc
<1>3. QED BY <1>2 DEF Bound

(* A query, or a poll: what an entries() call may ask.                          *)
Query == [run_id : Runs \cup {NONE}, tag : Tags \cup {NONE}, since : Moment \cup {NONE}]

(* The columns and the recovered tags select the entries that the list would    *)
(* (sql.py entries, memory.py entries).                                         *)
LEMMA SameEntriesKept ==
    ASSUME ReadsInv, store # "memory", NEW f \in Query
    PROVE  sql_kept(f) = {Recovered(recorded[i]) : i \in memory_kept(f)}
<1>1. PICK dialect \in {"sqlite", "postgresql"} : dialect = store
  BY DEF ReadsInv
<1>2. rows = RowsFor(dialect, recorded)
  BY <1>1 DEF ReadsInv
<1>3. \A i \in DOMAIN recorded : recorded[i] \in StoredEntry
  BY DEF ReadsInv
<1> DEFINE row(i) == row_of(dialect, recorded[i])
           Selects(i) == /\ f.run_id \in {NONE, row(i).run_id}
                         /\ f.since = NONE \/ row(i).occurred_at >= since_column(f.since)
           HasTag(i) == f.tag = NONE \/ f.tag \in entry_from_row(dialect, row(i)).debit.tags
<1>4. sql_kept(f) = {entry_from_row(dialect, row(i)) :
                        i \in {j \in DOMAIN recorded : Selects(j) /\ HasTag(j)}}
  <2>1. {r \in rows : /\ f.run_id \in {NONE, r.run_id}
                      /\ f.since = NONE \/ r.occurred_at >= since_column(f.since)}
        = {row(i) : i \in {j \in DOMAIN recorded : Selects(j)}}
    <3> HIDE DEF row_of
    <3>1. QED BY <1>2 DEF RowsFor
  <2> HIDE DEF row, Selects
  <2>2. QED BY <1>1, <2>1 DEF sql_kept
<1>5. ASSUME NEW i \in DOMAIN recorded
      PROVE  /\ entry_from_row(dialect, row(i)) = Recovered(recorded[i])
             /\ Selects(i) /\ HasTag(i) <=> i \in memory_kept(f)
  <2>1. entry_from_row(dialect, row(i)) = Recovered(recorded[i])
    BY <1>3, EntryRoundTrip
  <2>2. recorded[i] \in StoredEntry /\ recorded[i].debit \in EntryDebit
    BY <1>3 DEF StoredEntry
  <2>3. Recovered(recorded[i]).debit.tags = recorded[i].debit.tags
    BY <2>2 DEF Recovered, StoredEntry, EntryDebit
  <2>4. row(i).run_id = recorded[i].debit.run_id
    BY DEF row_of
  <2>5. recorded[i].debit.occurred_at \in Moment
    BY <2>2 DEF EntryDebit
  <2>6. row(i).occurred_at = utc(recorded[i].debit.occurred_at)
    <3>1. row(i).occurred_at = Bound(dialect, as_utc(recorded[i].debit.occurred_at))
      BY DEF row_of
    <3>2. QED BY <2>5, <3>1, BoundCompares
  <2>7. f.since # NONE => since_column(f.since) = utc(f.since)
    <3>1. f.since \in Moment \cup {NONE}
      BY DEF Query
    <3>2. since_column(f.since) = Bound(dialect, as_utc(f.since))
      BY <1>1 DEF since_column
    <3>3. QED BY <3>1, <3>2, BoundCompares
  <2> HIDE DEF row, Recovered, utc
  <2>8. Selects(i) <=> /\ f.run_id \in {NONE, recorded[i].debit.run_id}
                       /\ f.since = NONE \/ AtOrAfter(recorded[i], f.since)
    BY <2>4, <2>6, <2>7 DEF AtOrAfter
  <2>9. HasTag(i) <=> f.tag = NONE \/ f.tag \in recorded[i].debit.tags
    BY <2>1, <2>3
  <2> HIDE DEF Selects, HasTag
  <2>10. QED BY <2>1, <2>8, <2>9 DEF memory_kept
<1>6. memory_kept(f) \subseteq DOMAIN recorded
  BY DEF memory_kept
<1> HIDE DEF row, Selects, HasTag, memory_kept
<1>7. {j \in DOMAIN recorded : Selects(j) /\ HasTag(j)} = memory_kept(f)
  BY <1>5, <1>6
<1>8. QED BY <1>4, <1>5, <1>6, <1>7

(* The list answers with the entries it keeps, the first recorded first.        *)
LEMMA MemoryAnswers ==
    ASSUME ReadsInv, NEW f
    PROVE  /\ IsFiniteSet(memory_kept(f))
           /\ LET answer == memory_entries(f)
              IN  {answer[n] : n \in DOMAIN answer} = {recorded[i] : i \in memory_kept(f)}
<1>1. memory_kept(f) \subseteq 1..Len(recorded) /\ Len(recorded) \in Nat
  BY DEF ReadsInv, memory_kept
<1>2. IsFiniteSet(memory_kept(f)) /\ memory_kept(f) \in SUBSET Nat
  <2>1. IsFiniteSet(1..Len(recorded))
    BY <1>1, FS_Interval
  <2> HIDE DEF memory_kept
  <2>2. QED BY <1>1, <2>1, FS_Subset
<1> DEFINE kept == InOrder(memory_kept(f))
<1>3. /\ \A n \in DOMAIN kept : kept[n] \in memory_kept(f)
      /\ \A k \in memory_kept(f) : \E n \in DOMAIN kept : kept[n] = k
  <2> HIDE DEF memory_kept
  <2>1. QED BY <1>2, InOrderSorts
<1>4. memory_entries(f) = [n \in DOMAIN kept |-> recorded[kept[n]]]
  BY DEF memory_entries
<1> HIDE DEF kept, memory_kept
<1>5. QED BY <1>2, <1>3, <1>4

(* The database answers with the entries the list keeps, by id.                 *)
LEMMA SqlAnswers ==
    ASSUME ReadsInv, IdsInv, store # "memory", NEW f \in Query
    PROVE  LET answer == sql_entries(f)
           IN  /\ {answer[n] : n \in DOMAIN answer}
                  = {Recovered(recorded[i]) : i \in memory_kept(f)}
               /\ \A m, n \in DOMAIN answer : m < n => answer[m].entry_id < answer[n].entry_id
<1> DEFINE found == sql_kept(f)
<1>1. found = {Recovered(recorded[i]) : i \in memory_kept(f)}
  BY SameEntriesKept
<1>2. \A i \in memory_kept(f) :
        /\ i \in DOMAIN recorded
        /\ Recovered(recorded[i]).entry_id = recorded[i].entry_id
        /\ recorded[i].entry_id \in Nat
  <2>1. \A i \in DOMAIN recorded : recorded[i] \in StoredEntry
    BY DEF ReadsInv
  <2>2. \A i \in memory_kept(f) : i \in DOMAIN recorded
    BY DEF memory_kept
  <2>3. \A e \in StoredEntry : Recovered(e).entry_id = e.entry_id /\ e.entry_id \in Nat
    BY DEF Recovered, StoredEntry
  <2> HIDE DEF memory_kept, Recovered
  <2>4. QED BY <2>1, <2>2, <2>3
<1>3. IsFiniteSet(found)
  <2> DEFINE recovery == [i \in memory_kept(f) |-> Recovered(recorded[i])]
  <2>1. DOMAIN recovery = memory_kept(f) /\ recovery = [i \in memory_kept(f) |-> recovery[i]]
    OBVIOUS
  <2>2. found = {recovery[i] : i \in memory_kept(f)}
    BY <1>1
  <2>3. IsFiniteSet(memory_kept(f))
    BY MemoryAnswers
  <2> HIDE DEF recovery, found
  <2>4. QED BY <2>1, <2>2, <2>3, ImageIsFinite
<1>4. /\ \A entry \in found : entry.entry_id \in Nat
      /\ \A e1, e2 \in found : e1.entry_id = e2.entry_id => e1 = e2
  <2> HIDE DEF found, memory_kept
  <2>1. QED BY <1>1, <1>2 DEF IdsInv
<1> HIDE DEF found
<1>5. /\ {InIdOrder(found)[n] : n \in DOMAIN InIdOrder(found)} = found
      /\ \A m, n \in DOMAIN InIdOrder(found) :
            m < n => InIdOrder(found)[m].entry_id < InIdOrder(found)[n].entry_id
  BY <1>3, <1>4, InIdOrderSorts
<1>6. sql_entries(f) = InIdOrder(found)
  BY DEF sql_entries, found
<1>7. QED BY <1>1, <1>5, <1>6

(* SqlLedger answers as InMemoryLedger would (sql.py class docstring,           *)
(* "observably InMemoryLedger"): for any filters, any debits, either dialect    *)
(* and any interleaving of writers, the same entries, each once, by id.         *)
THEOREM SqlFiltersAsMemory == Spec => []SqlReadsAsMemory
<1>1. ReadsInv /\ IdsInv => SqlReadsAsMemory
  <2> SUFFICES ASSUME ReadsInv, IdsInv, store # "memory", NEW f \in Filters
               PROVE  /\ {sql_entries(f)[n] : n \in DOMAIN sql_entries(f)}
                         = {Recovered(memory_entries(f)[n]) : n \in DOMAIN memory_entries(f)}
                      /\ \A m, n \in DOMAIN sql_entries(f) :
                            m < n => sql_entries(f)[m].entry_id < sql_entries(f)[n].entry_id
    BY DEF SqlReadsAsMemory
  <2>1. f \in Query
    BY ReadsAssumption DEF Query
  <2>2. {memory_entries(f)[n] : n \in DOMAIN memory_entries(f)}
        = {recorded[i] : i \in memory_kept(f)}
    BY MemoryAnswers
  <2>3. {Recovered(memory_entries(f)[n]) : n \in DOMAIN memory_entries(f)}
        = {Recovered(recorded[i]) : i \in memory_kept(f)}
    <3> HIDE DEF Recovered, memory_kept, memory_entries
    <3>1. QED BY <2>2
  <2>4. QED BY <2>1, <2>3, SqlAnswers
<1>2. QED BY <1>1, ReadsInit, ReadsStep, IdsInit, IdsStep, PTL DEF Spec

-----------------------------------------------------------------------------
(* The invariant behind polling: what holds of the entries holds of the debits  *)
(* not committed yet, which a poll cannot return and therefore has noted.       *)

Unaccounted(p, e) == e.entry_id \notin backdated \cup returned[p] \cup overtaken[p]

PollInv ==
    /\ DOMAIN since = Pollers /\ DOMAIN returned = Pollers /\ DOMAIN overtaken = Pollers
    /\ store = "memory" => \A w \in Writers : debiting[w] = NONE
    /\ \A p \in Pollers : since[p] \in Moment /\ utc(since[p]) <= now
    /\ \A p \in Pollers, i \in DOMAIN recorded :
            Unaccounted(p, recorded[i]) => AtOrAfter(recorded[i], since[p])
    /\ \A p \in Pollers, w \in Writers :
            debiting[w] # NONE /\ Unaccounted(p, debiting[w]) => AtOrAfter(debiting[w], since[p])

LEMMA ClockMoment ==
    ASSUME NEW t \in Instants
    PROVE  AtUtc(t) \in Moment /\ utc(AtUtc(t)) = t /\ t \in Nat
BY DataAssumption, ReadsAssumption DEF AtUtc, Moment, utc

(* A debit whose caller left the instant to the clock is dated no earlier than  *)
(* any bound a poller holds; any other is noted (sql.py debit, memory.py debit, *)
(* resolved_debit before the id is drawn).                                      *)
LEMMA NewEntryDated ==
    ASSUME ReadsInv, PollInv, NEW id, NEW d \in Debits, NEW vs \in Verdicts, NoteDate(id, d),
           NEW p \in Pollers
    PROVE  /\ backdated \subseteq backdated'
           /\ \/ NewEntry(id, d, vs).entry_id \in backdated'
              \/ AtOrAfter(NewEntry(id, d, vs), since[p])
<1>1. backdated \subseteq backdated'
  BY DEF NoteDate
<1>2. CASE d.occurred_at # NONE
  BY <1>1, <1>2 DEF NoteDate, NewEntry
<1>3. CASE d.occurred_at = NONE
  <2>1. now \in Instants /\ utc(since[p]) <= now
    BY DEF ReadsInv, PollInv
  <2>2. NewEntry(id, d, vs).debit.occurred_at = AtUtc(now)
    <3> DEFINE dated == [d EXCEPT !.occurred_at = [wall |-> 0, offset |-> 0]]
    <3>1. dated \in EntryDebit
      BY ReadsAssumption
    <3>2. [d EXCEPT !.occurred_at = AtUtc(now)] = [dated EXCEPT !.occurred_at = AtUtc(now)]
      OBVIOUS
    <3> HIDE DEF dated
    <3>3. [dated EXCEPT !.occurred_at = AtUtc(now)].occurred_at = AtUtc(now)
      BY <3>1 DEF EntryDebit
    <3>4. QED BY <1>3, <3>2, <3>3 DEF NewEntry
  <2>3. utc(NewEntry(id, d, vs).debit.occurred_at) = now /\ now \in Nat
    BY <2>1, <2>2, ClockMoment
  <2> HIDE DEF NewEntry, utc
  <2>4. utc(since[p]) \in Int
    BY BoundCompares DEF PollInv
  <2>5. QED BY <1>1, <2>1, <2>3, <2>4 DEF AtOrAfter
<1>4. QED BY <1>2, <1>3

(* A poll returns every entry that is not dated before its bound.               *)
LEMMA PollReturns ==
    ASSUME ReadsInv, IdsInv, PollInv, NEW p \in Pollers, Poll(p),
           NEW i \in DOMAIN recorded, AtOrAfter(recorded[i], since[p])
    PROVE  recorded[i].entry_id \in returned'[p]
<1> DEFINE f == [run_id |-> NONE, tag |-> NONE, since |-> since[p]]
           answer == entries(f)
<1>1. f \in Query
  BY DEF PollInv, Query
<1>2. i \in memory_kept(f)
  BY DEF memory_kept
<1>3. \E n \in DOMAIN answer : answer[n].entry_id = recorded[i].entry_id
  <2> HIDE DEF f, memory_kept
  <2>1. CASE store = "memory"
    <3>1. {memory_entries(f)[n] : n \in DOMAIN memory_entries(f)}
          = {recorded[k] : k \in memory_kept(f)}
      BY MemoryAnswers
    <3> HIDE DEF memory_entries
    <3>2. QED BY <1>2, <2>1, <3>1 DEF entries
  <2>2. CASE store # "memory"
    <3>1. {sql_entries(f)[n] : n \in DOMAIN sql_entries(f)}
          = {Recovered(recorded[k]) : k \in memory_kept(f)}
      BY <1>1, <2>2, SqlAnswers
    <3>2. recorded[i] \in StoredEntry
      BY DEF ReadsInv
    <3>3. Recovered(recorded[i]).entry_id = recorded[i].entry_id
      BY <3>2 DEF Recovered, StoredEntry
    <3> HIDE DEF sql_entries, Recovered
    <3>4. QED BY <1>2, <2>2, <3>1, <3>3 DEF entries
  <2>3. QED BY <2>1, <2>2
<1>4. returned'[p] = returned[p] \cup {answer[n].entry_id : n \in DOMAIN answer}
  BY DEF Poll, PollInv
<1> HIDE DEF answer
<1>5. QED BY <1>3, <1>4

LEMMA PollInit == Init => PollInv
<1> SUFFICES ASSUME Init PROVE PollInv
  OBVIOUS
<1>1. now \in Instants
  BY DEF Init
<1>2. AtUtc(now) \in Moment /\ utc(AtUtc(now)) <= now
  BY <1>1, ClockMoment
<1> HIDE DEF AtUtc, utc
<1>3. QED BY <1>2 DEF Init, PollInv

LEMMA PollStep == ReadsInv /\ IdsInv /\ PollInv /\ [Next]_vars => PollInv'
<1> SUFFICES ASSUME ReadsInv, IdsInv, PollInv, [Next]_vars PROVE PollInv'
  OBVIOUS
<1>0. DOMAIN debiting = Writers
  BY DEF ReadsInv
<1> USE DEF Unaccounted
<1>1. CASE Tick
  <2>1. /\ now' \in Instants /\ now' > now /\ now \in Nat /\ now' \in Nat
        /\ UNCHANGED <<store, recorded, debiting, polls, backdated>>
    BY <1>1, DataAssumption DEF Tick, ReadsInv
  <2>2. \A p \in Pollers : utc(since[p]) \in Int
    BY BoundCompares DEF PollInv
  <2> HIDE DEF utc
  <2>3. \A p \in Pollers : utc(since[p]) <= now'
    BY <2>1, <2>2 DEF PollInv
  <2>4. QED BY <2>1, <2>3 DEF PollInv, polls, AtOrAfter
<1>2. ASSUME NEW p \in Pollers, Poll(p) PROVE PollInv'
  <2>1. /\ UNCHANGED <<store, recorded, debiting, now, backdated>>
        /\ since' = [since EXCEPT ![p] = AtUtc(now)]
        /\ overtaken' = [overtaken EXCEPT ![p] = @ \cup InProgress]
    BY <1>2 DEF Poll
  <2>2. /\ DOMAIN returned' = Pollers /\ returned[p] \subseteq returned'[p]
        /\ \A q \in Pollers \ {p} : returned'[q] = returned[q]
    BY <1>2 DEF Poll, PollInv
  <2>3. since'[p] \in Moment /\ utc(since'[p]) <= now
    <3>1. now \in Instants /\ since'[p] = AtUtc(now)
      BY <2>1 DEF ReadsInv, PollInv
    <3>2. QED BY <3>1, ClockMoment
  <2>4. \A i \in DOMAIN recorded : ~Unaccounted(p, recorded[i])'
    <3> SUFFICES ASSUME NEW i \in DOMAIN recorded, Unaccounted(p, recorded[i])' PROVE FALSE
      OBVIOUS
    <3>1. Unaccounted(p, recorded[i]) /\ recorded[i].entry_id \notin returned'[p]
      BY <2>1, <2>2 DEF PollInv
    <3>2. AtOrAfter(recorded[i], since[p])
      BY <3>1 DEF PollInv
    <3>3. QED BY <1>2, <3>1, <3>2, PollReturns
  <2>5. \A w \in Writers : debiting[w] # NONE => ~Unaccounted(p, debiting[w])'
    BY <2>1 DEF InProgress, PollInv
  <2>6. \A q \in Pollers \ {p} : since'[q] = since[q] /\ overtaken'[q] = overtaken[q]
    BY <2>1 DEF PollInv
  <2> HIDE DEF utc, AtOrAfter
  <2>7. QED BY <2>1, <2>2, <2>3, <2>4, <2>5, <2>6 DEF PollInv
<1>3. CASE LockedDebit
  <2>1. PICK id \in Ulids[now], d \in Debits, vs \in Verdicts :
            Insert(NewEntry(id, d, vs)) /\ NoteDate(id, d)
    BY <1>3 DEF LockedDebit
  <2>2. UNCHANGED <<store, debiting, now, polls>>
    BY <1>3 DEF LockedDebit
  <2>3. /\ DOMAIN recorded' = DOMAIN recorded \cup {Len(recorded) + 1}
        /\ \A i \in DOMAIN recorded : recorded'[i] = recorded[i]
        /\ recorded'[Len(recorded) + 1] = NewEntry(id, d, vs)
    BY <2>1, InsertAppends
  <2>4. \A p \in Pollers :
            /\ backdated \subseteq backdated'
            /\ \/ NewEntry(id, d, vs).entry_id \in backdated'
               \/ AtOrAfter(NewEntry(id, d, vs), since[p])
    BY <2>1, NewEntryDated
  <2> HIDE DEF utc, AtOrAfter, NewEntry
  <2>5. QED BY <2>2, <2>3, <2>4 DEF PollInv, polls
<1>4. ASSUME NEW w \in Writers, BeginDebit(w) PROVE PollInv'
  <2>1. PICK id \in Ulids[now], d \in Debits, vs \in Verdicts :
            debiting' = [debiting EXCEPT ![w] = NewEntry(id, d, vs)] /\ NoteDate(id, d)
    BY <1>4 DEF BeginDebit
  <2>2. store # "memory" /\ UNCHANGED <<store, recorded, now, polls>>
    BY <1>4 DEF BeginDebit
  <2>3. \A p \in Pollers :
            /\ backdated \subseteq backdated'
            /\ \/ NewEntry(id, d, vs).entry_id \in backdated'
               \/ AtOrAfter(NewEntry(id, d, vs), since[p])
    BY <2>1, NewEntryDated
  <2>4. /\ \A x \in Writers \ {w} : debiting'[x] = debiting[x]
        /\ debiting'[w] = NewEntry(id, d, vs)
    BY <1>0, <2>1
  <2> HIDE DEF utc, AtOrAfter, NewEntry
  <2>5. QED BY <2>2, <2>3, <2>4 DEF PollInv, polls
<1>5. ASSUME NEW w \in Writers, CommitDebit(w) PROVE PollInv'
  <2>1. debiting[w] # NONE /\ Insert(debiting[w]) /\ UNCHANGED <<store, now, polls, backdated>>
    BY <1>5 DEF CommitDebit
  <2>2. /\ DOMAIN recorded' = DOMAIN recorded \cup {Len(recorded) + 1}
        /\ \A i \in DOMAIN recorded : recorded'[i] = recorded[i]
        /\ recorded'[Len(recorded) + 1] = debiting[w]
    BY <2>1, InsertAppends
  <2>3. \A x \in Writers : debiting'[x] # NONE => x # w /\ debiting'[x] = debiting[x]
    BY <1>0, <1>5 DEF CommitDebit
  <2> HIDE DEF utc, AtOrAfter
  <2>4. QED BY <2>1, <2>2, <2>3 DEF PollInv, polls
<1>6. ASSUME NEW w \in Writers, RollbackDebit(w) PROVE PollInv'
  <2>1. \A x \in Writers : debiting'[x] # NONE => x # w /\ debiting'[x] = debiting[x]
    BY <1>0, <1>6 DEF RollbackDebit
  <2>2. UNCHANGED <<store, recorded, now, polls, backdated>>
    BY <1>6 DEF RollbackDebit
  <2> HIDE DEF utc, AtOrAfter
  <2>3. QED BY <2>1, <2>2 DEF PollInv, polls
<1>7. CASE UNCHANGED vars
  BY <1>7 DEF vars, polls, PollInv, AtOrAfter
<1>8. QED BY <1>1, <1>2, <1>3, <1>4, <1>5, <1>6, <1>7 DEF Next

(* A caller that polls by "since" misses nothing but debits in progress while   *)
(* it asked and those dated by their caller (sql.py entries, "two consecutive   *)
(* queries with touching bounds"), for any number of writers and pollers, any   *)
(* debits and any of the three stores.                                          *)
THEOREM PollersMissOnlyInFlight == Spec => []OnlyInFlightIsMissed
<1>1. PollInv => OnlyInFlightIsMissed
  BY DEF PollInv, Unaccounted, OnlyInFlightIsMissed
<1>2. QED BY <1>1, ReadsInit, ReadsStep, IdsInit, IdsStep, PollInit, PollStep, PTL DEF Spec

-----------------------------------------------------------------------------
(* Ids and polls: what a poller was given was drawn by the instant it last      *)
(* asked at, and what it still has to be given was drawn at that instant or     *)
(* later.                                                                       *)

DrawnBy(id, t) == \E u \in Instants : u <= t /\ id \in Ulids[u]
DrawnSince(id, t) == \E u \in Instants : t <= u /\ id \in Ulids[u]

ResumeInv ==
    /\ \A id \in drawn : DrawnBy(id, now)
    /\ \A p \in Pollers : \A id \in returned[p] : DrawnBy(id, utc(since[p]))
    /\ \A p \in Pollers, i \in DOMAIN recorded :
            Unaccounted(p, recorded[i]) => DrawnSince(recorded[i].entry_id, utc(since[p]))
    /\ \A p \in Pollers, w \in Writers :
            debiting[w] # NONE /\ Unaccounted(p, debiting[w])
                => DrawnSince(debiting[w].entry_id, utc(since[p]))

LEMMA DrawnGrows ==
    ASSUME NEW id, NEW s \in Int, NEW t \in Int, s <= t, DrawnBy(id, s)
    PROVE  DrawnBy(id, t)
<1>1. PICK u \in Instants : u <= s /\ id \in Ulids[u]
  BY DEF DrawnBy
<1>2. u \in Int
  BY DataAssumption
<1>3. u <= t
  BY <1>1, <1>2
<1>4. QED BY <1>1, <1>3 DEF DrawnBy

(* A poll returns ids of recorded entries, and no others.                       *)
LEMMA PollReturnsRecorded ==
    ASSUME ReadsInv, IdsInv, PollInv, NEW p \in Pollers, Poll(p), NEW id \in returned'[p]
    PROVE  id \in returned[p] \/ \E i \in DOMAIN recorded : id = recorded[i].entry_id
<1> DEFINE f == [run_id |-> NONE, tag |-> NONE, since |-> since[p]]
           answer == entries(f)
<1>1. f \in Query
  BY DEF PollInv, Query
<1>2. \A k \in memory_kept(f) : k \in DOMAIN recorded
  BY DEF memory_kept
<1>3. \A n \in DOMAIN answer : \E i \in DOMAIN recorded : answer[n].entry_id = recorded[i].entry_id
  <2> HIDE DEF f, memory_kept
  <2>1. CASE store = "memory"
    <3>1. {memory_entries(f)[n] : n \in DOMAIN memory_entries(f)}
          = {recorded[k] : k \in memory_kept(f)}
      BY MemoryAnswers
    <3> HIDE DEF memory_entries
    <3>2. \A n \in DOMAIN memory_entries(f) :
            \E k \in memory_kept(f) : memory_entries(f)[n] = recorded[k]
      BY <3>1
    <3>3. answer = memory_entries(f)
      BY <2>1 DEF entries
    <3>4. QED BY <1>2, <3>2, <3>3
  <2>2. CASE store # "memory"
    <3>1. {sql_entries(f)[n] : n \in DOMAIN sql_entries(f)}
          = {Recovered(recorded[k]) : k \in memory_kept(f)}
      BY <1>1, <2>2, SqlAnswers
    <3>2. \A i \in DOMAIN recorded : Recovered(recorded[i]).entry_id = recorded[i].entry_id
      BY DEF ReadsInv, Recovered, StoredEntry
    <3> HIDE DEF sql_entries, Recovered
    <3>3. \A n \in DOMAIN sql_entries(f) :
            \E k \in memory_kept(f) : sql_entries(f)[n] = Recovered(recorded[k])
      BY <3>1
    <3>4. answer = sql_entries(f)
      BY <2>2 DEF entries
    <3>5. QED BY <1>2, <3>2, <3>3, <3>4
  <2>3. QED BY <2>1, <2>2
<1>4. returned'[p] = returned[p] \cup {answer[n].entry_id : n \in DOMAIN answer}
  BY DEF Poll, PollInv
<1> HIDE DEF answer
<1>5. QED BY <1>3, <1>4

LEMMA ResumeInit == Init => ResumeInv
BY DEF Init, ResumeInv

LEMMA ResumeStep == ReadsInv /\ IdsInv /\ PollInv /\ ResumeInv /\ [Next]_vars => ResumeInv'
<1> SUFFICES ASSUME ReadsInv, IdsInv, PollInv, ResumeInv, [Next]_vars PROVE ResumeInv'
  OBVIOUS
<1>a. DOMAIN debiting = Writers
  BY DEF ReadsInv
<1>b. /\ now \in Instants /\ now \in Nat
      /\ \A p \in Pollers : utc(since[p]) \in Int /\ utc(since[p]) <= now
  <2>1. now \in Instants
    BY DEF ReadsInv
  <2>2. \A p \in Pollers : since[p] \in Moment /\ utc(since[p]) <= now
    BY DEF PollInv
  <2>3. \A p \in Pollers : utc(since[p]) \in Int
    BY <2>2, BoundCompares
  <2>4. QED BY <2>1, <2>2, <2>3, DataAssumption
<1> USE DEF Unaccounted
<1> HIDE DEF utc
\* A debit begun now: its id is of this instant, no earlier than any poll.
<1>c. ASSUME NEW id, NewId(id)
      PROVE  /\ \A x \in drawn' : DrawnBy(x, now)
             /\ \A p \in Pollers : DrawnSince(id, utc(since[p]))
  <2>1. id \in Ulids[now] /\ drawn' = drawn \cup {id}
    BY <1>c DEF NewId
  <2>2. DrawnBy(id, now)
    BY <1>b, <2>1 DEF DrawnBy
  <2>3. QED BY <1>b, <2>1, <2>2 DEF ResumeInv, DrawnSince
<1>1. CASE Tick
  <2>1. /\ now' \in Instants /\ now' > now /\ now' \in Nat
        /\ UNCHANGED <<recorded, drawn, debiting, polls, backdated>>
    BY <1>1, DataAssumption DEF Tick
  <2>2. \A id \in drawn : DrawnBy(id, now')
    BY <1>b, <2>1, DrawnGrows DEF ResumeInv
  <2>3. QED BY <2>1, <2>2 DEF ResumeInv, polls, utc
<1>2. ASSUME NEW p \in Pollers, Poll(p) PROVE ResumeInv'
  <2>1. /\ UNCHANGED <<recorded, drawn, debiting, now, backdated>>
        /\ since' = [since EXCEPT ![p] = AtUtc(now)]
        /\ overtaken' = [overtaken EXCEPT ![p] = @ \cup InProgress]
    BY <1>2 DEF Poll
  <2>2. returned[p] \subseteq returned'[p] /\ \A q \in Pollers \ {p} : returned'[q] = returned[q]
    BY <1>2 DEF Poll, PollInv
  <2>3. /\ since'[p] = AtUtc(now) /\ \A q \in Pollers \ {p} : since'[q] = since[q]
        /\ overtaken'[p] = overtaken[p] \cup InProgress
        /\ \A q \in Pollers \ {p} : overtaken'[q] = overtaken[q]
    BY <2>1 DEF PollInv
  <2>4. utc(since'[p]) = now
    BY <1>b, <2>3, ClockMoment
  <2>5. \A id \in returned'[p] : DrawnBy(id, utc(since'[p]))
    <3>1. TAKE id \in returned'[p]
    <3>2. CASE id \in returned[p]
      BY <1>b, <2>4, <3>2, DrawnGrows DEF ResumeInv
    <3>3. CASE \E i \in DOMAIN recorded : id = recorded[i].entry_id
      BY <2>4, <3>3 DEF ResumeInv, IdsInv
    <3>4. QED BY <1>2, <3>2, <3>3, PollReturnsRecorded
  <2>6. \A i \in DOMAIN recorded : ~Unaccounted(p, recorded[i])'
    <3> SUFFICES ASSUME NEW i \in DOMAIN recorded, Unaccounted(p, recorded[i])' PROVE FALSE
      OBVIOUS
    <3>1. Unaccounted(p, recorded[i]) /\ recorded[i].entry_id \notin returned'[p]
      BY <2>1, <2>2, <2>3
    <3>2. AtOrAfter(recorded[i], since[p])
      BY <3>1 DEF PollInv
    <3>3. QED BY <1>2, <3>1, <3>2, PollReturns
  <2>7. \A w \in Writers : debiting[w] # NONE => ~Unaccounted(p, debiting[w])'
    BY <2>1, <2>3 DEF InProgress
  <2>8. \A id \in drawn' : DrawnBy(id, now')
    BY <2>1 DEF ResumeInv
  <2>9. \A q \in Pollers : \A id \in returned'[q] : DrawnBy(id, utc(since'[q]))
    BY <2>2, <2>3, <2>5 DEF ResumeInv
  <2>10. \A q \in Pollers, i \in DOMAIN recorded :
            Unaccounted(q, recorded[i])' => DrawnSince(recorded[i].entry_id, utc(since'[q]))
    BY <2>1, <2>2, <2>3, <2>6 DEF ResumeInv
  <2>11. \A q \in Pollers, w \in Writers :
            debiting[w] # NONE /\ Unaccounted(q, debiting[w])'
                => DrawnSince(debiting[w].entry_id, utc(since'[q]))
    BY <2>1, <2>2, <2>3, <2>7 DEF ResumeInv
  <2> HIDE DEF DrawnBy, DrawnSince
  <2>12. QED BY <2>1, <2>8, <2>9, <2>10, <2>11 DEF ResumeInv, utc
<1>3. CASE LockedDebit
  <2>1. PICK id \in Ulids[now], d \in Debits, vs \in Verdicts :
            NewId(id) /\ Insert(NewEntry(id, d, vs)) /\ NoteDate(id, d)
    BY <1>3 DEF LockedDebit
  <2>2. UNCHANGED <<debiting, now, polls>> /\ backdated \subseteq backdated'
    BY <1>3, <2>1 DEF LockedDebit, NoteDate
  <2>3. /\ DOMAIN recorded' = DOMAIN recorded \cup {Len(recorded) + 1}
        /\ \A i \in DOMAIN recorded : recorded'[i] = recorded[i]
        /\ recorded'[Len(recorded) + 1].entry_id = id
    <3>1. NewEntry(id, d, vs).entry_id = id
      BY DEF NewEntry
    <3>2. QED BY <2>1, <3>1, InsertAppends
  <2>4. (\A x \in drawn' : DrawnBy(x, now)) /\ \A p \in Pollers : DrawnSince(id, utc(since[p]))
    BY <1>c, <2>1
  <2> HIDE DEF DrawnBy, DrawnSince
  <2>5. QED BY <2>2, <2>3, <2>4 DEF ResumeInv, polls, utc
<1>4. ASSUME NEW w \in Writers, BeginDebit(w) PROVE ResumeInv'
  <2>1. PICK id \in Ulids[now], d \in Debits, vs \in Verdicts :
            /\ NewId(id) /\ NoteDate(id, d)
            /\ debiting' = [debiting EXCEPT ![w] = NewEntry(id, d, vs)]
    BY <1>4 DEF BeginDebit
  <2>2. UNCHANGED <<recorded, now, polls>> /\ backdated \subseteq backdated'
    BY <1>4, <2>1 DEF BeginDebit, NoteDate
  <2>3. /\ \A x \in Writers \ {w} : debiting'[x] = debiting[x]
        /\ debiting'[w].entry_id = id
    BY <1>a, <2>1 DEF NewEntry
  <2>4. (\A x \in drawn' : DrawnBy(x, now)) /\ \A p \in Pollers : DrawnSince(id, utc(since[p]))
    BY <1>c, <2>1
  <2> HIDE DEF DrawnBy, DrawnSince
  <2>5. QED BY <2>2, <2>3, <2>4 DEF ResumeInv, polls, utc
<1>5. ASSUME NEW w \in Writers, CommitDebit(w) PROVE ResumeInv'
  <2>1. debiting[w] # NONE /\ Insert(debiting[w]) /\ UNCHANGED <<drawn, now, polls, backdated>>
    BY <1>5 DEF CommitDebit
  <2>2. /\ DOMAIN recorded' = DOMAIN recorded \cup {Len(recorded) + 1}
        /\ \A i \in DOMAIN recorded : recorded'[i] = recorded[i]
        /\ recorded'[Len(recorded) + 1] = debiting[w]
    BY <2>1, InsertAppends
  <2>3. \A x \in Writers : debiting'[x] # NONE => x # w /\ debiting'[x] = debiting[x]
    BY <1>a, <1>5 DEF CommitDebit
  <2> HIDE DEF DrawnBy, DrawnSince
  <2>4. QED BY <2>1, <2>2, <2>3 DEF ResumeInv, polls, utc
<1>6. ASSUME NEW w \in Writers, RollbackDebit(w) PROVE ResumeInv'
  <2>1. \A x \in Writers : debiting'[x] # NONE => x # w /\ debiting'[x] = debiting[x]
    BY <1>a, <1>6 DEF RollbackDebit
  <2>2. UNCHANGED <<recorded, drawn, now, polls, backdated>>
    BY <1>6 DEF RollbackDebit
  <2> HIDE DEF DrawnBy, DrawnSince
  <2>3. QED BY <2>1, <2>2 DEF ResumeInv, polls, utc
<1>7. CASE UNCHANGED vars
  BY <1>7 DEF vars, polls, ResumeInv, utc
<1>8. QED BY <1>1, <1>2, <1>3, <1>4, <1>5, <1>6, <1>7 DEF Next

(* A caller that goes on from the greatest id it has (sql.py entries, "entry    *)
(* ids are ULIDs") skips only debits in progress while it asked, debits dated   *)
(* by their caller, and debits of the very instant of that id.                  *)
THEOREM IdsSkipOnlyInFlight == Spec => []IdsResumeAfterPoll
<1>1. ReadsInv /\ PollInv /\ ResumeInv => IdsResumeAfterPoll
  <2> SUFFICES ASSUME ReadsInv, PollInv, ResumeInv,
                      NEW p \in Pollers, NEW i \in DOMAIN recorded,
                      Unaccounted(p, recorded[i]), NEW id \in returned[p]
               PROVE  \/ id < recorded[i].entry_id
                      \/ \E t \in Instants : {id, recorded[i].entry_id} \subseteq Ulids[t]
    BY DEF IdsResumeAfterPoll, Unaccounted
  <2>1. PICK s \in Instants : s <= utc(since[p]) /\ id \in Ulids[s]
    BY DEF ResumeInv, DrawnBy
  <2>2. PICK t \in Instants : utc(since[p]) <= t /\ recorded[i].entry_id \in Ulids[t]
    BY DEF ResumeInv, DrawnSince
  <2>3. s \in Nat /\ t \in Nat /\ utc(since[p]) \in Int
    <3>1. since[p] \in Moment
      BY DEF PollInv
    <3>2. QED BY <3>1, DataAssumption, BoundCompares
  <2> HIDE DEF utc
  <2>4. s < t \/ s = t
    BY <2>1, <2>2, <2>3
  <2>5. QED BY <2>1, <2>2, <2>4, ReadsAssumption
<1>2. QED BY <1>1, ReadsInit, ReadsStep, IdsInit, IdsStep, PollInit, PollStep,
             ResumeInit, ResumeStep, PTL DEF Spec

=============================================================================
