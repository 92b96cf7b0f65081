-------------------------- MODULE BalanceBookProofs --------------------------
(***************************************************************************)
(* Lemmas about the operators of BalanceBook: what they return for values   *)
(* of the right type.  The proofs about the ledgers cite them by name.      *)
(***************************************************************************)
EXTENDS History, FiniteSetsExt, FiniteSetTheorems, WellFoundedInduction, TLAPS

(* NONE is not a number: None never passes for an amount. *)
LEMMA NoneIsNoNumber == NONE \notin Nat /\ NONE \notin Instants /\ UNSUPPORTED \notin Nat
BY DataAssumption

(* A resolved debit carries an instant (core.py resolved_debit). *)
LEMMA ResolvedDebitType ==
    ASSUME NEW d \in Debit, NEW now \in Instants
    PROVE  resolved_debit(d, now) \in ResolvedDebit
BY DataAssumption DEF resolved_debit, Debit, ResolvedDebit

(* The windows of a debit are windows (core.py windows_touched). *)
LEMMA WindowsOfType ==
    ASSUME NEW d \in ResolvedDebit
    PROVE  WindowsOf(d) \in SUBSET ScopeKey
BY DEF WindowsOf, windows_touched, ScopeKey, ResolvedDebit

(* What a debit adds is non-negative and names a currency only when it was     *)
(* priced with an estimate (core.py contribution_of).                          *)
LEMMA ContributionType ==
    ASSUME NEW usage \in TokenUsage, NEW cost \in CostEstimate \cup {NONE}
    PROVE  contribution_of(usage, cost) \in DebitContribution
<1>1. ASSUME NEW f \in [TokenClasses -> Nat \cup {UNSUPPORTED}]
      PROVE  SumOfReported(f) \in Nat
  <2>1. \A class \in TokenClasses : OrZero(f[class]) \in Nat
    BY DEF OrZero
  <2>2. QED BY <2>1 DEF SumOfReported, TokenClasses
<1>2. SumOfReported(usage) \in Nat
  BY <1>1 DEF TokenUsage
<1>3. CASE cost = NONE
  BY <1>2, <1>3 DEF contribution_of, DebitContribution
<1>4. CASE cost # NONE
  <2>1. cost \in CostEstimate
    BY <1>4
  <2>2. SumOfReported(cost.components) \in Nat /\ cost.currency \in Currencies
    BY <2>1, <1>1 DEF CostEstimate
  <2>3. QED BY <1>2, <1>4, <2>2 DEF contribution_of, DebitContribution
<1>5. QED BY <1>3, <1>4

(* A flag counts for zero or one. *)
LEMMA CountType == ASSUME NEW flag \in BOOLEAN PROVE Count(flag) \in Nat
BY DEF Count

(* Accumulating a contribution keeps a balance a balance (core.py record). *)
LEMMA AccumulateType ==
    ASSUME NEW b \in ScopeBalance, NEW c \in DebitContribution
    PROVE  Accumulate(b, c) \in ScopeBalance
<1>1. \A currency \in Currencies : NoneAsZero(b.nanos_by_currency[currency]) \in Nat
  BY DEF NoneAsZero, ScopeBalance
<1>2. QED BY <1>1 DEF Accumulate, ScopeBalance, DebitContribution, Count

(* The empty balance is a balance. *)
LEMMA EmptyBalanceType == EMPTY_BALANCE \in ScopeBalance
BY DEF EMPTY_BALANCE, ScopeBalance

(* A verdict is a well-formed verdict (core.py _verdict_for). *)
LEMMA VerdictType ==
    ASSUME NEW c \in BudgetCeiling, NEW b \in ScopeBalance, NEW d \in DebitContribution
    PROVE  verdict_over(c, b, d) \in CeilingVerdict
<1>1. MoneyWith(c, b, d) \in Nat \cup {NONE}
  BY DEF MoneyWith, BudgetCeiling, ScopeBalance, DebitContribution, NoneAsZero
<1>2. c.money # NONE => c.money.nanos - NoneAsZero(MoneyWith(c, b, d)) \in Int
  BY <1>1, DataAssumption DEF NoneAsZero, BudgetCeiling
<1>3. c.tokens # NONE => c.tokens - (b.tokens_spent + d.tokens) \in Int
  BY DEF BudgetCeiling, ScopeBalance, DebitContribution
<1>4. OverTokens(c, b.tokens_spent + d.tokens) \in BOOLEAN
  BY DEF OverTokens, BudgetCeiling, ScopeBalance, DebitContribution
<1>5. OverMoney(c, MoneyWith(c, b, d)) \in BOOLEAN
  BY <1>1 DEF OverMoney, BudgetCeiling
<1>6. /\ b.tokens_spent + d.tokens \in Nat
      /\ b.unpriced_debit_count + Count(d.unpriced) \in Nat
      /\ b.untotalled_debit_count + Count(d.untotalled) \in Nat
      /\ b.unmetered_debit_count + Count(d.unmetered) \in Nat
  BY DEF ScopeBalance, DebitContribution, Count
<1>7. QED BY <1>1, <1>2, <1>3, <1>4, <1>5, <1>6 DEF verdict_over, CeilingVerdict

-----------------------------------------------------------------------------
(* Finite sets *)

(* A nonempty set of subsets of a finite set has a minimal member.  What would *)
(* be an induction over finite sets is argued from a minimal counterexample.  *)
LEMMA FiniteMin ==
    ASSUME NEW S, IsFiniteSet(S), NEW T, T \subseteq SUBSET S, T # {}
    PROVE  \E m \in T : \A n \in T : ~(n \subseteq m /\ n # m)
<1>1. IsWellFoundedOn(StrictSubsetOrdering(S), FiniteSubsetsOf(S))
  BY FS_StrictSubsetOrderingWellFounded
<1>1a. FiniteSubsetsOf(S) = SUBSET S
  BY FS_FiniteSubsetsOfFinite
<1>2. \E m \in T : \A n \in T : ~(<<n, m>> \in StrictSubsetOrdering(S))
  BY <1>1, <1>1a, WFMin
<1>3. QED BY <1>2 DEF StrictSubsetOrdering

(* A nonempty set of numbers has a least member. *)
LEMMA NatMin ==
    ASSUME NEW T, T \subseteq Nat, T # {}
    PROVE  \E m \in T : \A n \in T : m <= n
<1>1. PICK t \in T : TRUE
  OBVIOUS
<1> DEFINE Below == {0 .. n : n \in {k \in T : k <= t}}
           All == 0 .. t
<1>2. IsFiniteSet(All)
  BY FS_Interval
<1>3. Below # {} /\ Below \subseteq SUBSET All
  BY <1>1
<1>4. PICK low \in Below : \A b \in Below : ~(b \subseteq low /\ b # low)
  <2> HIDE DEF Below, All
  <2> QED BY <1>2, <1>3, FiniteMin
<1>5. PICK m \in T : m <= t /\ low = 0 .. m
  BY <1>4
<1>6. ASSUME NEW n \in T, ~(m <= n) PROVE FALSE
  <2>1. n \in Nat /\ m \in Nat /\ t \in Nat
    BY <1>1
  <2>2. 0 .. n \in Below
    BY <1>5, <1>6, <2>1
  <2>3. 0 .. n \subseteq low
    BY <1>5, <1>6, <2>1
  <2>4. m \in low /\ m \notin 0 .. n
    BY <1>5, <1>6, <2>1
  <2>5. QED BY <1>4, <2>2, <2>3, <2>4
<1>7. QED BY <1>6

(* A nonempty finite set that is strictly ordered has a member that none precedes. *)
LEMMA NonePrecedes ==
    ASSUME NEW S, IsFiniteSet(S), S # {}, NEW R,
           \A i, j, k \in S : <<i, j>> \in R /\ <<j, k>> \in R => <<i, k>> \in R,
           \A i \in S : <<i, i>> \notin R
    PROVE  \E m \in S : \A n \in S : <<n, m>> \notin R
<1> DEFINE Ahead(i) == {j \in S : <<j, i>> \in R}
           Family == {Ahead(i) : i \in S}
<1>1. Family # {} /\ Family \subseteq SUBSET S
  <2>1. \A i \in S : Ahead(i) \in Family /\ Ahead(i) \subseteq S
    OBVIOUS
  <2>2. QED BY <2>1
<1>2. PICK low \in Family : \A a \in Family : ~(a \subseteq low /\ a # low)
  <2> HIDE DEF Family
  <2>1. \E m \in Family : \A n \in Family : ~(n \subseteq m /\ n # m)
    BY <1>1, FiniteMin
  <2>2. QED BY <2>1
<1>3. PICK m \in S : low = Ahead(m)
  BY <1>2
<1>4. ASSUME NEW n \in S, <<n, m>> \in R PROVE FALSE
  <2>1. Ahead(n) \subseteq low /\ n \in low /\ n \notin Ahead(n)
    BY <1>3, <1>4
  <2>2. Ahead(n) \in Family
    OBVIOUS
  <2>3. QED BY <1>2, <2>1, <2>2
<1>5. QED BY <1>4

(* A nonempty finite set of numbers has a greatest member. *)
LEMMA NatMax ==
    ASSUME NEW T, T \subseteq Nat, T # {}, IsFiniteSet(T)
    PROVE  \E m \in T : \A n \in T : n <= m
<1> DEFINE R == {p \in T \X T : p[1] > p[2]}
<1>1. \A i, j \in T : <<i, j>> \in R <=> i > j
  OBVIOUS
<1>2. \A i, j \in T : ~(i > j) <=> i <= j
  OBVIOUS
<1>3. \A i, j, k \in T : i > j /\ j > k => i > k
  OBVIOUS
<1> HIDE DEF R
<1>4. PICK m \in T : \A n \in T : <<n, m>> \notin R
  <2>1. \A i, j, k \in T : <<i, j>> \in R /\ <<j, k>> \in R => <<i, k>> \in R
    BY <1>1, <1>3
  <2>2. \A i \in T : <<i, i>> \notin R
    BY <1>1
  <2>3. QED BY <2>1, <2>2, NonePrecedes
<1>5. QED BY <1>1, <1>2, <1>4

(* The image of a finite set is finite. *)
LEMMA ImageIsFinite ==
    ASSUME NEW S, IsFiniteSet(S), NEW f, DOMAIN f = S, f = [x \in S |-> f[x]]
    PROVE  IsFiniteSet({f[x] : x \in S})
<1> DEFINE T == {f[x] : x \in S}
<1>1. f \in Surjection(S, T)
  BY DEF Surjection
<1>2. QED BY <1>1, FS_Surjection

(* Max of the community modules bounds a finite set and is a member of it. *)
LEMMA MaxBounds ==
    ASSUME NEW T, T \subseteq Nat, T # {}, IsFiniteSet(T)
    PROVE  Max(T) \in T /\ \A n \in T : n <= Max(T)
<1>1. \E m \in T : \A n \in T : m >= n
  BY NatMax
<1>2. Max(T) \in T /\ \A n \in T : Max(T) >= n
  BY <1>1 DEF Max
<1>3. QED BY <1>2

-----------------------------------------------------------------------------
(* Sums over finite sets *)

\* g gives every subset of S what f adds up to over it.
Additive(g, f, S) ==
    /\ g \in [SUBSET S -> Nat]
    /\ g[{}] = 0
    /\ \A s \in SUBSET S : \A x \in s : g[s] = f[x] + g[s \ {x}]

\* h is what MapThenFoldSet recurses with.
Iterates(h, f, S) ==
    h = [s \in SUBSET S |->
            IF s = {} THEN 0
            ELSE LET x == CHOOSE x \in s : TRUE IN f[x] + h[s \ {x}]]

(* The sum of the community modules can only be such a g. *)
LEMMA AdditiveUnique ==
    ASSUME NEW S, IsFiniteSet(S), NEW f, \A x \in S : f[x] \in Nat,
           NEW g, Additive(g, f, S),
           NEW h, Iterates(h, f, S)
    PROVE  h = g
<1> DEFINE Bad == {s \in SUBSET S : h[s] # g[s]}
<1>1. SUFFICES ASSUME Bad # {} PROVE FALSE
  BY DEF Additive, Iterates
<1>1a. Bad \subseteq SUBSET S
  OBVIOUS
<1>2. PICK s \in Bad : \A t \in Bad : ~(t \subseteq s /\ t # s)
  <2> HIDE DEF Bad
  <2> QED BY <1>1, <1>1a, FiniteMin
<1>3. s # {}
  BY <1>2 DEF Additive, Iterates
<1> DEFINE x == CHOOSE x \in s : TRUE
<1>4. x \in s
  BY <1>3
<1>5. h[s \ {x}] = g[s \ {x}]
  BY <1>2, <1>4
<1>6. h[s] = f[x] + h[s \ {x}]
  BY <1>3 DEF Iterates
<1>6a. g[s] = f[x] + g[s \ {x}]
  <2> HIDE DEF x
  <2> QED BY <1>4 DEF Additive
<1>7. QED BY <1>2, <1>5, <1>6, <1>6a

(* Every f has one: a set with an element more is summed from the set without. *)
LEMMA AdditiveExists ==
    ASSUME NEW S, IsFiniteSet(S), NEW f, \A x \in S : f[x] \in Nat
    PROVE  \E g : Additive(g, f, S)
<1> DEFINE Bad == {s \in SUBSET S : ~ \E g : Additive(g, f, s)}
<1>1. SUFFICES ASSUME Bad # {} PROVE FALSE
  OBVIOUS
<1>1a. Bad \subseteq SUBSET S
  OBVIOUS
<1>2. PICK s \in Bad : \A t \in Bad : ~(t \subseteq s /\ t # s)
  <2> HIDE DEF Bad
  <2> QED BY <1>1, <1>1a, FiniteMin
<1>3. s # {}
  <2>1. Additive([t \in SUBSET {} |-> 0], f, {})
    BY DEF Additive
  <2>2. QED BY <1>2, <2>1
<1>4. PICK a \in s : TRUE
  BY <1>3
<1>5. PICK g : Additive(g, f, s \ {a})
  BY <1>2, <1>4
<1> DEFINE G == [t \in SUBSET s |-> g[t \ {a}] + IF a \in t THEN f[a] ELSE 0]
<1>6. Additive(G, f, s)
  <2>1. G \in [SUBSET s -> Nat]
    BY <1>5, <1>4 DEF Additive
  <2>2. G[{}] = 0
    BY <1>5 DEF Additive
  <2>3. ASSUME NEW t \in SUBSET s, NEW x \in t PROVE G[t] = f[x] + G[t \ {x}]
    <3>0. f[a] \in Nat /\ f[x] \in Nat /\ g[t \ {a}] \in Nat /\ g[(t \ {x}) \ {a}] \in Nat
      BY <1>5, <1>4 DEF Additive
    <3>1. CASE x = a
      <4>1. (t \ {x}) \ {a} = t \ {a}
        BY <3>1
      <4>3. G[t] = g[t \ {a}] + f[a]
        BY <3>1
      <4>4. G[t \ {x}] = g[t \ {a}] + 0
        BY <3>1, <4>1
      <4> HIDE DEF G
      <4>5. QED BY <3>0, <3>1, <4>3, <4>4
    <3>2. CASE x # a
      <4>1. (t \ {x}) \ {a} = (t \ {a}) \ {x}
        OBVIOUS
      <4>2. g[t \ {a}] = f[x] + g[(t \ {a}) \ {x}]
        BY <1>5, <3>2 DEF Additive
      <4>3. G[t] = g[t \ {a}] + IF a \in t THEN f[a] ELSE 0
        OBVIOUS
      <4>4. G[t \ {x}] = g[(t \ {x}) \ {a}] + IF a \in t THEN f[a] ELSE 0
        BY <3>2
      <4> HIDE DEF G
      <4>5. QED BY <3>0, <4>1, <4>2, <4>3, <4>4
    <3>3. QED BY <3>1, <3>2
  <2> HIDE DEF G
  <2>4. QED BY <2>1, <2>2, <2>3 DEF Additive
<1>7. QED BY <1>2, <1>6

(* The sum over a finite set is what any additive g says it is. *)
LEMMA SumIs ==
    ASSUME NEW S, IsFiniteSet(S), NEW f, \A x \in S : f[x] \in Nat,
           NEW g, Additive(g, f, S)
    PROVE  SumFunctionOnSet(f, S) = g[S]
<1>1. Iterates(g, f, S)
  <2>1. ASSUME NEW s \in SUBSET S, s # {}
        PROVE  LET x == CHOOSE x \in s : TRUE IN g[s] = f[x] + g[s \ {x}]
    BY <2>1 DEF Additive
  <2>2. QED BY <2>1 DEF Additive, Iterates
<1>2. ASSUME NEW h, Iterates(h, f, S) PROVE h = g
  BY <1>2, AdditiveUnique
<1>3. SumFunctionOnSet(f, S) = (CHOOSE h : Iterates(h, f, S))[S]
  BY DEF Iterates, SumFunctionOnSet, FoldFunctionOnSet, MapThenFoldSet
<1>4. QED BY <1>1, <1>2, <1>3

LEMMA SumEmpty == ASSUME NEW f PROVE SumFunctionOnSet(f, {}) = 0
<1>1. Additive([s \in SUBSET {} |-> 0], f, {})
  BY DEF Additive
<1>2. IsFiniteSet({})
  BY FS_EmptySet
<1>3. QED BY <1>1, <1>2, SumIs

(* The sum over a part of S is what g, additive over S, says of it. *)
LEMMA SumOver ==
    ASSUME NEW S, IsFiniteSet(S), NEW f, \A x \in S : f[x] \in Nat,
           NEW g, Additive(g, f, S), NEW s \in SUBSET S
    PROVE  SumFunctionOnSet(f, s) = g[s]
<1> DEFINE h == [t \in SUBSET s |-> g[t]]
<1>1. Additive(h, f, s)
  BY DEF Additive
<1>2. IsFiniteSet(s)
  BY FS_Subset
<1>3. h[s] = g[s]
  OBVIOUS
<1> HIDE DEF h
<1>4. QED BY <1>1, <1>2, <1>3, SumIs

LEMMA SumAdd ==
    ASSUME NEW S, IsFiniteSet(S), NEW f, \A x \in S : f[x] \in Nat, NEW a \in S
    PROVE  SumFunctionOnSet(f, S) = f[a] + SumFunctionOnSet(f, S \ {a})
<1>1. PICK g : Additive(g, f, S)
  BY AdditiveExists
<1>2. /\ SumFunctionOnSet(f, S) = g[S]
      /\ SumFunctionOnSet(f, S \ {a}) = g[S \ {a}]
  BY <1>1, SumOver
<1>3. g[S] = f[a] + g[S \ {a}]
  BY <1>1 DEF Additive
<1>4. QED BY <1>2, <1>3

LEMMA SumType ==
    ASSUME NEW S, IsFiniteSet(S), NEW f, \A x \in S : f[x] \in Nat
    PROVE  SumFunctionOnSet(f, S) \in Nat
<1>1. PICK g : Additive(g, f, S)
  BY AdditiveExists
<1>2. SumFunctionOnSet(f, S) = g[S]
  BY <1>1, SumIs
<1>3. g[S] \in Nat
  BY <1>1 DEF Additive
<1>4. QED BY <1>2, <1>3

(* Functions that agree on a set have one sum over it. *)
LEMMA SumCong ==
    ASSUME NEW S, IsFiniteSet(S), NEW f, NEW h, \A x \in S : f[x] \in Nat /\ h[x] = f[x]
    PROVE  SumFunctionOnSet(h, S) = SumFunctionOnSet(f, S)
<1>1. PICK g : Additive(g, f, S)
  BY AdditiveExists
<1>2. Additive(g, h, S)
  BY <1>1 DEF Additive
<1>3. QED BY <1>1, <1>2, SumIs

(* What adds nothing can be left out of a sum. *)
LEMMA SumLeavesOut ==
    ASSUME NEW S, IsFiniteSet(S), NEW f, \A x \in S : f[x] \in Nat,
           NEW T \in SUBSET S, \A x \in S \ T : f[x] = 0
    PROVE  SumFunctionOnSet(f, S) = SumFunctionOnSet(f, T)
<1>1. PICK g : Additive(g, f, S)
  BY AdditiveExists
<1> DEFINE within == [s \in SUBSET S |-> g[s \cap T]]
<1>2. within \in [SUBSET S -> Nat] /\ within[{}] = 0
  BY <1>1 DEF Additive
<1>3. ASSUME NEW s \in SUBSET S, NEW x \in s PROVE within[s] = f[x] + within[s \ {x}]
  <2>1. within[s] = g[s \cap T] /\ within[s \ {x}] = g[(s \ {x}) \cap T]
    OBVIOUS
  <2>2. CASE x \in T
    <3>1. s \cap T \in SUBSET S /\ x \in s \cap T /\ (s \ {x}) \cap T = (s \cap T) \ {x}
      BY <2>2
    <3>2. g[s \cap T] = f[x] + g[(s \cap T) \ {x}]
      BY <1>1, <3>1 DEF Additive
    <3>3. QED BY <2>1, <3>1, <3>2
  <2>3. CASE x \notin T
    <3>1. (s \ {x}) \cap T = s \cap T /\ f[x] = 0 /\ s \cap T \in SUBSET S
      BY <2>3
    <3>2. g[s \cap T] \in Nat
      BY <1>1, <3>1 DEF Additive
    <3>3. QED BY <2>1, <3>1, <3>2
  <2>4. QED BY <2>2, <2>3
<1> HIDE DEF within
<1>4. Additive(within, f, S)
  BY <1>2, <1>3 DEF Additive
<1>5. SumFunctionOnSet(f, S) = within[S]
  BY <1>4, SumIs
<1>6. SumFunctionOnSet(f, T) = g[T]
  BY <1>1, SumOver
<1>7. S \cap T = T /\ within[S] = g[S \cap T]
  BY DEF within
<1>8. QED BY <1>5, <1>6, <1>7

(* The sum over the four token classes is the one core.py writes out            *)
(* (contribution_of): SumOfReported.                                            *)
LEMMA ReportedIsSum ==
    ASSUME NEW f \in [TokenClasses -> Nat \cup {UNSUPPORTED}]
    PROVE  Reported(f) = SumOfReported(f) /\ SumOfReported(f) \in Nat
<1> DEFINE count == [class \in TokenClasses |-> IF f[class] = UNSUPPORTED THEN 0 ELSE f[class]]
<1>1. \A class \in TokenClasses : count[class] \in Nat /\ count[class] = OrZero(f[class])
  BY DEF OrZero
<1>2. TokenClasses = {"input", "output", "cache_write", "cache_read"}
  BY DEF TokenClasses
<1>3. /\ TokenClasses \ {"input"} = {"output", "cache_write", "cache_read"}
      /\ {"output", "cache_write", "cache_read"} \ {"output"} = {"cache_write", "cache_read"}
      /\ {"cache_write", "cache_read"} \ {"cache_write"} = {"cache_read"}
      /\ {"cache_read"} \ {"cache_read"} = {}
  BY <1>2
<1>4. IsFiniteSet(TokenClasses)
  <2>1. IsFiniteSet({"input"})
    BY FS_Singleton
  <2>2. IsFiniteSet({"input"} \cup {"output"})
    BY <2>1, FS_AddElement
  <2>3. IsFiniteSet({"input"} \cup {"output"} \cup {"cache_write"})
    BY <2>2, FS_AddElement
  <2>4. IsFiniteSet({"input"} \cup {"output"} \cup {"cache_write"} \cup {"cache_read"})
    BY <2>3, FS_AddElement
  <2>5. TokenClasses = {"input"} \cup {"output"} \cup {"cache_write"} \cup {"cache_read"}
    BY <1>2
  <2>6. QED BY <2>4, <2>5
<1> HIDE DEF count
<1>5. \A S \in SUBSET TokenClasses :
        IsFiniteSet(S) /\ \A a \in S :
            SumFunctionOnSet(count, S) = count[a] + SumFunctionOnSet(count, S \ {a})
  BY <1>1, <1>4, FS_Subset, SumAdd
<1>6. SumFunctionOnSet(count, {}) = 0
  BY SumEmpty
<1>7. SumFunctionOnSet(count, TokenClasses)
      = count["input"] + (count["output"] + (count["cache_write"] + (count["cache_read"] + 0)))
  <2>1. /\ {"output", "cache_write", "cache_read"} \in SUBSET TokenClasses
        /\ {"cache_write", "cache_read"} \in SUBSET TokenClasses
        /\ {"cache_read"} \in SUBSET TokenClasses
    BY <1>2
  <2>2. SumFunctionOnSet(count, {"cache_read"}) = count["cache_read"] + 0
    BY <1>3, <1>5, <1>6, <2>1
  <2>3. SumFunctionOnSet(count, {"cache_write", "cache_read"})
        = count["cache_write"] + SumFunctionOnSet(count, {"cache_read"})
    BY <1>3, <1>5, <2>1
  <2>4. SumFunctionOnSet(count, {"output", "cache_write", "cache_read"})
        = count["output"] + SumFunctionOnSet(count, {"cache_write", "cache_read"})
    BY <1>3, <1>5, <2>1
  <2>5. SumFunctionOnSet(count, TokenClasses)
        = count["input"] + SumFunctionOnSet(count, {"output", "cache_write", "cache_read"})
    <3>1. TokenClasses \in SUBSET TokenClasses /\ "input" \in TokenClasses
      BY <1>2
    <3>2. QED BY <1>3, <1>5, <3>1
  <2>6. QED BY <2>2, <2>3, <2>4, <2>5
<1>8. Reported(f) = SumFunctionOnSet(count, TokenClasses)
  BY DEF Reported, count
<1>9. QED BY <1>1, <1>2, <1>7, <1>8 DEF SumOfReported

-----------------------------------------------------------------------------
(* Histories *)

\* Entries of resolved debits that carry the flag they were stored with.
Sound(history) ==
    \A i \in DOMAIN history :
        /\ history[i].debit \in ResolvedDebit
        /\ history[i].unpriced = is_unpriced(history[i].debit.cost)

(* Summing over a history one entry longer. *)
LEMMA SumExtends ==
    ASSUME NEW n \in Nat, NEW S \in SUBSET (1..n), NEW f, NEW f2,
           \A i \in S : f[i] \in Nat /\ f2[i] = f[i]
    PROVE  /\ SumFunctionOnSet(f, S) \in Nat
           /\ SumFunctionOnSet(f2, S) = SumFunctionOnSet(f, S)
           /\ f2[n + 1] \in Nat =>
                SumFunctionOnSet(f2, S \cup {n + 1}) = SumFunctionOnSet(f, S) + f2[n + 1]
<1>1. IsFiniteSet(S) /\ IsFiniteSet(S \cup {n + 1})
  <2>1. IsFiniteSet(1..n)
    BY FS_Interval
  <2>2. IsFiniteSet(S)
    BY <2>1, FS_Subset
  <2>3. QED BY <2>2, FS_AddElement
<1>2. SumFunctionOnSet(f, S) \in Nat
  BY <1>1, SumType
<1>3. SumFunctionOnSet(f2, S) = SumFunctionOnSet(f, S)
  BY <1>1, SumCong
<1>4. ASSUME f2[n + 1] \in Nat
      PROVE  SumFunctionOnSet(f2, S \cup {n + 1}) = SumFunctionOnSet(f, S) + f2[n + 1]
  <2>1. n + 1 \notin S /\ (S \cup {n + 1}) \ {n + 1} = S
    OBVIOUS
  <2>2. \A i \in S \cup {n + 1} : f2[i] \in Nat
    BY <1>4
  <2>3. SumFunctionOnSet(f2, S \cup {n + 1})
        = f2[n + 1] + SumFunctionOnSet(f2, (S \cup {n + 1}) \ {n + 1})
    BY <1>1, <2>2, SumAdd
  <2>4. QED BY <1>2, <1>3, <1>4, <2>1, <2>3
<1>5. QED BY <1>2, <1>3, <1>4

(* Counting in a history one entry longer. *)
LEMMA CountExtends ==
    ASSUME NEW n \in Nat, NEW S \in SUBSET (1..n)
    PROVE  /\ Cardinality(S) \in Nat
           /\ Cardinality(S \cup {n + 1}) = Cardinality(S) + 1
<1>1. IsFiniteSet(1..n)
  BY FS_Interval
<1>2. IsFiniteSet(S)
  BY <1>1, FS_Subset
<1>3. Cardinality(S) \in Nat
  BY <1>2, FS_CardinalityType
<1>4. n + 1 \notin S
  OBVIOUS
<1>5. Cardinality(S \cup {n + 1}) = Cardinality(S) + 1
  BY <1>2, <1>4, FS_AddElement
<1>6. QED BY <1>3, <1>5

(* What an entry is summed with is its debit's contribution (core.py            *)
(* contribution_of).                                                            *)
LEMMA EntryContributes ==
    ASSUME NEW E, NEW h \in Seq(E), Sound(h), NEW i \in DOMAIN h
    PROVE  LET delta == contribution_of(h[i].debit.usage, h[i].debit.cost)
           IN  /\ delta \in DebitContribution
               /\ TokensOf(h)[i] = delta.tokens
               /\ NanosOf(h)[i] = delta.nanos
               /\ \A key : i \in Touching(h, key) =>
                    /\ \A currency \in Currencies :
                        i \in PricedIn(h, key, currency) <=> delta.priced /\ delta.currency = currency
                    /\ i \in UnpricedIn(h, key) <=> delta.unpriced
                    /\ i \in UntotalledIn(h, key) <=> delta.untotalled
                    /\ i \in UnmeteredIn(h, key) <=> delta.unmetered
<1> DEFINE debit == h[i].debit
           delta == contribution_of(debit.usage, debit.cost)
<1>1. debit \in ResolvedDebit /\ h[i].unpriced = is_unpriced(debit.cost)
  BY DEF Sound
<1>2. /\ debit.usage \in [TokenClasses -> Nat \cup {UNSUPPORTED}]
      /\ debit.cost \in CostEstimate \cup {NONE}
      /\ debit.cost # NONE => debit.cost.components \in [TokenClasses -> Nat \cup {UNSUPPORTED}]
  BY <1>1 DEF ResolvedDebit, TokenUsage, CostEstimate
<1> HIDE DEF debit
<1>3. delta \in DebitContribution
  BY <1>2, ContributionType DEF TokenUsage
<1>4. TokensOf(h)[i] = delta.tokens
  BY <1>2, ReportedIsSum DEF TokensOf, contribution_of, debit
<1>5. NanosOf(h)[i] = delta.nanos
  <2>1. NanosOf(h)[i] = IF debit.cost = NONE THEN 0 ELSE Reported(debit.cost.components)
    BY DEF NanosOf, debit
  <2>2. QED BY <1>2, <2>1, ReportedIsSum DEF contribution_of
<1>6. ASSUME NEW key, i \in Touching(h, key)
      PROVE  /\ \A currency \in Currencies :
                    i \in PricedIn(h, key, currency) <=> delta.priced /\ delta.currency = currency
             /\ i \in UnpricedIn(h, key) <=> delta.unpriced
             /\ i \in UntotalledIn(h, key) <=> delta.untotalled
             /\ i \in UnmeteredIn(h, key) <=> delta.unmetered
  <2>1. \A currency \in Currencies :
            i \in PricedIn(h, key, currency) <=> delta.priced /\ delta.currency = currency
    BY <1>6 DEF PricedIn, contribution_of, debit
  <2>2. i \in UnpricedIn(h, key) <=> delta.unpriced
    BY <1>1, <1>6 DEF UnpricedIn, is_unpriced, contribution_of
  <2>3. i \in UntotalledIn(h, key) <=> delta.untotalled
    BY <1>6 DEF UntotalledIn, contribution_of, debit
  <2>4. i \in UnmeteredIn(h, key) <=> delta.unmetered
    BY <1>6 DEF UnmeteredIn, contribution_of, debit
  <2>5. QED BY <2>1, <2>2, <2>3, <2>4
<1>7. QED BY <1>3, <1>4, <1>5, <1>6 DEF debit

(* One entry more: the sets of entries a window is recomputed from.             *)
LEMMA SetsExtend ==
    ASSUME NEW E, NEW h \in Seq(E), NEW e \in E, Sound(Append(h, e)), NEW key
    PROVE  LET longer == Append(h, e)
               delta  == contribution_of(e.debit.usage, e.debit.cost)
               extend(S, flag) ==
                    IF key \in WindowsOf(e.debit) /\ flag THEN S \cup {Len(h) + 1} ELSE S
           IN  /\ Touching(longer, key) = extend(Touching(h, key), TRUE)
               /\ \A currency \in Currencies :
                    PricedIn(longer, key, currency)
                    = extend(PricedIn(h, key, currency), delta.priced /\ delta.currency = currency)
               /\ UnpricedIn(longer, key) = extend(UnpricedIn(h, key), delta.unpriced)
               /\ UntotalledIn(longer, key) = extend(UntotalledIn(h, key), delta.untotalled)
               /\ UnmeteredIn(longer, key) = extend(UnmeteredIn(h, key), delta.unmetered)
<1> DEFINE longer == Append(h, e)
           n == Len(h)
           delta == contribution_of(e.debit.usage, e.debit.cost)
           touches == key \in WindowsOf(e.debit)
<1>1. /\ longer \in Seq(E)
      /\ DOMAIN longer = DOMAIN h \cup {n + 1}
      /\ n + 1 \notin DOMAIN h
      /\ longer[n + 1] = e
      /\ \A i \in DOMAIN h : longer[i] = h[i]
      /\ Sound(longer)
  OBVIOUS
<1> HIDE DEF longer, n
<1>2. touches =>
        /\ \A currency \in Currencies :
            n + 1 \in PricedIn(longer, key, currency) <=> delta.priced /\ delta.currency = currency
        /\ n + 1 \in UnpricedIn(longer, key) <=> delta.unpriced
        /\ n + 1 \in UntotalledIn(longer, key) <=> delta.untotalled
        /\ n + 1 \in UnmeteredIn(longer, key) <=> delta.unmetered
  <2>1. touches => n + 1 \in Touching(longer, key)
    BY <1>1 DEF Touching
  <2>2. QED BY <1>1, <2>1, EntryContributes
<1> HIDE DEF delta
<1>3. /\ Touching(longer, key) \cap DOMAIN h = Touching(h, key)
      /\ n + 1 \in Touching(longer, key) <=> touches
      /\ Touching(longer, key) \subseteq DOMAIN h \cup {n + 1}
  BY <1>1 DEF Touching
<1>4. Touching(longer, key) = IF touches THEN Touching(h, key) \cup {n + 1} ELSE Touching(h, key)
  <2>1. CASE touches
    BY <1>3, <2>1
  <2>2. CASE ~touches
    BY <1>3, <2>2
  <2>3. QED BY <2>1, <2>2
<1>5. ASSUME NEW currency \in Currencies
      PROVE  PricedIn(longer, key, currency)
             = IF touches /\ delta.priced /\ delta.currency = currency
               THEN PricedIn(h, key, currency) \cup {n + 1} ELSE PricedIn(h, key, currency)
  <2>1. /\ PricedIn(longer, key, currency) \cap DOMAIN h = PricedIn(h, key, currency)
        /\ PricedIn(longer, key, currency) \subseteq Touching(longer, key)
    BY <1>1, <1>3 DEF PricedIn
  <2>2. QED BY <1>2, <1>3, <2>1
<1>6. UnpricedIn(longer, key)
      = IF touches /\ delta.unpriced THEN UnpricedIn(h, key) \cup {n + 1} ELSE UnpricedIn(h, key)
  <2>1. /\ UnpricedIn(longer, key) \cap DOMAIN h = UnpricedIn(h, key)
        /\ UnpricedIn(longer, key) \subseteq Touching(longer, key)
    BY <1>1, <1>3 DEF UnpricedIn
  <2>2. QED BY <1>2, <1>3, <2>1
<1>7. UntotalledIn(longer, key)
      = IF touches /\ delta.untotalled THEN UntotalledIn(h, key) \cup {n + 1}
        ELSE UntotalledIn(h, key)
  <2>1. /\ UntotalledIn(longer, key) \cap DOMAIN h = UntotalledIn(h, key)
        /\ UntotalledIn(longer, key) \subseteq Touching(longer, key)
    BY <1>1, <1>3 DEF UntotalledIn
  <2>2. QED BY <1>2, <1>3, <2>1
<1>8. UnmeteredIn(longer, key)
      = IF touches /\ delta.unmetered THEN UnmeteredIn(h, key) \cup {n + 1}
        ELSE UnmeteredIn(h, key)
  <2>1. /\ UnmeteredIn(longer, key) \cap DOMAIN h = UnmeteredIn(h, key)
        /\ UnmeteredIn(longer, key) \subseteq Touching(longer, key)
    BY <1>1, <1>3 DEF UnmeteredIn
  <2>2. QED BY <1>2, <1>3, <2>1
<1>9. QED BY <1>4, <1>5, <1>6, <1>7, <1>8 DEF longer, n, delta

(* A window nothing landed in is recomputed as the empty balance.               *)
LEMMA ReferenceOfNothing ==
    ASSUME NEW h, NEW key, Touching(h, key) = {}
    PROVE  ReferenceBalance(h, key) = EMPTY_BALANCE
<1>1. /\ UnpricedIn(h, key) = {} /\ UntotalledIn(h, key) = {} /\ UnmeteredIn(h, key) = {}
      /\ \A currency \in Currencies : PricedIn(h, key, currency) = {}
  BY DEF UnpricedIn, UntotalledIn, UnmeteredIn, PricedIn
<1>2. Cardinality({}) = 0
  BY FS_EmptySet
<1>3. SumFunctionOnSet(TokensOf(h), {}) = 0
  BY SumEmpty
<1>4. QED BY <1>1, <1>2, <1>3 DEF ReferenceBalance, EMPTY_BALANCE

(* The reference definition advances like the running balance (core.py          *)
(* BalanceBook.record): recomputed with one entry more, a window the entry      *)
(* touches holds its contribution on top, and any other window what it held.    *)
LEMMA ReferenceStep ==
    ASSUME NEW E, NEW h \in Seq(E), NEW e \in E, Sound(Append(h, e)), NEW key
    PROVE  LET longer == Append(h, e)
               before == ReferenceBalance(h, key)
           IN  /\ before \in ScopeBalance
               /\ key \in WindowsOf(e.debit) =>
                    /\ Touching(longer, key) # {}
                    /\ ReferenceBalance(longer, key)
                        = Accumulate(before, contribution_of(e.debit.usage, e.debit.cost))
               /\ key \notin WindowsOf(e.debit) =>
                    /\ Touching(longer, key) = Touching(h, key)
                    /\ ReferenceBalance(longer, key) = before
<1> DEFINE longer == Append(h, e)
           n == Len(h)
           delta == contribution_of(e.debit.usage, e.debit.cost)
           touches == key \in WindowsOf(e.debit)
<1>1. /\ Touching(longer, key) = IF touches THEN Touching(h, key) \cup {n + 1} ELSE Touching(h, key)
      /\ \A currency \in Currencies :
            PricedIn(longer, key, currency)
            = IF touches /\ delta.priced /\ delta.currency = currency
              THEN PricedIn(h, key, currency) \cup {n + 1} ELSE PricedIn(h, key, currency)
      /\ UnpricedIn(longer, key)
            = IF touches /\ delta.unpriced THEN UnpricedIn(h, key) \cup {n + 1}
              ELSE UnpricedIn(h, key)
      /\ UntotalledIn(longer, key)
            = IF touches /\ delta.untotalled THEN UntotalledIn(h, key) \cup {n + 1}
              ELSE UntotalledIn(h, key)
      /\ UnmeteredIn(longer, key)
            = IF touches /\ delta.unmetered THEN UnmeteredIn(h, key) \cup {n + 1}
              ELSE UnmeteredIn(h, key)
  BY SetsExtend
<1>2. /\ longer \in Seq(E)
      /\ n \in Nat
      /\ DOMAIN h = 1..n /\ DOMAIN longer = 1..(n + 1)
      /\ longer[n + 1] = e
      /\ \A i \in DOMAIN h : longer[i] = h[i]
      /\ Sound(longer)
  OBVIOUS
<1> HIDE DEF longer, n
<1>3. /\ Touching(h, key) \in SUBSET (1..n)
      /\ \A currency \in Currencies : PricedIn(h, key, currency) \in SUBSET (1..n)
      /\ UnpricedIn(h, key) \in SUBSET (1..n)
      /\ UntotalledIn(h, key) \in SUBSET (1..n)
      /\ UnmeteredIn(h, key) \in SUBSET (1..n)
  BY <1>2 DEF Touching, PricedIn, UnpricedIn, UntotalledIn, UnmeteredIn
<1>4. /\ delta \in DebitContribution
      /\ TokensOf(longer)[n + 1] = delta.tokens
      /\ NanosOf(longer)[n + 1] = delta.nanos
  BY <1>2, EntryContributes
<1> HIDE DEF delta, touches
<1>5. \A i \in 1..n : /\ TokensOf(h)[i] \in Nat /\ TokensOf(longer)[i] = TokensOf(h)[i]
                      /\ NanosOf(h)[i] \in Nat /\ NanosOf(longer)[i] = NanosOf(h)[i]
  <2>1. Sound(h)
    BY <1>2 DEF Sound
  <2>2. ASSUME NEW i \in 1..n PROVE TokensOf(h)[i] \in Nat /\ NanosOf(h)[i] \in Nat
    <3>1. PICK d \in DebitContribution : TokensOf(h)[i] = d.tokens /\ NanosOf(h)[i] = d.nanos
      BY <1>2, <2>1, EntryContributes
    <3>2. QED BY <3>1 DEF DebitContribution
  <2>3. ASSUME NEW i \in 1..n
        PROVE  TokensOf(longer)[i] = TokensOf(h)[i] /\ NanosOf(longer)[i] = NanosOf(h)[i]
    BY <1>2 DEF TokensOf, NanosOf
  <2>4. QED BY <2>2, <2>3
<1>6. /\ delta.tokens \in Nat /\ delta.nanos \in Nat
      /\ delta.priced \in BOOLEAN /\ delta.unpriced \in BOOLEAN
      /\ delta.untotalled \in BOOLEAN /\ delta.unmetered \in BOOLEAN
  BY <1>4 DEF DebitContribution
<1> DEFINE before == ReferenceBalance(h, key)
           after == ReferenceBalance(longer, key)
<1>7. /\ before.tokens_spent \in Nat
      /\ after.tokens_spent = before.tokens_spent + (IF touches THEN delta.tokens ELSE 0)
  <2>1. /\ before.tokens_spent \in Nat
        /\ SumFunctionOnSet(TokensOf(longer), Touching(h, key)) = before.tokens_spent
        /\ SumFunctionOnSet(TokensOf(longer), Touching(h, key) \cup {n + 1})
                = before.tokens_spent + delta.tokens
    <3>1. PICK touching \in SUBSET (1..n) : touching = Touching(h, key)
      BY <1>3
    <3>2. /\ SumFunctionOnSet(TokensOf(h), touching) \in Nat
          /\ SumFunctionOnSet(TokensOf(longer), touching) = SumFunctionOnSet(TokensOf(h), touching)
          /\ SumFunctionOnSet(TokensOf(longer), touching \cup {n + 1})
                = SumFunctionOnSet(TokensOf(h), touching) + delta.tokens
      <4>1. PICK f, f2 : f = TokensOf(h) /\ f2 = TokensOf(longer)
        OBVIOUS
      <4>2. \A i \in touching : f[i] \in Nat /\ f2[i] = f[i]
        BY <1>5, <4>1
      <4>3. n \in Nat /\ f2[n + 1] \in Nat
        BY <1>2, <1>4, <1>6, <4>1
      <4>4. /\ SumFunctionOnSet(f, touching) \in Nat
            /\ SumFunctionOnSet(f2, touching) = SumFunctionOnSet(f, touching)
            /\ SumFunctionOnSet(f2, touching \cup {n + 1})
                = SumFunctionOnSet(f, touching) + f2[n + 1]
        BY <4>2, <4>3, SumExtends
      <4>5. QED BY <1>4, <4>1, <4>4
    <3>3. before.tokens_spent = SumFunctionOnSet(TokensOf(h), Touching(h, key))
      BY DEF ReferenceBalance
    <3>4. QED BY <3>1, <3>2, <3>3
  <2>2. after.tokens_spent = SumFunctionOnSet(TokensOf(longer), Touching(longer, key))
    BY DEF ReferenceBalance
  <2> HIDE DEF before, after
  <2>3. QED BY <1>1, <2>1, <2>2
<1>8. ASSUME NEW currency \in Currencies
      PROVE  LET was == before.nanos_by_currency[currency]
             IN  /\ was \in Nat \cup {NONE}
                 /\ after.nanos_by_currency[currency]
                    = IF touches /\ delta.priced /\ delta.currency = currency
                      THEN NoneAsZero(was) + delta.nanos ELSE was
  <2> DEFINE priced == PricedIn(h, key, currency)
             was == before.nanos_by_currency[currency]
             nanos == SumFunctionOnSet(NanosOf(h), priced)
             adds == touches /\ delta.priced /\ delta.currency = currency
  <2>1. priced \in SUBSET (1..n)
    BY <1>3
  <2>2. /\ nanos \in Nat
        /\ SumFunctionOnSet(NanosOf(longer), priced) = nanos
        /\ SumFunctionOnSet(NanosOf(longer), priced \cup {n + 1}) = nanos + delta.nanos
    <3> HIDE DEF priced
    <3>1. PICK S \in SUBSET (1..n) : S = priced
      BY <2>1
    <3>2. PICK f, f2 : f = NanosOf(h) /\ f2 = NanosOf(longer)
      OBVIOUS
    <3>3. \A i \in S : f[i] \in Nat /\ f2[i] = f[i]
      BY <1>5, <3>2
    <3>4. n \in Nat /\ f2[n + 1] \in Nat
      BY <1>2, <1>4, <1>6, <3>2
    <3>5. /\ SumFunctionOnSet(f, S) \in Nat
          /\ SumFunctionOnSet(f2, S) = SumFunctionOnSet(f, S)
          /\ SumFunctionOnSet(f2, S \cup {n + 1}) = SumFunctionOnSet(f, S) + f2[n + 1]
      BY <3>3, <3>4, SumExtends
    <3>6. QED BY <1>4, <3>1, <3>2, <3>5
  <2>3. PricedIn(longer, key, currency) = IF adds THEN priced \cup {n + 1} ELSE priced
    BY <1>1
  <2>4. priced = {} => nanos = 0
    BY SumEmpty
  <2>5. /\ was = IF priced = {} THEN NONE ELSE nanos
        /\ after.nanos_by_currency[currency]
            = IF PricedIn(longer, key, currency) = {} THEN NONE
              ELSE SumFunctionOnSet(NanosOf(longer), PricedIn(longer, key, currency))
    BY DEF ReferenceBalance
  <2> HIDE DEF priced, was, nanos, adds, before, after
  <2>6. was \in Nat \cup {NONE} /\ NoneAsZero(was) = nanos
    BY <2>2, <2>4, <2>5, NoneIsNoNumber DEF NoneAsZero
  <2>7. CASE adds
    BY <2>2, <2>3, <2>5, <2>6, <2>7 DEF adds, was
  <2>8. CASE ~adds
    BY <2>2, <2>3, <2>5, <2>6, <2>8 DEF adds, was
  <2>9. QED BY <2>7, <2>8
<1>9. /\ before.unpriced_debit_count \in Nat
      /\ after.unpriced_debit_count
            = before.unpriced_debit_count + (IF touches THEN Count(delta.unpriced) ELSE 0)
  <2>1. /\ Cardinality(UnpricedIn(h, key)) \in Nat
        /\ Cardinality(UnpricedIn(h, key) \cup {n + 1}) = Cardinality(UnpricedIn(h, key)) + 1
    BY <1>2, <1>3, CountExtends
  <2>2. QED BY <1>1, <1>6, <2>1 DEF Count, ReferenceBalance
<1>10. /\ before.untotalled_debit_count \in Nat
       /\ after.untotalled_debit_count
            = before.untotalled_debit_count + (IF touches THEN Count(delta.untotalled) ELSE 0)
  <2>1. /\ Cardinality(UntotalledIn(h, key)) \in Nat
        /\ Cardinality(UntotalledIn(h, key) \cup {n + 1}) = Cardinality(UntotalledIn(h, key)) + 1
    BY <1>2, <1>3, CountExtends
  <2>2. QED BY <1>1, <1>6, <2>1 DEF Count, ReferenceBalance
<1>11. /\ before.unmetered_debit_count \in Nat
       /\ after.unmetered_debit_count
            = before.unmetered_debit_count + (IF touches THEN Count(delta.unmetered) ELSE 0)
  <2>1. /\ Cardinality(UnmeteredIn(h, key)) \in Nat
        /\ Cardinality(UnmeteredIn(h, key) \cup {n + 1}) = Cardinality(UnmeteredIn(h, key)) + 1
    BY <1>2, <1>3, CountExtends
  <2>2. QED BY <1>1, <1>6, <2>1 DEF Count, ReferenceBalance
<1>12. ASSUME NEW g
       PROVE  LET balance == ReferenceBalance(g, key)
              IN  /\ balance = [tokens_spent |-> balance.tokens_spent,
                                nanos_by_currency |-> balance.nanos_by_currency,
                                unpriced_debit_count |-> balance.unpriced_debit_count,
                                untotalled_debit_count |-> balance.untotalled_debit_count,
                                unmetered_debit_count |-> balance.unmetered_debit_count]
                  /\ balance.nanos_by_currency
                        = [currency \in Currencies |-> balance.nanos_by_currency[currency]]
  BY DEF ReferenceBalance
<1> HIDE DEF before, after
<1>13. before \in ScopeBalance
  <2>1. before.nanos_by_currency \in [Currencies -> Nat \cup {NONE}]
    <3>1. before.nanos_by_currency
          = [currency \in Currencies |-> before.nanos_by_currency[currency]]
      BY <1>12 DEF before
    <3>2. QED BY <1>8, <3>1
  <2>2. before = [tokens_spent |-> before.tokens_spent,
                  nanos_by_currency |-> before.nanos_by_currency,
                  unpriced_debit_count |-> before.unpriced_debit_count,
                  untotalled_debit_count |-> before.untotalled_debit_count,
                  unmetered_debit_count |-> before.unmetered_debit_count]
    BY <1>12 DEF before
  <2>3. QED BY <1>7, <1>9, <1>10, <1>11, <2>1, <2>2 DEF ScopeBalance
<1>14. /\ after = [tokens_spent |-> after.tokens_spent,
                   nanos_by_currency |-> after.nanos_by_currency,
                   unpriced_debit_count |-> after.unpriced_debit_count,
                   untotalled_debit_count |-> after.untotalled_debit_count,
                   unmetered_debit_count |-> after.unmetered_debit_count]
       /\ after.nanos_by_currency = [currency \in Currencies |-> after.nanos_by_currency[currency]]
  BY <1>12 DEF after
<1>15. CASE touches
  <2>1. after.nanos_by_currency
        = [currency \in Currencies |->
            IF delta.priced /\ delta.currency = currency
            THEN NoneAsZero(before.nanos_by_currency[currency]) + delta.nanos
            ELSE before.nanos_by_currency[currency]]
    BY <1>8, <1>14, <1>15
  <2>2. after = Accumulate(before, delta)
    BY <1>7, <1>9, <1>10, <1>11, <1>14, <1>15, <2>1 DEF Accumulate
  <2>3. Touching(longer, key) # {}
    BY <1>1, <1>15
  <2>4. QED BY <1>13, <1>15, <2>2, <2>3 DEF before, after, longer, delta, touches
<1>16. CASE ~touches
  <2>1. before.nanos_by_currency
        = [currency \in Currencies |-> before.nanos_by_currency[currency]]
    BY <1>12 DEF before
  <2>2. after.nanos_by_currency = before.nanos_by_currency
    BY <1>8, <1>14, <1>16, <2>1
  <2>3. before = [tokens_spent |-> before.tokens_spent,
                  nanos_by_currency |-> before.nanos_by_currency,
                  unpriced_debit_count |-> before.unpriced_debit_count,
                  untotalled_debit_count |-> before.untotalled_debit_count,
                  unmetered_debit_count |-> before.unmetered_debit_count]
    BY <1>12 DEF before
  <2>4. after = before
    BY <1>7, <1>9, <1>10, <1>11, <1>14, <1>16, <2>2, <2>3
  <2>5. Touching(longer, key) = Touching(h, key)
    BY <1>1, <1>16
  <2>6. QED BY <1>13, <1>16, <2>4, <2>5 DEF before, after, longer, touches
<1>17. QED BY <1>15, <1>16

(* Recording the debit of one more entry keeps a book that adds up to the       *)
(* history (core.py BalanceBook.record).                                        *)
LEMMA AddsUpStep ==
    ASSUME NEW E, NEW h \in Seq(E), NEW e \in E, Sound(Append(h, e)), NEW b, AddsUp(b, h)
    PROVE  AddsUp(record(b, e.debit), Append(h, e))
<1> DEFINE longer == Append(h, e)
           delta == contribution_of(e.debit.usage, e.debit.cost)
<1>1. ASSUME NEW key \in ScopeKey
      PROVE  record(b, e.debit)[key] = IF Touching(longer, key) = {} THEN NONE
                                       ELSE ReferenceBalance(longer, key)
  <2>1. /\ ReferenceBalance(h, key) \in ScopeBalance
        /\ key \in WindowsOf(e.debit) =>
                /\ Touching(longer, key) # {}
                /\ ReferenceBalance(longer, key) = Accumulate(ReferenceBalance(h, key), delta)
        /\ key \notin WindowsOf(e.debit) =>
                /\ Touching(longer, key) = Touching(h, key)
                /\ ReferenceBalance(longer, key) = ReferenceBalance(h, key)
    BY ReferenceStep
  <2>2. b[key] = IF Touching(h, key) = {} THEN NONE ELSE ReferenceBalance(h, key)
    BY DEF AddsUp
  <2>3. BalanceIn(b, key) = ReferenceBalance(h, key)
    BY <2>1, <2>2, ReferenceOfNothing, NoneIsNoBalance DEF BalanceIn
  <2>4. record(b, e.debit)[key] = IF key \in WindowsOf(e.debit)
                                  THEN Accumulate(BalanceIn(b, key), delta) ELSE b[key]
    BY DEF record
  <2> HIDE DEF longer, delta
  <2>5. QED BY <2>1, <2>2, <2>3, <2>4
<1>2. QED BY <1>1 DEF AddsUp

LEMMA AddsUpInit == AddsUp(EmptyBook, <<>>)
BY DEF AddsUp, EmptyBook, Touching

(* A window of a sound history is recomputed as a balance, the one a book that  *)
(* adds up holds.                                                               *)
LEMMA ReferenceType ==
    ASSUME NEW E, NEW h \in Seq(E), Sound(h), NEW key
    PROVE  ReferenceBalance(h, key) \in ScopeBalance
<1>1. CASE h = <<>>
  <2>1. Touching(h, key) = {}
    BY <1>1 DEF Touching
  <2>2. QED BY <2>1, ReferenceOfNothing, EmptyBalanceType
<1>2. CASE h # <<>>
  <2>1. PICK e \in E : e = h[1]
    BY <1>2
  <2>2. 1 \in DOMAIN h /\ DOMAIN Append(h, e) = DOMAIN h \cup {Len(h) + 1}
    BY <1>2
  <2>3. Sound(Append(h, e))
    BY <2>1, <2>2 DEF Sound
  <2>4. QED BY <2>3, ReferenceStep
<1>3. QED BY <1>1, <1>2

LEMMA BalanceIsReference ==
    ASSUME NEW E, NEW h \in Seq(E), Sound(h), NEW b, AddsUp(b, h), NEW key \in ScopeKey
    PROVE  BalanceIn(b, key) = ReferenceBalance(h, key)
BY ReferenceType, ReferenceOfNothing, NoneIsNoBalance DEF BalanceIn, AddsUp

(* Entries contribute numbers, and finitely many land in a window.              *)
LEMMA EntriesAreCounted ==
    ASSUME NEW E, NEW h \in Seq(E), Sound(h)
    PROVE  /\ IsFiniteSet(DOMAIN h)
           /\ \A i \in DOMAIN h : TokensOf(h)[i] \in Nat /\ NanosOf(h)[i] \in Nat
<1>1. IsFiniteSet(1..Len(h)) /\ DOMAIN h = 1..Len(h)
  BY FS_Interval
<1>2. ASSUME NEW i \in DOMAIN h PROVE TokensOf(h)[i] \in Nat /\ NanosOf(h)[i] \in Nat
  <2>1. PICK d \in DebitContribution : TokensOf(h)[i] = d.tokens /\ NanosOf(h)[i] = d.nanos
    BY EntryContributes
  <2>2. QED BY <2>1 DEF DebitContribution
<1>3. QED BY <1>1, <1>2

(* The money of a recomputed window; None counts for zero.                      *)
LEMMA ReferenceMoney ==
    ASSUME NEW E, NEW h \in Seq(E), Sound(h), NEW key, NEW currency \in Currencies
    PROVE  LET priced == PricedIn(h, key, currency)
               nanos  == SumFunctionOnSet(NanosOf(h), priced)
               held   == ReferenceBalance(h, key).nanos_by_currency[currency]
           IN  /\ nanos \in Nat
               /\ held = IF priced = {} THEN NONE ELSE nanos
               /\ NoneAsZero(held) = nanos
<1> DEFINE priced == PricedIn(h, key, currency)
           nanos == SumFunctionOnSet(NanosOf(h), priced)
           held == ReferenceBalance(h, key).nanos_by_currency[currency]
<1>1. held = IF priced = {} THEN NONE ELSE nanos
  BY DEF ReferenceBalance
<1>2. priced \in SUBSET DOMAIN h
  BY DEF PricedIn, Touching
<1>3. nanos \in Nat
  <2>1. IsFiniteSet(priced)
    <3> HIDE DEF priced
    <3>1. QED BY <1>2, EntriesAreCounted, FS_Subset
  <2>2. \A i \in priced : NanosOf(h)[i] \in Nat
    BY <1>2, EntriesAreCounted
  <2> HIDE DEF priced
  <2>3. QED BY <2>1, <2>2, SumType
<1>4. priced = {} => nanos = 0
  BY SumEmpty
<1> HIDE DEF priced, nanos, held
<1>5. NoneAsZero(held) = nanos
  BY <1>1, <1>3, <1>4, NoneIsNoNumber DEF NoneAsZero
<1>6. QED BY <1>1, <1>3, <1>5 DEF priced, nanos, held

\* The one book that adds up to a history.
ReferenceBook(history) ==
    [key \in ScopeKey |-> IF Touching(history, key) = {} THEN NONE
                          ELSE ReferenceBalance(history, key)]

LEMMA AddsUpIsReference ==
    ASSUME NEW b \in Book, NEW h
    PROVE  AddsUp(b, h) <=> b = ReferenceBook(h)
BY DEF AddsUp, ReferenceBook, Book

LEMMA SoundPrefix ==
    ASSUME NEW E, NEW h \in Seq(E), Sound(h), NEW k \in 0..Len(h)
    PROVE  SubSeq(h, 1, k) \in Seq(E) /\ Sound(SubSeq(h, 1, k))
BY DEF Sound

\* f is what BookAfter recurses with.
RecordsInTurn(f, h) ==
    f = [k \in 0..Len(h) |-> IF k = 0 THEN EmptyBook ELSE record(f[k - 1], h[k].debit)]

(* Recording the debits one at a time leaves, after each, the book recomputed   *)
(* from the entries so far (core.py BalanceBook.record).  The recursion has a   *)
(* solution, the reference books, and no other: the least length at which one   *)
(* differed would follow a length at which it did not.                          *)
LEMMA BookAfterIsReference ==
    ASSUME NEW E, NEW h \in Seq(E), Sound(h), NEW k \in 0..Len(h)
    PROVE  /\ BookAfter(h)[k] = ReferenceBook(SubSeq(h, 1, k))
           /\ k # 0 => BookAfter(h)[k] = record(BookAfter(h)[k - 1], h[k].debit)
<1> DEFINE G == [n \in 0..Len(h) |-> ReferenceBook(SubSeq(h, 1, n))]
<1>1. G[0] = EmptyBook
  BY DEF ReferenceBook, EmptyBook, Touching
<1>2. ASSUME NEW n \in 1..Len(h) PROVE G[n] = record(G[n - 1], h[n].debit)
  <2>1. PICK before \in Seq(E) : before = SubSeq(h, 1, n - 1)
    <3>1. n - 1 \in 0..Len(h)
      OBVIOUS
    <3>2. SubSeq(h, 1, n - 1) \in Seq(E)
      BY <3>1, SoundPrefix
    <3>3. QED BY <3>2
  <2>2. SubSeq(h, 1, n) = Append(before, h[n]) /\ h[n] \in E
    BY <2>1
  <2>3. Sound(SubSeq(h, 1, n))
    BY SoundPrefix
  <2>4. AddsUp(ReferenceBook(before), before)
    BY DEF AddsUp, ReferenceBook
  <2>5. AddsUp(record(ReferenceBook(before), h[n].debit), SubSeq(h, 1, n))
    BY <2>2, <2>3, <2>4, AddsUpStep
  <2>6. record(ReferenceBook(before), h[n].debit) = ReferenceBook(SubSeq(h, 1, n))
    BY <2>5 DEF AddsUp, ReferenceBook, record
  <2>7. G[n] = ReferenceBook(SubSeq(h, 1, n)) /\ G[n - 1] = ReferenceBook(before)
    BY <2>1
  <2>8. QED BY <2>6, <2>7
<1>3. RecordsInTurn(G, h)
  <2>1. DOMAIN G = 0..Len(h) /\ G = [n \in 0..Len(h) |-> G[n]]
    OBVIOUS
  <2> HIDE DEF G
  <2>2. \A n \in 0..Len(h) : n # 0 => n \in 1..Len(h)
    OBVIOUS
  <2>3. \A n \in 0..Len(h) :
            G[n] = IF n = 0 THEN EmptyBook ELSE record(G[n - 1], h[n].debit)
    BY <1>1, <1>2, <2>2
  <2>4. QED BY <2>1, <2>3, Zenon DEF RecordsInTurn
<1>4. ASSUME NEW f, RecordsInTurn(f, h) PROVE f[k] = G[k]
  <2> DEFINE Bad == {n \in 0..Len(h) : f[n] # G[n]}
  <2>1. SUFFICES ASSUME Bad # {} PROVE FALSE
    OBVIOUS
  <2>2. Bad \subseteq Nat
    OBVIOUS
  <2>3. PICK m \in Bad : \A n \in Bad : m <= n
    <3> HIDE DEF Bad
    <3>1. QED BY <2>1, <2>2, NatMin
  <2>4. m \in 0..Len(h) /\ f[m] # G[m]
    BY <2>3
  <2>5. m # 0
    BY <1>1, <1>4, <2>4 DEF RecordsInTurn
  <2>6. f[m] = record(f[m - 1], h[m].debit)
    BY <1>4, <2>4, <2>5 DEF RecordsInTurn
  <2>7. f[m - 1] = G[m - 1]
    BY <2>3, <2>4, <2>5
  <2>8. m \in 1..Len(h)
    BY <2>4, <2>5
  <2> HIDE DEF G, Bad
  <2>9. QED BY <1>2, <2>4, <2>6, <2>7, <2>8
<1>5. BookAfter(h) = CHOOSE f : RecordsInTurn(f, h)
  BY DEF BookAfter, RecordsInTurn
<1>6. RecordsInTurn(BookAfter(h), h)
  <2> HIDE DEF G
  <2>1. QED BY <1>3, <1>5
<1>7. k # 0 => BookAfter(h)[k] = record(BookAfter(h)[k - 1], h[k].debit)
  BY <1>6 DEF RecordsInTurn
<1>8. QED BY <1>4, <1>6, <1>7

=============================================================================
