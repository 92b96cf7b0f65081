------------------------- MODULE PriceCatalogueProofs -------------------------
(***************************************************************************)
(* What PriceCatalogue promises, for every catalogue: any documents, model  *)
(* names, digests and usages, and any number of observations, restarts and  *)
(* calls.                                                                   *)
(*                                                                          *)
(* All four properties follow from where a catalogue comes from.  A loaded  *)
(* catalogue is the beginning of the file, record by record, and every      *)
(* document of that beginning was usable: the operator only appends, or     *)
(* takes out documents that are not usable, which lie further on.  So the   *)
(* beginning that a call was priced from is still there to be read, and a   *)
(* later catalogue begins with it.                                          *)
(***************************************************************************)
EXTENDS PriceCatalogue, BalanceBookProofs

PriceRecord == {record_of(document) : document \in Documents}

Approval == [at : Instants, usage : Usages, worst : Nat]

CallRecord ==
    [canonical_id : CanonicalIds, at : Instants, approval : Approval, loaded : Nat,
     price : PriceRecord \cup {NONE}, cost : CostEstimate \cup {NONE}]

\* The first n documents can be loaded; what they load as.
Loadable(n) == n \in 0..Len(file) /\ \A i \in 1..n : Usable(file[i])
CatalogueOf(n) == [i \in 1..n |-> record_of(file[i])]

\* A call was priced by the catalogue of its time.
PricedFrom(records, call) ==
    /\ call.price = price_for_model(records, call.canonical_id, call.at)
    /\ call.cost = CostOf(call.approval.usage, call.price)

Types ==
    /\ file \in Seq(Documents)
    /\ now \in Instants
    /\ approval # NONE => approval \in Approval
    /\ calls \in Seq(CallRecord)

\* The application runs on a beginning of the file, at least as long as any before it.
Running ==
    catalogue # NONE =>
        \E n \in 0..Len(file) :
            /\ Loadable(n)
            /\ catalogue = CatalogueOf(n)
            /\ \A c \in DOMAIN calls : calls[c].loaded <= n

Approved == approval # NONE => catalogue # NONE

CallsPriced ==
    \A c \in DOMAIN calls :
        /\ Loadable(calls[c].loaded)
        /\ PricedFrom(CatalogueOf(calls[c].loaded), calls[c])

CatalogueInv == Types /\ Running /\ Approved /\ CallsPriced

-----------------------------------------------------------------------------
(* Resolution *)

(* Some observation is the newest and, of the newest, the first in the file     *)
(* (pricing.py price_for_model, max by observed_at).                            *)
LEMMA FirstLatest ==
    ASSUME NEW n \in Nat, NEW records, NEW candidates,
           candidates \subseteq 1..n, candidates # {},
           \A i \in candidates : records[i].observed_at \in Nat
    PROVE  LET i == first_latest(records, candidates)
           IN  /\ i \in candidates
               /\ \A j \in candidates :
                    \/ records[j].observed_at < records[i].observed_at
                    \/ records[j].observed_at = records[i].observed_at /\ i <= j
<1> DEFINE Age(i) == records[i].observed_at
           Precedes(j, i) == Age(j) > Age(i) \/ (Age(j) = Age(i) /\ j < i)
           Least(i) == \A j \in candidates : Age(j) < Age(i) \/ (Age(j) = Age(i) /\ i <= j)
           R == {p \in candidates \X candidates : Precedes(p[1], p[2])}
<1>1. IsFiniteSet(candidates)
  <2>1. IsFiniteSet(1..n)
    BY FS_Interval
  <2>2. QED BY <2>1, FS_Subset
<1>2. \A i \in candidates : i \in Nat /\ Age(i) \in Nat
  <2> HIDE DEF R, Precedes, Least
  <2>1. 1..n \subseteq Nat
    OBVIOUS
  <2>2. \A i \in candidates : i \in Nat
    BY <2>1, Zenon
  <2>3. \A i \in candidates : Age(i) \in Nat
    OBVIOUS
  <2>4. QED BY <2>2, <2>3
<1> HIDE DEF Age
<1>3. /\ \A i, j, k \in candidates : Precedes(i, j) /\ Precedes(j, k) => Precedes(i, k)
      /\ \A i \in candidates : ~Precedes(i, i)
      /\ \A i \in candidates : (\A j \in candidates : ~Precedes(j, i)) => Least(i)
  BY <1>2
<1>4. \A i, j \in candidates : <<i, j>> \in R <=> Precedes(i, j)
  OBVIOUS
<1> HIDE DEF Precedes, R, Least
<1>5. \E i \in candidates : \A j \in candidates : <<j, i>> \notin R
  <2>1. \A i, j, k \in candidates : <<i, j>> \in R /\ <<j, k>> \in R => <<i, k>> \in R
    BY <1>3, <1>4
  <2>2. \A i \in candidates : <<i, i>> \notin R
    BY <1>3, <1>4
  <2>3. QED BY <1>1, <2>1, <2>2, NonePrecedes
<1>6. \E i \in candidates : Least(i)
  BY <1>3, <1>4, <1>5
<1>7. first_latest(records, candidates) = CHOOSE i \in candidates : Least(i)
  BY DEF first_latest, Least, Age
<1>8. first_latest(records, candidates) \in candidates /\ Least(first_latest(records, candidates))
  BY <1>6, <1>7
<1>9. QED BY <1>8 DEF Least, Age

-----------------------------------------------------------------------------
(* Records, and the weights they name *)

(* What a usable document loads as (pricing.py _record_of): dated, with every   *)
(* rate either a number that the document states or not stated.                 *)
LEMMA RecordType ==
    ASSUME NEW document \in Documents, Usable(document)
    PROVE  LET record_ == record_of(document)
           IN  /\ record_ \in PriceRecord /\ record_ # NONE
               /\ record_.currency \in Currencies
               /\ record_.rates \in [TokenClasses -> Nat \cup {UNSUPPORTED}]
               /\ record_.observed_at \in Instants
               /\ record_.observed_at = document.observed_at
               /\ record_.effective_from # NONE /\ record_.effective_until # NONE =>
                        record_.effective_from <= record_.effective_until
               /\ \A class \in TokenClasses :
                        record_.rates[class] # UNSUPPORTED => document.rates[class] \in Nat
<1>1. document \in PriceDocument
  BY CatalogueAssumption
<1>2. \A class \in TokenClasses :
        /\ rate(document.rates[class]) \in Nat \cup {UNSUPPORTED}
        /\ rate(document.rates[class]) # UNSUPPORTED => document.rates[class] \in Nat
  BY <1>1 DEF PriceDocument, Usable, rate
<1>3. rates_of(document) \in [TokenClasses -> Nat \cup {UNSUPPORTED}]
  BY <1>2 DEF rates_of
<1>4. document.observed_at \in Instants /\ document.currency \in Currencies
  BY <1>1 DEF PriceDocument, Usable
<1>5. record_of(document) \in PriceRecord /\ record_of(document) # NONE
  BY NoneIsNoRecord DEF PriceRecord
<1>6. QED BY <1>2, <1>3, <1>4, <1>5 DEF record_of, rates_of, Usable

(* A nonempty sequence is its front and its last element. *)
LEMMA EndsWith ==
    ASSUME NEW X, NEW s \in Seq(X), s # <<>>, NEW name \in Seq(X), NEW e \in X
    PROVE  /\ s = name \o <<e>> <=> name = Front(s) /\ e = Last(s)
           /\ Append(name, e) = name \o <<e>>
           /\ s = name \o <<e>> /\ name # <<>> => Len(s) > 1
<1>1. Append(name, e) = name \o <<e>>
  OBVIOUS
<1>2. Len(s) \in Nat /\ Len(s) >= 1
  OBVIOUS
<1>3. s = Front(s) \o <<Last(s)>>
  BY <1>2 DEF Front, Last
<1>4. ASSUME s = name \o <<e>> PROVE name = Front(s) /\ e = Last(s)
  BY <1>2, <1>4 DEF Front, Last
<1>5. ASSUME s = name \o <<e>>, name # <<>> PROVE Len(s) > 1
  BY <1>5
<1>6. QED BY <1>1, <1>3, <1>4, <1>5

(* A document states a price for the weights a call names exactly when its      *)
(* record matches the id and claims the instant (pricing.py _matches, _split).  *)
LEMMA CoveringIsMatching ==
    ASSUME NEW call, call.canonical_id \in CanonicalIds,
           NEW i \in DOMAIN file, file[i] \in Documents
    PROVE  i \in Covering(call)
                <=> /\ matches(record_of(file[i]), call.canonical_id)
                    /\ claims(record_of(file[i]), call.at)
<1> DEFINE d      == file[i]
           id     == call.canonical_id
           parts  == id.remainder
           Pinned == /\ d.artifact_digest \in Digests
                     /\ parts = d.provider_model_name \o <<d.artifact_digest>>
           Named  == /\ d.artifact_digest \notin Digests /\ parts = d.provider_model_name
                     /\ Last(parts) \notin Digests \/ Len(parts) = 1
           Under  == /\ d.artifact_digest \notin Digests
                     /\ \E digest \in Digests : parts = Append(d.provider_model_name, digest)
<1>1. /\ d.provider_model_name \in Seq(STRING \cup Digests) /\ d.provider_model_name # <<>>
      /\ parts \in Seq(STRING \cup Digests) /\ parts # <<>> /\ Len(parts) \in Nat
      /\ NONE \notin Digests
      /\ digest_of(d) = IF d.artifact_digest \in Digests THEN d.artifact_digest ELSE NONE
  <2>1. d \in PriceDocument /\ id \in [provider : Providers, remainder : ModelName]
    BY CatalogueAssumption
  <2>2. d.artifact_digest \in Digests \cup {NOT_TEXT, NONE}
    BY <2>1 DEF PriceDocument
  <2>3. digest_of(d) = IF d.artifact_digest \in Digests THEN d.artifact_digest ELSE NONE
    BY <2>2, CatalogueAssumption DEF digest_of
  <2> HIDE DEF d, id
  <2>4. d.provider_model_name \in ModelName /\ id.remainder \in ModelName
    BY <2>1 DEF PriceDocument
  <2>5. QED BY <2>3, <2>4, CatalogueAssumption DEF ModelName
<1>2. i \in Covering(call) <=> /\ d.provider_kind = id.provider
                               /\ Pinned \/ Named \/ Under
                               /\ claims(record_of(d), call.at)
  BY DEF Covering, claims, record_of
<1> DEFINE SameName == d.provider_model_name = split(id).name
                       /\ digest_of(d) \in {NONE, split(id).digest}
<1>3. matches(record_of(d), id) <=> d.provider_kind = id.provider /\ SameName
  BY DEF matches, record_of, split
<1>4. \A name \in Seq(STRING \cup Digests), digest \in Digests :
        name # <<>> =>
            /\ parts = name \o <<digest>>
                    <=> Len(parts) > 1 /\ name = Front(parts) /\ digest = Last(parts)
            /\ Append(name, digest) = name \o <<digest>>
  <2>1. \A digest \in Digests : digest \in STRING \cup Digests
    OBVIOUS
  <2> HIDE DEF parts, d, id, Pinned, Named, Under
  <2>2. TAKE name \in Seq(STRING \cup Digests), digest \in Digests
  <2>3. HAVE name # <<>>
  <2>4. /\ parts = name \o <<digest>> <=> name = Front(parts) /\ digest = Last(parts)
        /\ Append(name, digest) = name \o <<digest>>
        /\ parts = name \o <<digest>> /\ name # <<>> => Len(parts) > 1
    <3> DEFINE X == STRING \cup Digests
    <3>1. name \in Seq(X) /\ parts \in Seq(X) /\ parts # <<>> /\ digest \in X
      BY <1>1, <2>1
    <3> HIDE DEF X
    <3>2. parts = name \o <<digest>> <=> name = Front(parts) /\ digest = Last(parts)
      BY <3>1, EndsWith
    <3>3. Append(name, digest) = name \o <<digest>>
      BY <3>1, EndsWith
    <3>4. parts = name \o <<digest>> /\ name # <<>> => Len(parts) > 1
      BY <3>1, EndsWith
    <3>5. QED BY <3>2, <3>3, <3>4
  <2>5. QED BY <2>3, <2>4
<1> DEFINE Ends == Last(parts) \in Digests
           Long == Len(parts) > 1
<1>4a. Long <=> Len(parts) # 1
  <2> HIDE DEF parts
  <2>1. Len(parts) >= 1
    BY <1>1
  <2>2. \A n \in Nat : n >= 1 => (n > 1 <=> n # 1)
    OBVIOUS
  <2>3. QED BY <1>1, <2>1, <2>2
<1>4b. Named <=> d.artifact_digest \notin Digests /\ parts = d.provider_model_name /\ ~(Long /\ Ends)
  <2> HIDE DEF Long
  <2> QED BY <1>4a
<1> HIDE DEF d, id, parts
<1>5. CASE Len(parts) > 1 /\ Last(parts) \in Digests
  <2>1. split(id).name = Front(parts) /\ split(id).digest = Last(parts)
    BY <1>5 DEF split, parts
  <2>2. ~Named
    BY <1>4b, <1>5
  <2>3. \A digest \in Digests :
            /\ parts = d.provider_model_name \o <<digest>>
                    <=> d.provider_model_name = Front(parts) /\ digest = Last(parts)
            /\ Append(d.provider_model_name, digest) = d.provider_model_name \o <<digest>>
    BY <1>1, <1>4, <1>5
  <2>4. Under <=> d.artifact_digest \notin Digests /\ d.provider_model_name = Front(parts)
    BY <1>5, <2>3
  <2>5. Pinned <=> /\ d.artifact_digest \in Digests
                   /\ d.provider_model_name = Front(parts) /\ d.artifact_digest = Last(parts)
    BY <1>1, <2>3
  <2>6. SameName <=> Pinned \/ Named \/ Under
    <3> HIDE DEF Pinned, Named, Under
    <3> QED BY <1>1, <1>5, <2>1, <2>2, <2>4, <2>5
  <2>7. QED BY <1>2, <1>3, <2>6 DEF d, id
<1>6. CASE ~(Len(parts) > 1 /\ Last(parts) \in Digests)
  <2>1. split(id).name = parts /\ split(id).digest = NONE
    BY <1>6 DEF split, parts
  <2>2. ~Pinned /\ ~Under
    BY <1>1, <1>4, <1>6
  <2>3. ~(Long /\ Ends)
    BY <1>6
  <2>4. Named <=> d.artifact_digest \notin Digests /\ d.provider_model_name = parts
    BY <1>4b, <2>3
  <2>5. SameName <=> Pinned \/ Named \/ Under
    <3> HIDE DEF Pinned, Named, Under
    <3> QED BY <1>1, <2>1, <2>2, <2>4
  <2>6. QED BY <1>2, <1>3, <2>5 DEF d, id
<1>7. QED BY <1>5, <1>6

Candidates(n, id, at) ==
    {i \in 1..n : matches(record_of(file[i]), id) /\ claims(record_of(file[i]), at)}

NewestFirst(n, id, at, i) ==
    /\ i \in Candidates(n, id, at)
    /\ \A j \in Candidates(n, id, at) :
        \/ record_of(file[j]).observed_at < record_of(file[i]).observed_at
        \/ record_of(file[j]).observed_at = record_of(file[i]).observed_at /\ i <= j

(* price_for_model returns the newest matching record of the catalogue, the     *)
(* first of equals, and None only when no record matches (pricing.py).          *)
LEMMA PriceIsNewest ==
    ASSUME Types, NEW n \in Nat, Loadable(n), NEW id, NEW at
    PROVE  LET price == price_for_model(CatalogueOf(n), id, at)
           IN  \/ price = NONE /\ Candidates(n, id, at) = {}
               \/ \E i \in 1..n : /\ NewestFirst(n, id, at, i)
                                  /\ price = record_of(file[i]) /\ price # NONE
<1> DEFINE records == CatalogueOf(n)
           candidates == {i \in DOMAIN records : matches(records[i], id) /\ claims(records[i], at)}
<1>1. DOMAIN records = 1..n /\ \A i \in 1..n : records[i] = record_of(file[i])
  BY DEF CatalogueOf
<1>2. candidates = Candidates(n, id, at)
  BY <1>1 DEF Candidates
<1>3. price_for_model(records, id, at)
        = IF candidates = {} THEN NONE ELSE records[first_latest(records, candidates)]
  BY DEF price_for_model
<1> HIDE DEF records, candidates
<1>4. CASE candidates = {}
  BY <1>2, <1>3, <1>4 DEF records
<1>5. CASE candidates # {}
  <2>1. \A i \in 1..n : file[i] \in Documents /\ Usable(file[i])
    BY DEF Types, Loadable
  <2>2. candidates \subseteq 1..n
    BY <1>2 DEF Candidates
  <2>3. \A i \in candidates : records[i].observed_at \in Nat
    BY <1>1, <2>1, <2>2, RecordType, DataAssumption
  <2>4. PICK i \in candidates :
            /\ i = first_latest(records, candidates)
            /\ \A j \in candidates :
                \/ records[j].observed_at < records[i].observed_at
                \/ records[j].observed_at = records[i].observed_at /\ i <= j
    BY <1>5, <2>2, <2>3, FirstLatest
  <2>5. NewestFirst(n, id, at, i)
    BY <1>1, <1>2, <2>2, <2>4 DEF NewestFirst
  <2>6. record_of(file[i]) # NONE
    BY <2>1, <2>2, RecordType
  <2>7. price_for_model(records, id, at) = record_of(file[i])
    BY <1>1, <1>3, <1>5, <2>2, <2>4
  <2>8. QED BY <2>2, <2>5, <2>6, <2>7 DEF records
<1>6. QED BY <1>4, <1>5

-----------------------------------------------------------------------------
(* Costs *)

(* What a usable document makes of a usage is a cost estimate. *)
LEMMA EstimateType ==
    ASSUME NEW document \in Documents, Usable(document), NEW usage \in TokenUsage
    PROVE  /\ estimate_cost(usage, record_of(document)) \in CostEstimate
           /\ contribution_of(usage, estimate_cost(usage, record_of(document))).nanos \in Nat
<1> DEFINE price == record_of(document)
           component(class) == IF usage[class] = 0 THEN 0
                               ELSE IF UNSUPPORTED \in {usage[class], price.rates[class]}
                                    THEN UNSUPPORTED
                                    ELSE usage[class] * price.rates[class]
<1>1. price.rates \in [TokenClasses -> Nat \cup {UNSUPPORTED}] /\ price.currency \in Currencies
  BY RecordType
<1>2. \A class \in TokenClasses : component(class) \in Nat \cup {UNSUPPORTED}
  <2> HIDE DEF price
  <2>1. TAKE class \in TokenClasses
  <2>2. usage[class] \in Nat \cup {UNSUPPORTED} /\ price.rates[class] \in Nat \cup {UNSUPPORTED}
    BY <1>1 DEF TokenUsage
  <2>3. \A m, n \in Nat : m * n \in Nat
    OBVIOUS
  <2>4. QED BY <2>2, <2>3
<1>3. estimate_cost(usage, price) \in CostEstimate
  BY <1>1, <1>2 DEF estimate_cost, CostEstimate
<1>4. contribution_of(usage, estimate_cost(usage, price)) \in DebitContribution
  BY <1>3, ContributionType
<1>5. QED BY <1>3, <1>4 DEF DebitContribution

(* The pre-flight estimate is an amount (pricing.py records_claiming): the      *)
(* records that claim an instant are finitely many.                             *)
LEMMA WorstType ==
    ASSUME Types, NEW n \in Nat, Loadable(n), NEW usage \in TokenUsage, NEW at
    PROVE  WorstCase(CatalogueOf(n), usage, at) \in Nat
<1> DEFINE records  == CatalogueOf(n)
           claiming == records_claiming(records, at)
           nanos    == [i \in claiming |-> contribution_of(usage, estimate_cost(usage, records[i])).nanos]
           Costs    == {nanos[i] : i \in claiming}
<1>1. DOMAIN records = 1..n /\ \A i \in 1..n : records[i] = record_of(file[i])
  BY DEF CatalogueOf
<1>2. claiming = {i \in 1..n : claims(record_of(file[i]), at)}
  BY <1>1 DEF records_claiming
<1>3. \A i \in 1..n : file[i] \in Documents /\ Usable(file[i])
  BY DEF Types, Loadable
<1> HIDE DEF claiming
<1>4. \A i \in claiming :
        nanos[i] = contribution_of(usage, estimate_cost(usage, record_of(file[i]))).nanos
  BY <1>1, <1>2
<1>5. WorstCase(records, usage, at) = Max({0} \cup Costs)
  <2>1. Costs = {contribution_of(usage, estimate_cost(usage, records[i])).nanos : i \in claiming}
    OBVIOUS
  <2>2. QED BY <2>1 DEF WorstCase, claiming
<1>6. \A i \in claiming : nanos[i] \in Nat
  BY <1>2, <1>3, <1>4, EstimateType
<1>7. IsFiniteSet(claiming)
  <2>1. IsFiniteSet(1..n)
    BY FS_Interval
  <2>2. claiming \subseteq 1..n
    BY <1>2
  <2>3. QED BY <2>1, <2>2, FS_Subset
<1>8. IsFiniteSet(Costs)
  <2>1. DOMAIN nanos = claiming /\ nanos = [i \in claiming |-> nanos[i]]
    OBVIOUS
  <2> HIDE DEF nanos
  <2>2. QED BY <1>7, <2>1, ImageIsFinite
<1> HIDE DEF nanos
<1>9. /\ {0} \cup Costs \subseteq Nat /\ {0} \cup Costs # {}
      /\ IsFiniteSet({0} \cup Costs)
  BY <1>6, <1>8, FS_AddElement
<1> HIDE DEF Costs
<1>10. Max({0} \cup Costs) \in Nat
  BY <1>9, MaxBounds
<1>11. QED BY <1>5, <1>10

-----------------------------------------------------------------------------
(* The invariant *)

(* Nothing the operator does to the file changes what has been loaded from it:  *)
(* observations are appended, and what is taken out could not be loaded.        *)
LEMMA LoadedStays ==
    ASSUME Types, Observe \/ Repair, NEW n, Loadable(n)
    PROVE  Loadable(n)' /\ CatalogueOf(n)' = CatalogueOf(n)
<1>1. n \in Nat /\ n <= Len(file) /\ Len(file) \in Nat /\ file \in Seq(Documents)
  BY DEF Loadable, Types
<1>2. n <= Len(file') /\ \A i \in 1..n : file'[i] = file[i]
  <2>1. CASE Observe
    <3>1. PICK document \in Documents : file' = Append(file, document)
      BY <2>1 DEF Observe
    <3>2. QED BY <1>1, <3>1
  <2>2. CASE Repair
    <3>1. PICK k \in DOMAIN file : ~Usable(file[k]) /\ file' = RemoveAt(file, k)
      BY <2>2 DEF Repair
    <3>2. k \in 1..Len(file) /\ n < k
      BY <1>1, <3>1 DEF Loadable
    <3>3. file' = SubSeq(file, 1, k - 1) \o SubSeq(file, k + 1, Len(file))
      BY <3>1 DEF RemoveAt
    <3>4. QED BY <1>1, <3>2, <3>3
  <2>3. QED BY <2>1, <2>2
<1>3. Len(file') \in Nat
  <2>1. CASE Observe
    BY <1>1, <2>1 DEF Observe
  <2>2. CASE Repair
    BY <1>1, <2>2 DEF Repair, RemoveAt
  <2>3. QED BY <2>1, <2>2
<1>4. QED BY <1>1, <1>2, <1>3 DEF Loadable, CatalogueOf

LEMMA CatalogueInit == Init => CatalogueInv
BY DEF Init, CatalogueInv, Types, Running, Approved, CallsPriced

(* A restart loads the whole file, or nothing. *)
LEMMA StartLoads ==
    ASSUME Types
    PROVE  load_pricing_records(file) # NONE =>
                /\ Loadable(Len(file))
                /\ load_pricing_records(file) = CatalogueOf(Len(file))
<1>1. DOMAIN file = 1..Len(file) /\ Len(file) \in Nat
  BY DEF Types
<1>2. QED BY <1>1 DEF load_pricing_records, Loadable, CatalogueOf

LEMMA CatalogueStep == CatalogueInv /\ [Next]_vars => CatalogueInv'
<1> SUFFICES ASSUME CatalogueInv, [Next]_vars PROVE CatalogueInv'
  OBVIOUS
<1> USE DEF CatalogueInv
<1>1. CASE Tick
  <2>1. now' \in Instants /\ UNCHANGED <<file, catalogue, approval, calls>>
    BY <1>1 DEF Tick
  <2>2. Types'
    BY <2>1 DEF Types
  <2>3. Running' /\ Approved' /\ CallsPriced'
    BY <2>1 DEF Running, Approved, CallsPriced, Loadable, CatalogueOf, PricedFrom
  <2>4. QED BY <2>2, <2>3
<1>2. CASE Observe \/ Repair
  <2>1. UNCHANGED <<catalogue, now, approval, calls>>
    BY <1>2 DEF Observe, Repair
  <2>2. file' \in Seq(Documents)
    <3>1. CASE Observe
      BY <3>1 DEF Observe, Types
    <3>2. CASE Repair
      BY <3>2 DEF Repair, RemoveAt, Types
    <3>3. QED BY <1>2, <3>1, <3>2
  <2>3. \A n : Loadable(n) => Loadable(n)' /\ CatalogueOf(n)' = CatalogueOf(n)
    BY <1>2, LoadedStays
  <2>4. Types'
    BY <2>1, <2>2 DEF Types
  <2>5. Running'
    <3>1. CASE catalogue = NONE
      BY <2>1, <3>1 DEF Running
    <3>2. CASE catalogue # NONE
      <4>1. PICK n \in 0..Len(file) : /\ Loadable(n)
                                      /\ catalogue = CatalogueOf(n)
                                      /\ \A c \in DOMAIN calls : calls[c].loaded <= n
        BY <3>2 DEF Running
      <4>2. Loadable(n)' /\ CatalogueOf(n)' = CatalogueOf(n)
        BY <2>3, <4>1
      <4>3. n \in 0..Len(file')
        BY <4>2 DEF Loadable
      <4>4. QED BY <2>1, <4>1, <4>2, <4>3 DEF Running
    <3>3. QED BY <3>1, <3>2
  <2>6. Approved'
    BY <2>1 DEF Approved
  <2>7. CallsPriced'
    <3>1. SUFFICES ASSUME NEW c \in DOMAIN calls
                   PROVE  /\ Loadable(calls[c].loaded)'
                          /\ PricedFrom(CatalogueOf(calls[c].loaded)', calls[c])
      BY <2>1 DEF CallsPriced, PricedFrom
    <3>2. Loadable(calls[c].loaded) /\ PricedFrom(CatalogueOf(calls[c].loaded), calls[c])
      BY DEF CallsPriced
    <3> DEFINE n == calls[c].loaded
    <3>3. n' = n
      BY <2>1
    <3>4. Loadable(n)' /\ CatalogueOf(n)' = CatalogueOf(n)
      BY <2>3, <3>2, <3>3 DEF Loadable, CatalogueOf
    <3>5. QED BY <3>2, <3>4
  <2>8. QED BY <2>4, <2>5, <2>6, <2>7
<1>3. CASE Start
  <2>1. /\ UNCHANGED <<file, now, calls>> /\ approval' = NONE
        /\ catalogue' = load_pricing_records(file)
    BY <1>3 DEF Start
  <2>2. Types' /\ Approved' /\ CallsPriced'
    BY <2>1 DEF Types, Approved, CallsPriced, Loadable, CatalogueOf, PricedFrom
  <2>3. Running'
    <3>1. CASE catalogue' = NONE
      BY <3>1 DEF Running
    <3>2. CASE catalogue' # NONE
      <4>1. Loadable(Len(file)) /\ catalogue' = CatalogueOf(Len(file))
        BY <2>1, <3>2, StartLoads
      <4>2. \A c \in DOMAIN calls : calls[c].loaded <= Len(file)
        BY DEF CallsPriced, Loadable
      <4>3. Len(file) \in 0..Len(file)
        BY DEF Types
      <4>4. QED BY <2>1, <4>1, <4>2, <4>3 DEF Running, Loadable, CatalogueOf
    <3>3. QED BY <3>1, <3>2
  <2>4. QED BY <2>2, <2>3
<1>4. CASE Preflight
  <2>1. PICK usage \in Usages :
            /\ approval' = [at |-> now, usage |-> usage, worst |-> WorstCase(catalogue, usage, now)]
            /\ catalogue # NONE /\ UNCHANGED <<file, catalogue, now, calls>>
    BY <1>4 DEF Preflight
  <2>2. Running' /\ CallsPriced'
    BY <2>1 DEF Running, CallsPriced, Loadable, CatalogueOf, PricedFrom
  <2>3. WorstCase(catalogue, usage, now) \in Nat
    <3>1. usage \in TokenUsage
      BY CatalogueAssumption
    <3>2. PICK n \in 0..Len(file) : Loadable(n) /\ catalogue = CatalogueOf(n)
      BY <2>1 DEF Running
    <3>3. n \in Nat
      BY DEF Types
    <3>4. QED BY <3>1, <3>2, <3>3, WorstType
  <2>4. Types'
    BY <2>1, <2>3 DEF Types, Approval
  <2>5. Approved'
    BY <2>1 DEF Approved
  <2>6. QED BY <2>2, <2>4, <2>5
<1>5. CASE Call
  <2>1. PICK id \in CanonicalIds :
            LET price == price_for_model(catalogue, id, now)
            IN  calls' = Append(calls, [canonical_id |-> id, at |-> now, approval |-> approval,
                                        loaded |-> Len(catalogue), price |-> price,
                                        cost |-> CostOf(approval.usage, price)])
    BY <1>5 DEF Call
  <2>2. approval # NONE /\ approval' = NONE /\ UNCHANGED <<file, catalogue, now>>
    BY <1>5 DEF Call
  <2>3. PICK n \in 0..Len(file) : /\ Loadable(n)
                                  /\ catalogue = CatalogueOf(n)
                                  /\ \A c \in DOMAIN calls : calls[c].loaded <= n
    BY <2>2 DEF Running, Approved
  <2>4. n \in Nat /\ Len(catalogue) = n
    BY <2>3 DEF CatalogueOf, Types
  <2> DEFINE price == price_for_model(catalogue, id, now)
             call  == [canonical_id |-> id, at |-> now, approval |-> approval, loaded |-> n,
                       price |-> price, cost |-> CostOf(approval.usage, price)]
  <2>5. calls' = Append(calls, call)
    BY <2>1, <2>4
  <2>6. approval \in Approval /\ approval.usage \in TokenUsage
    BY <2>2, CatalogueAssumption DEF Types, Approval
  <2>7. price \in PriceRecord \cup {NONE} /\ CostOf(approval.usage, price) \in CostEstimate \cup {NONE}
    <3>1. CASE price = NONE
      BY <3>1 DEF CostOf
    <3>2. CASE price # NONE
      <4>1. PICK i \in 1..n : price = record_of(file[i])
        BY <2>3, <2>4, <3>2, PriceIsNewest
      <4>2. file[i] \in Documents /\ Usable(file[i])
        BY <2>3 DEF Types, Loadable
      <4>3. estimate_cost(approval.usage, price) \in CostEstimate
        BY <2>6, <4>1, <4>2, EstimateType
      <4>4. QED BY <3>2, <4>1, <4>2, <4>3, RecordType DEF CostOf
    <3>3. QED BY <3>1, <3>2
  <2>8. call \in CallRecord
    <3> HIDE DEF price
    <3>1. QED BY <2>4, <2>6, <2>7 DEF CallRecord, Types
  <2>9. Types'
    BY <2>2, <2>5, <2>8 DEF Types
  <2>10. PricedFrom(CatalogueOf(n), call)
    BY <2>2, <2>3 DEF PricedFrom, Approved
  <2> HIDE DEF call
  <2>11. /\ DOMAIN calls' = DOMAIN calls \cup {Len(calls) + 1}
         /\ \A c \in DOMAIN calls : calls'[c] = calls[c]
         /\ calls'[Len(calls) + 1] = call
    BY <2>5, <2>8 DEF Types
  <2>12. call.loaded = n
    BY DEF call
  <2>13. \A c \in DOMAIN calls' :
            /\ calls'[c].loaded <= n
            /\ Loadable(calls'[c].loaded)
            /\ PricedFrom(CatalogueOf(calls'[c].loaded), calls'[c])
    BY <2>3, <2>4, <2>10, <2>11, <2>12 DEF CallsPriced
  <2>14. Running'
    BY <2>2, <2>3, <2>13 DEF Running, Loadable, CatalogueOf
  <2>15. Approved'
    BY <2>2 DEF Approved
  <2>16. CallsPriced'
    BY <2>2, <2>13 DEF CallsPriced, Loadable, CatalogueOf, PricedFrom
  <2>17. QED BY <2>9, <2>14, <2>15, <2>16
<1>6. CASE UNCHANGED vars
  BY <1>6 DEF vars, Types, Running, Approved, CallsPriced, Loadable, CatalogueOf, PricedFrom
<1>7. QED BY <1>1, <1>2, <1>3, <1>4, <1>5, <1>6 DEF Next

(* Every reachable state satisfies the invariant. *)
LEMMA CatalogueInvariant == Spec => []CatalogueInv
BY CatalogueInit, CatalogueStep, PTL DEF Spec

-----------------------------------------------------------------------------
(* The properties *)

(* What a call of a reachable state was priced by: a document of its own        *)
(* beginning of the file, the newest that covers it, or none when none does.    *)
LEMMA CallPrice ==
    ASSUME CatalogueInv, NEW c \in DOMAIN calls
    PROVE  LET call == calls[c]
           IN  /\ call \in CallRecord
               /\ call.loaded \in Nat /\ Loadable(call.loaded)
               /\ PricedFrom(CatalogueOf(call.loaded), call)
               /\ \/ /\ call.price = NONE
                     /\ Candidates(call.loaded, call.canonical_id, call.at) = {}
                  \/ \E i \in 1..call.loaded :
                        /\ NewestFirst(call.loaded, call.canonical_id, call.at, i)
                        /\ file[i] \in Documents /\ Usable(file[i])
                        /\ call.price = record_of(file[i]) /\ call.price # NONE
<1> DEFINE call == calls[c]
           n    == call.loaded
<1>1. call \in CallRecord
  BY DEF CatalogueInv, Types
<1>2. n \in Nat /\ Loadable(n) /\ PricedFrom(CatalogueOf(n), call)
  BY <1>1 DEF CatalogueInv, CallsPriced, CallRecord
<1>3. call.price = price_for_model(CatalogueOf(n), call.canonical_id, call.at)
  BY <1>2 DEF PricedFrom
<1>4. \A i \in 1..n : file[i] \in Documents /\ Usable(file[i])
  BY <1>2 DEF CatalogueInv, Types, Loadable
<1>5. Types
  BY DEF CatalogueInv
<1> HIDE DEF call, n
<1>6. \/ call.price = NONE /\ Candidates(n, call.canonical_id, call.at) = {}
      \/ \E i \in 1..n : /\ NewestFirst(n, call.canonical_id, call.at, i)
                         /\ call.price = record_of(file[i]) /\ call.price # NONE
  BY <1>2, <1>3, <1>5, PriceIsNewest
<1>7. QED BY <1>1, <1>2, <1>4, <1>6 DEF call, n

(* What covers a call, of what was loaded when it was made, are the records     *)
(* that matched it.                                                             *)
LEMMA CoveringLoaded ==
    ASSUME CatalogueInv, NEW c \in DOMAIN calls
    PROVE  {i \in Covering(calls[c]) : i <= calls[c].loaded}
                = Candidates(calls[c].loaded, calls[c].canonical_id, calls[c].at)
<1> DEFINE call == calls[c]
<1>1. call.canonical_id \in CanonicalIds /\ call.loaded \in Nat /\ Loadable(call.loaded)
  BY CallPrice DEF CallRecord
<1>2. file \in Seq(Documents) /\ DOMAIN file = 1..Len(file) /\ Len(file) \in Nat
  BY DEF CatalogueInv, Types
<1>3. \A i \in 1..call.loaded : i \in DOMAIN file /\ file[i] \in Documents
  BY <1>1, <1>2 DEF Loadable
<1>4. \A i \in 1..call.loaded :
        i \in Covering(call) <=> /\ matches(record_of(file[i]), call.canonical_id)
                                 /\ claims(record_of(file[i]), call.at)
  <2> HIDE DEF call
  <2>1. QED BY <1>1, <1>3, CoveringIsMatching
<1>5. Covering(call) \subseteq DOMAIN file
  BY DEF Covering
<1>6. \A i \in Covering(call) : i <= call.loaded <=> i \in 1..call.loaded
  BY <1>1, <1>2, <1>5
<1> HIDE DEF call
<1>7. {i \in Covering(call) : i <= call.loaded}
        = Candidates(call.loaded, call.canonical_id, call.at)
  BY <1>1, <1>2, <1>4, <1>5, <1>6 DEF Candidates
<1>8. QED BY <1>7 DEF call

(* Type correctness (pricing.py load_pricing_records): no float, undated record *)
(* or empty window becomes a price, whatever the operator writes.               *)
THEOREM CatalogueTypeCorrect == Spec => []TypeOK
<1>1. ASSUME CatalogueInv PROVE TypeOK
  <2>1. ASSUME catalogue # NONE, NEW i \in DOMAIN catalogue
        PROVE  /\ catalogue[i].rates \in [TokenClasses -> Nat \cup {UNSUPPORTED}]
               /\ catalogue[i].observed_at \in Instants
               /\ catalogue[i].effective_from # NONE /\ catalogue[i].effective_until # NONE =>
                        catalogue[i].effective_from <= catalogue[i].effective_until
    <3>1. PICK n \in 0..Len(file) : Loadable(n) /\ catalogue = CatalogueOf(n)
      BY <1>1, <2>1 DEF CatalogueInv, Running
    <3>2. i \in 1..n /\ catalogue[i] = record_of(file[i])
      BY <2>1, <3>1 DEF CatalogueOf
    <3>3. file[i] \in Documents /\ Usable(file[i])
      BY <1>1, <3>1, <3>2 DEF CatalogueInv, Types, Loadable
    <3>4. QED BY <3>2, <3>3, RecordType
  <2>2. approval # NONE => approval.usage \in TokenUsage /\ approval.worst \in Nat
    BY <1>1, CatalogueAssumption DEF CatalogueInv, Types, Approval
  <2>3. \A c \in DOMAIN calls : calls[c].cost \in CostEstimate \cup {NONE}
    BY <1>1, CallPrice DEF CallRecord
  <2>4. QED BY <2>1, <2>2, <2>3 DEF TypeOK
<1>2. QED BY <1>1, CatalogueInvariant, PTL

(* A price is the newest one written for the weights that answered              *)
(* (pricing.py price_for_model), a call is left unpriced only if no loaded      *)
(* document covers it, and a digest that is written as a string prices no other *)
(* weights.                                                                     *)
THEOREM PricedByTheNewest == Spec => []PricedForItsWeights
<1>1. ASSUME CatalogueInv PROVE PricedForItsWeights
  <2>1. SUFFICES ASSUME NEW c \in DOMAIN calls
                 PROVE  LET call     == calls[c]
                            covering == {i \in Covering(call) : i <= call.loaded}
                        IN  IF call.price = NONE THEN covering = {}
                            ELSE \E i \in covering :
                                    /\ record_of(file[i]) = call.price
                                    /\ \A j \in covering :
                                            file[j].observed_at <= file[i].observed_at
    BY DEF PricedForItsWeights
  <2> DEFINE call       == calls[c]
             candidates == Candidates(call.loaded, call.canonical_id, call.at)
  <2>2. {i \in Covering(call) : i <= call.loaded} = candidates
    BY <1>1, CoveringLoaded
  <2>3. CASE call.price = NONE
    BY <1>1, <2>2, <2>3, CallPrice
  <2>4. CASE call.price # NONE
    <3>1. PICK i \in 1..call.loaded :
                /\ NewestFirst(call.loaded, call.canonical_id, call.at, i)
                /\ call.price = record_of(file[i])
      BY <1>1, <2>4, CallPrice
    <3>2. \A j \in candidates :
                /\ record_of(file[j]).observed_at = file[j].observed_at
                /\ file[j].observed_at \in Nat
      <4>1. \A j \in candidates : file[j] \in Documents /\ Usable(file[j])
        BY <1>1, CallPrice DEF CatalogueInv, Types, Loadable, Candidates
      <4>2. QED BY <4>1, RecordType, DataAssumption
    <3>3. i \in candidates
      BY <3>1 DEF NewestFirst
    <3>4. \A j \in candidates : file[j].observed_at <= file[i].observed_at
      <4>1. TAKE j \in candidates
      <4>2. \/ file[j].observed_at < file[i].observed_at
            \/ file[j].observed_at = file[i].observed_at
        BY <3>1, <3>2, <3>3 DEF NewestFirst
      <4>3. \A m, n \in Nat : m < n \/ m = n => m <= n
        OBVIOUS
      <4>4. file[j].observed_at \in Nat /\ file[i].observed_at \in Nat
        BY <3>2, <3>3
      <4> HIDE DEF candidates, call
      <4>5. QED BY <4>2, <4>3, <4>4
    <3>5. QED BY <2>2, <2>4, <3>1, <3>3, <3>4
  <2>5. QED BY <2>3, <2>4
<1>2. QED BY <1>1, CatalogueInvariant, PTL

(* "Not stated" is not "free" (pricing.py _rates_of): a call whose estimate     *)
(* totals was priced by a document that states a rate for every class it used.  *)
THEOREM NotStatedIsNotFree == Spec => []NothingIsFree
<1>1. ASSUME CatalogueInv PROVE NothingIsFree
  <2>1. SUFFICES ASSUME NEW c \in DOMAIN calls, ~is_unpriced(calls[c].cost)
                 PROVE  \E i \in Covering(calls[c]) :
                            /\ record_of(file[i]) = calls[c].price
                            /\ \A class \in TokenClasses :
                                    calls[c].approval.usage[class] # 0
                                        => file[i].rates[class] \in Nat
    BY DEF NothingIsFree
  <2> DEFINE call  == calls[c]
             usage == call.approval.usage
  <2>2. call.cost = CostOf(usage, call.price) /\ call.cost # NONE /\ Totalled(call.cost)
    BY <1>1, <2>1, CallPrice DEF PricedFrom, is_unpriced
  <2>3. call.price # NONE /\ call.cost = estimate_cost(usage, call.price)
    BY <2>2 DEF CostOf
  <2>4. PICK i \in 1..call.loaded :
            /\ NewestFirst(call.loaded, call.canonical_id, call.at, i)
            /\ file[i] \in Documents /\ Usable(file[i])
            /\ call.price = record_of(file[i])
    BY <1>1, <2>3, CallPrice
  <2>5. i \in Covering(call)
    BY <1>1, <2>4, CoveringLoaded DEF NewestFirst
  <2>6. ASSUME NEW class \in TokenClasses, usage[class] # 0
        PROVE  file[i].rates[class] \in Nat
    <3>1. call.cost.components[class] # UNSUPPORTED
      BY <2>2 DEF Totalled
    <3>2. call.cost.components[class]
            = IF UNSUPPORTED \in {usage[class], call.price.rates[class]} THEN UNSUPPORTED
              ELSE usage[class] * call.price.rates[class]
      BY <2>3, <2>6 DEF estimate_cost
    <3>3. call.price.rates[class] # UNSUPPORTED
      BY <3>1, <3>2
    <3>4. QED BY <2>4, <3>3, RecordType
  <2>7. QED BY <2>4, <2>5, <2>6
<1>2. QED BY <1>1, CatalogueInvariant, PTL

(* Re-costing history finds the same record (pricing.py price_for_model): a     *)
(* later catalogue re-prices a call only to a later observation, and never      *)
(* loses its price.                                                             *)
THEOREM RecostingIsMonotone == Spec => []RecostingNeverGoesBack
<1>1. ASSUME CatalogueInv PROVE RecostingNeverGoesBack
  <2>1. SUFFICES ASSUME catalogue # NONE, NEW c \in DOMAIN calls, calls[c].price # NONE
                 PROVE  LET call  == calls[c]
                            again == price_for_model(catalogue, call.canonical_id, call.at)
                        IN  \/ again = call.price
                            \/ again # NONE /\ again.observed_at > call.price.observed_at
    BY DEF RecostingNeverGoesBack
  <2> DEFINE call  == calls[c]
             id    == call.canonical_id
             at    == call.at
             again == price_for_model(catalogue, id, at)
  <2>2. PICK n \in 0..Len(file) : /\ Loadable(n)
                                  /\ catalogue = CatalogueOf(n)
                                  /\ \A k \in DOMAIN calls : calls[k].loaded <= n
    BY <1>1, <2>1 DEF CatalogueInv, Running
  <2>3. n \in Nat /\ call.loaded \in Nat /\ call.loaded <= n
    BY <1>1, <2>2, CallPrice DEF CatalogueInv, Types
  <2>4. PICK i \in 1..call.loaded :
            NewestFirst(call.loaded, id, at, i) /\ call.price = record_of(file[i])
    BY <1>1, <2>1, CallPrice
  <2>5. Types
    BY <1>1 DEF CatalogueInv
  <2> HIDE DEF call, id, at
  <2>6. i \in Candidates(n, id, at)
    BY <2>3, <2>4 DEF NewestFirst, Candidates
  <2>7. PICK k \in 1..n : /\ NewestFirst(n, id, at, k)
                          /\ again = record_of(file[k]) /\ again # NONE
    BY <2>2, <2>3, <2>5, <2>6, PriceIsNewest
  <2>8. \/ record_of(file[i]).observed_at < record_of(file[k]).observed_at
        \/ record_of(file[i]).observed_at = record_of(file[k]).observed_at /\ k <= i
    BY <2>6, <2>7 DEF NewestFirst
  <2>9. /\ record_of(file[i]).observed_at \in Nat /\ record_of(file[k]).observed_at \in Nat
        /\ i \in Nat /\ k \in Nat
    <3>1. i \in 1..n
      BY <2>3, <2>4
    <3>2. file[i] \in Documents /\ Usable(file[i]) /\ file[k] \in Documents /\ Usable(file[k])
      BY <2>2, <2>5, <2>7, <3>1 DEF Types, Loadable
    <3>3. QED BY <2>7, <3>1, <3>2, RecordType, DataAssumption
  <2>10. CASE record_of(file[i]).observed_at < record_of(file[k]).observed_at
    BY <2>4, <2>7, <2>9, <2>10 DEF call, id, at
  <2>11. CASE record_of(file[i]).observed_at = record_of(file[k]).observed_at /\ k <= i
    <3>1. k \in Candidates(call.loaded, id, at)
      BY <2>3, <2>4, <2>7, <2>9, <2>11 DEF NewestFirst, Candidates
    <3>2. i <= k
      BY <2>4, <2>9, <2>11, <3>1 DEF NewestFirst
    <3>3. i = k
      BY <2>9, <2>11, <3>2
    <3>4. QED BY <2>4, <2>7, <3>3 DEF call, id, at
  <2>12. QED BY <2>8, <2>10, <2>11
<1>2. QED BY <1>1, CatalogueInvariant, PTL

=============================================================================
