---------------------------- MODULE PriceCatalogue ----------------------------
(***************************************************************************)
(* Price records (pricing.py): a price file that an operator appends        *)
(* observations to, the catalogue an application loads from it when it      *)
(* starts, the pre-flight estimate over every record claiming an instant,   *)
(* and the record one call is priced by, when it is made and again when     *)
(* history is re-costed.                                                    *)
(*                                                                          *)
(* A model name is the sequence of its parts between "@", at least one: the *)
(* canonical id "provider/name@sha256:..." is a provider and the parts of   *)
(* the remainder.                                                           *)
(***************************************************************************)
EXTENDS BalanceBook, FiniteSetsExt, SequencesExt

CONSTANTS Providers,      \* provider kinds
          Digests,        \* parts of a name that start with "sha256:"
          FLOAT,          \* a rate written as a JSON number
          NOT_TEXT,       \* a digest written as anything but a string
          Documents,      \* the records an operator may write
          CanonicalIds,   \* the model ids that calls are made on
          Usages,         \* the usage a call is estimated at
          FileLengths,    \* lengths of the price file (Nat, or a bound for TLC)
          CallNumbers     \* numbers of calls made (Nat, or a bound for TLC)

ModelName == Seq(STRING \cup Digests) \ {<<>>}

\* A rate is written as a decimal string (its nanos), as a number, or not at all.
PriceDocument ==
    [provider_kind : Providers,
     provider_model_name : ModelName,
     artifact_digest : Digests \cup {NOT_TEXT, NONE},
     currency : Currencies,
     rates : [TokenClasses -> Nat \cup {FLOAT, NONE}],
     observed_at : Instants \cup {NONE},
     effective_from : Instants \cup {NONE},
     effective_until : Instants \cup {NONE},
     readable : BOOLEAN]

ASSUME CatalogueAssumption ==
    /\ NONE \notin Digests
    /\ NOT_TEXT \notin Digests \cup {NONE}
    /\ FLOAT \notin Nat \cup {NONE}
    /\ Documents \subseteq PriceDocument
    /\ CanonicalIds \subseteq [provider : Providers, remainder : ModelName]
    /\ Usages \subseteq TokenUsage
    /\ FileLengths \subseteq Nat /\ CallNumbers \subseteq Nat

VARIABLES file,        \* the records of the price file, as written
          catalogue,   \* the records loaded at startup, or NONE: not running
          now,         \* the clock
          approval,    \* the pre-flight estimate of the call about to be made, or NONE
          calls        \* the calls made, with the record that priced each

vars == <<file, catalogue, now, approval, calls>>

-----------------------------------------------------------------------------
(* Loading *)

\* Mutant: an omitted rate is free.
rate_free(raw) == IF raw = NONE THEN 0 ELSE raw

\* A rate is a decimal string; one that is omitted is not zero.
rate(raw) == IF raw = NONE THEN UNSUPPORTED ELSE raw

rates_of(document) == [class \in TokenClasses |-> rate(document.rates[class])]

\* Mutant: a rate written as a number is taken as it is.
UsableWithNumbers(document) ==
    /\ document.readable
    /\ document.observed_at # NONE
    /\ document.effective_from # NONE /\ document.effective_until # NONE
        => document.effective_from <= document.effective_until

\* The record is one load_pricing_records can turn into an observation; "readable" stands
\* for the fields whose value nothing here depends on.
Usable(document) ==
    /\ document.readable
    /\ document.observed_at # NONE
    /\ \A class \in TokenClasses : document.rates[class] # FLOAT
    /\ document.effective_from # NONE /\ document.effective_until # NONE
        => document.effective_from <= document.effective_until

\* A digest that is not a string is not refused: it is read as none stated.
digest_of(document) ==
    IF document.artifact_digest = NOT_TEXT THEN NONE ELSE document.artifact_digest

record_of(document) ==
    [provider_kind |-> document.provider_kind,
     provider_model_name |-> document.provider_model_name,
     artifact_digest |-> digest_of(document),
     currency |-> document.currency,
     rates |-> rates_of(document),
     observed_at |-> document.observed_at,
     effective_from |-> document.effective_from,
     effective_until |-> document.effective_until]

\* price_for_model tells "no price" from every price.
ASSUME NoneIsNoRecord == \A document \in Documents : record_of(document) # NONE

\* PricingFileError for any unusable record: all of the file or nothing.
load_pricing_records(documents) ==
    IF \A i \in DOMAIN documents : Usable(documents[i])
    THEN [i \in DOMAIN documents |-> record_of(documents[i])]
    ELSE NONE

-----------------------------------------------------------------------------
(* Resolution *)

\* remainder.rpartition("@"), when what follows it is a digest.
split(canonical_id) ==
    LET parts == canonical_id.remainder
    IN  IF Len(parts) > 1 /\ Last(parts) \in Digests
        THEN [kind |-> canonical_id.provider, name |-> Front(parts), digest |-> Last(parts)]
        ELSE [kind |-> canonical_id.provider, name |-> parts, digest |-> NONE]

\* Mutant: the asymmetry of digests backwards.
matches_backwards(record_, canonical_id) ==
    LET id == split(canonical_id)
    IN  /\ record_.provider_kind = id.kind
        /\ record_.provider_model_name = id.name
        /\ id.digest \in {NONE, record_.artifact_digest}

matches(record_, canonical_id) ==
    LET id == split(canonical_id)
    IN  /\ record_.provider_kind = id.kind
        /\ record_.provider_model_name = id.name
        /\ record_.artifact_digest \in {NONE, id.digest}

\* Both bounds are inclusive; one that is not stated is no bound.
claims(record_, at) ==
    /\ record_.effective_from # NONE => record_.effective_from <= at
    /\ record_.effective_until # NONE => at <= record_.effective_until

records_claiming(records, at) == {i \in DOMAIN records : claims(records[i], at)}

\* Mutant: of two observations of one instant the later in the file wins.
first_latest_last(records, candidates) ==
    CHOOSE i \in candidates :
        \A j \in candidates :
            \/ records[j].observed_at < records[i].observed_at
            \/ records[j].observed_at = records[i].observed_at /\ j <= i

\* max(candidates, key=observed_at) returns the first maximum.
first_latest(records, candidates) ==
    CHOOSE i \in candidates :
        \A j \in candidates :
            \/ records[j].observed_at < records[i].observed_at
            \/ records[j].observed_at = records[i].observed_at /\ i <= j

price_for_model(records, canonical_id, at) ==
    LET candidates ==
            {i \in DOMAIN records : matches(records[i], canonical_id) /\ claims(records[i], at)}
    IN  IF candidates = {} THEN NONE ELSE records[first_latest(records, candidates)]

-----------------------------------------------------------------------------
(* Costing *)

\* A class the call used and the record states no rate for has no cost.
estimate_cost(usage, price) ==
    [currency |-> price.currency,
     components |-> [class \in TokenClasses |->
        IF usage[class] = 0 THEN 0
        ELSE IF UNSUPPORTED \in {usage[class], price.rates[class]} THEN UNSUPPORTED
        ELSE usage[class] * price.rates[class]]]

CostOf(usage, price) == IF price = NONE THEN NONE ELSE estimate_cost(usage, price)

\* What a caller estimates before it knows which model answers: the largest.
WorstCase(records, usage, at) ==
    Max({0} \cup {contribution_of(usage, estimate_cost(usage, records[i])).nanos :
                    i \in records_claiming(records, at)})

-----------------------------------------------------------------------------
Init ==
    /\ file = <<>>
    /\ catalogue = NONE
    /\ now \in Instants
    /\ approval = NONE
    /\ calls = <<>>

Tick ==
    /\ \E t \in Instants : t > now /\ now' = t
    /\ UNCHANGED <<file, catalogue, approval, calls>>

\* The operator writes down a price as observed now, or on an earlier day.
Observe ==
    /\ Len(file) + 1 \in FileLengths
    /\ \E document \in Documents :
        /\ document.observed_at # NONE => document.observed_at <= now
        /\ file' = Append(file, document)
    /\ UNCHANGED <<catalogue, now, approval, calls>>

\* The operator takes out a record that keeps the application from starting.
Repair ==
    /\ \E i \in DOMAIN file : ~Usable(file[i]) /\ file' = RemoveAt(file, i)
    /\ UNCHANGED <<catalogue, now, approval, calls>>

\* The application (re)starts, or refuses to when the file is not usable as a whole.
Start ==
    /\ catalogue' = load_pricing_records(file)
    /\ approval' = NONE
    /\ UNCHANGED <<file, now, calls>>

Preflight ==
    /\ catalogue # NONE
    /\ approval = NONE
    /\ \E usage \in Usages :
        approval' = [at |-> now, usage |-> usage, worst |-> WorstCase(catalogue, usage, now)]
    /\ UNCHANGED <<file, catalogue, now, calls>>

Call ==
    /\ approval # NONE
    /\ Len(calls) + 1 \in CallNumbers
    /\ \E id \in CanonicalIds :
        LET price == price_for_model(catalogue, id, now)
        IN  calls' = Append(calls, [canonical_id |-> id, at |-> now, approval |-> approval,
                                    loaded |-> Len(catalogue), price |-> price, cost |-> CostOf(approval.usage, price)])
    /\ approval' = NONE
    /\ UNCHANGED <<file, catalogue, now>>

Next == Tick \/ Observe \/ Repair \/ Start \/ Preflight \/ Call

Spec == Init /\ [][Next]_vars

-----------------------------------------------------------------------------
(* Properties *)

(* Type invariant of the application (pricing.py load_pricing_records, "a      *)
(* price that arrived as a float has already lost the value"): whatever the    *)
(* operator writes, no float, undated record or empty window gets as far as a  *)
(* price, and every cost is an exact estimate.                                 *)
TypeOK ==
    /\ catalogue # NONE =>
        \A i \in DOMAIN catalogue :
            LET record_ == catalogue[i]
            IN  /\ record_.rates \in [TokenClasses -> Nat \cup {UNSUPPORTED}]
                /\ record_.observed_at \in Instants
                /\ record_.effective_from # NONE /\ record_.effective_until # NONE =>
                        record_.effective_from <= record_.effective_until
    /\ approval # NONE => approval.usage \in TokenUsage /\ approval.worst \in Nat
    /\ \A c \in DOMAIN calls : calls[c].cost \in CostEstimate \cup {NONE}

\* The documents that state a price for the weights of a call at its instant.  An id that
\* ends in a digest is that of the weights so pinned, even if it is also some document's
\* whole model name.  A digest that is not a string pins nothing: load_pricing_records lets
\* the document pass for one that states none (see StatedDigestNarrows).
Covering(call) ==
    {i \in DOMAIN file :
        LET d      == file[i]
            parts  == call.canonical_id.remainder
            pinned == d.provider_model_name \o <<d.artifact_digest>>
        IN  /\ d.provider_kind = call.canonical_id.provider
            /\ \/ d.artifact_digest \in Digests /\ parts = pinned
               \/ /\ d.artifact_digest \notin Digests /\ parts = d.provider_model_name
                  /\ Last(parts) \notin Digests \/ Len(parts) = 1
               \/ /\ d.artifact_digest \notin Digests
                  /\ \E digest \in Digests : parts = Append(d.provider_model_name, digest)
            /\ d.effective_from = NONE \/ d.effective_from <= call.at
            /\ d.effective_until = NONE \/ call.at <= d.effective_until}

(* A price is the newest one written for the weights that answered             *)
(* (price_for_model, the digest rule "most likely to be got backwards"): read  *)
(* off the file itself, no loaded document that covers the call was observed   *)
(* later, a call is left unpriced only if none covers it, and a digest written *)
(* as a string prices no other weights.                                        *)
PricedForItsWeights ==
    \A c \in DOMAIN calls :
        LET call     == calls[c]
            covering == {i \in Covering(call) : i <= call.loaded}
        IN  IF call.price = NONE THEN covering = {}
            ELSE \E i \in covering :
                    /\ record_of(file[i]) = call.price
                    /\ \A j \in covering : file[j].observed_at <= file[i].observed_at

(* "Not stated" is not "free" (pricing.py, an omitted rate is UNSUPPORTED, not *)
(* zero): a call whose estimate totals was priced by a document of the file    *)
(* that states a rate for every class it used; any other call is recorded      *)
(* unpriced.                                                                   *)
NothingIsFree ==
    \A c \in DOMAIN calls :
        LET call == calls[c]
        IN  is_unpriced(call.cost)
            \/ \E i \in Covering(call) :
                /\ record_of(file[i]) = call.price
                /\ \A class \in TokenClasses :
                        call.approval.usage[class] # 0 => file[i].rates[class] \in Nat

(* Re-costing history finds the same record (price_for_model), as long as the  *)
(* file only grows, unless the operator has since observed a price for that    *)
(* time: a later catalogue never re-prices a call to an older or an equally    *)
(* old observation, and never loses its price.                                 *)
RecostingNeverGoesBack ==
    catalogue # NONE =>
        \A c \in DOMAIN calls :
            LET call == calls[c]
                again == price_for_model(catalogue, call.canonical_id, call.at)
            IN  call.price # NONE =>
                    \/ again = call.price
                    \/ again # NONE /\ again.observed_at > call.price.observed_at

-----------------------------------------------------------------------------
(* What the documentation says and the code does not do *)

(* A record stating a digest matches only that digest (spec.md, price_for_model *)
(* "ignoring a digest a record did state would price one set of weights at     *)
(* another's rates"): a call is priced by a loaded document that states no     *)
(* digest or the call's own.  It fails: a digest stated as something other     *)
(* than a string is ignored.                                                   *)
StatedDigestNarrows ==
    \A c \in DOMAIN calls :
        LET call == calls[c]
        IN  call.price # NONE =>
                \E i \in 1..call.loaded :
                    /\ record_of(file[i]) = call.price
                    /\ file[i].artifact_digest \in {NONE, split(call.canonical_id).digest}

=============================================================================
