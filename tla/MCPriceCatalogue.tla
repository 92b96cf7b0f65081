--------------------------- MODULE MCPriceCatalogue ---------------------------
(***************************************************************************)
(* A small instance of PriceCatalogue: a model priced under any digest      *)
(* (twice, observed on one day), under one digest from a day after it was   *)
(* announced, and corrected later; a model whose name holds an "@"; a       *)
(* digest written into the name; a digest that is not a string; a record    *)
(* whose rate is a JSON number, one without a date and one whose window is  *)
(* empty.  One call: every property is about one call.                      *)
(***************************************************************************)
EXTENDS PriceCatalogue, TLC

CONSTANTS hosted, sha1, sha2, USD, MaxFile, MaxCalls

MCCurrencies == {USD}
MCInstants == {0, 1, 2}
MCFileLengths == 1..MaxFile
MCCallNumbers == 1..MaxCalls

Classes(in, out, write, read) ==
    "input" :> in @@ "output" :> out @@ "cache_write" :> write @@ "cache_read" :> read

Priced(name, digest, rates, observed, from, until) ==
    [provider_kind |-> hosted, provider_model_name |-> name, artifact_digest |-> digest,
     currency |-> USD, rates |-> rates, observed_at |-> observed, effective_from |-> from,
     effective_until |-> until, readable |-> TRUE]

MCDocuments ==
    {Priced(<<"m">>, NONE, Classes(1, 2, NONE, NONE), 0, NONE, 1),
     Priced(<<"m">>, NONE, Classes(2, 1, 0, 1), 0, NONE, NONE),
     Priced(<<"m">>, sha1, Classes(3, 3, NONE, 0), 1, 2, NONE),
     Priced(<<"m">>, NONE, Classes(1, 1, 0, 0), 2, NONE, NONE),
     Priced(<<"m", "v2">>, NONE, Classes(1, 1, 1, 1), 0, NONE, NONE),
     Priced(<<"m", sha1>>, NONE, Classes(1, 1, 1, 1), 1, NONE, NONE),
     Priced(<<"m">>, NOT_TEXT, Classes(1, 4, 0, 1), 1, NONE, NONE),
     Priced(<<"m">>, NONE, Classes(1, 1, 1, 1), NONE, NONE, NONE),
     Priced(<<"m">>, NONE, Classes(FLOAT, 1, 1, 1), 0, NONE, NONE),
     Priced(<<"m">>, NONE, Classes(1, 1, 1, 1), 0, 2, 1)}

Id(parts) == [provider |-> hosted, remainder |-> parts]
MCCanonicalIds == {Id(<<"m">>), Id(<<"m", sha1>>), Id(<<"m", sha2>>), Id(<<"m", "v2">>)}

MCUsages == {Classes(1, 1, 0, 0), Classes(1, 0, 0, 1), Classes(1, UNSUPPORTED, 0, 0)}

=============================================================================
