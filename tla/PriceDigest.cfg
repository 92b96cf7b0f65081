CONSTANTS
    hosted = hosted
    sha1 = sha1
    sha2 = sha2
    USD = USD
    NONE = NONE
    UNSUPPORTED = UNSUPPORTED
    FLOAT = FLOAT
    NOT_TEXT = NOT_TEXT
    Runs = {}
    Tags = {}
    Currencies <- MCCurrencies
    Instants <- MCInstants
    TicksPerDay = 1
    Providers = {hosted}
    Digests = {sha1, sha2}
    Documents <- MCDocuments
    CanonicalIds <- MCCanonicalIds
    Usages <- MCUsages
    MaxFile = 2
    FileLengths <- MCFileLengths
    MaxCalls = 1
    CallNumbers <- MCCallNumbers

SPECIFICATION Spec

INVARIANT
    StatedDigestNarrows
