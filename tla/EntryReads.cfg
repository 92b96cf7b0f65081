CONSTANTS
    w1 = w1
    w2 = w2
    p1 = p1
    r1 = r1
    r2 = r2
    t1 = t1
    USD = USD
    NONE = NONE
    UNSUPPORTED = UNSUPPORTED
    TEXT = TEXT
    Runs <- MCRuns
    Tags <- MCTags
    Currencies <- MCCurrencies
    Instants <- MCInstants
    TicksPerDay = 2
    Writers = {w1, w2}
    Pollers = {p1}
    Offsets <- MCOffsets
    ServerOffset = 1
    Debits <- MCDebits
    Verdicts <- MCVerdicts
    MaxEntries = 3
    Ulids <- MCUlids
    EntryNumbers <- MCEntryNumbers
    Filters <- MCFilters

SPECIFICATION Spec

SYMMETRY WriterSymmetry

INVARIANTS
    RowsReadBack
    SqlReadsAsMemory
    OnlyInFlightIsMissed
    IdsResumeAfterPoll

\* Nothing is left to do once the ids and the clock have run out.
CHECK_DEADLOCK FALSE
