CONSTANTS
    rd = rd
    r1 = r1
    r2 = r2
    t1 = t1
    USD = USD
    NONE = NONE
    UNSUPPORTED = UNSUPPORTED
    Readers <- MCReaders
    Runs <- MCRuns
    Tags <- MCTags
    Currencies <- MCCurrencies
    Instants <- MCInstants
    TicksPerDay = 1
    Debits <- MCDebits
    CeilingSets <- MCCeilingSets
    Prospects <- MCProspects
    ReportsEvery = TRUE
    MaxEntries = 3
    HistoryLengths <- MCLengths

SPECIFICATION ReadSpec

INVARIANTS
    ReadTypeOK
    AnswerIsBracketed
    CleanCountMeansCleanSum
