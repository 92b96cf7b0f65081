CONSTANTS
    s1 = s1
    s2 = s2
    r1 = r1
    r2 = r2
    t1 = t1
    t2 = t2
    USD = USD
    NONE = NONE
    UNSUPPORTED = UNSUPPORTED
    Sessions <- MCSessions
    Runs <- MCRuns
    Tags <- MCTags
    Currencies <- MCCurrencies
    Instants <- MCInstants
    TicksPerDay = 1
    Debits <- MCTwoDebits
    DeclaredRuns <- MCDeclared
    CeilingSets <- MCCeilingSets
    WindowOrder <- MCWindowOrder
    Dialect = "postgresql"
    MaxEntries = 2
    EntryIds <- MCEntryIds

SPECIFICATION Spec

INVARIANT
    VerdictsAreSnapshots
