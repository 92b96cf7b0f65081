CONSTANTS
    s1 = s1
    s2 = s2
    r1 = r1
    r2 = r2
    t1 = t1
    USD = USD
    NONE = NONE
    UNSUPPORTED = UNSUPPORTED
    Sessions = {s1, s2}
    Runs <- MCRuns
    Tags <- MCTags
    Currencies <- MCCurrencies
    Instants <- MCInstants
    TicksPerDay = 1
    Debits <- MCDebits
    DeclaredRuns <- NoRunKnown
    KnownRuns <- MCKnownRuns
    CeilingSets <- MCCeilingSets
    WindowOrder <- MCWindowOrder
    Dialect = "postgresql"
    MaxEntries = 3
    EntryIds <- MCEntryIds

SPECIFICATION HostFairSpec

\* Two hosts may wait for each other; and once the ids are used up nothing is left to do.
CHECK_DEADLOCK FALSE

INVARIANTS
    HostTypeOK
    BooksMatchEntries
    VerdictsFollowHistory

PROPERTIES
    QueuingHostsNeverCycle
    QueuingHostsReturn
