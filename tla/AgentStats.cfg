SPECIFICATION Spec
CONSTANTS
    Scraper = {scraper}
    Pinger = {pinger}
    Interval = 1
    StaleAfterIntervals = 2
    MinFreshness = 1
    MaxSamples = 3
    MaxReconnects = 1
    MaxClients = 1
INVARIANTS
    TypeOK
    ScrapeIsOfOneMoment
    AgeFitsCount
    CountIsCurrent
