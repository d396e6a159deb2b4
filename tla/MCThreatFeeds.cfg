SPECIFICATION FeedSpec
CONSTANTS
    f = f
    g = g
    t1 = t1
    t2 = t2
    t3 = t3
    Feeds = {f, g}
    Configs <- OneFeed
    Timers = {t1, t2, t3}
    Indicators = {"f0", "f1", "fd", "h", "rd"}
    Kind <- IocKind
    Format <- FeedFormat
    Lines <- Listing
    NameIn <- SameName
    RiskSource = "RiskIQ"
    RiskDomains = {"rd"}
    FitsBase = TRUE
    Unreliable = {g}
    MaxFeedVersion = 1
    MaxPeriods = 2
    MaxRestarts = 1
    None = None
SYMMETRY AnyTimer
INVARIANTS FeedTypeOK 
CHECK_DEADLOCK FALSE
