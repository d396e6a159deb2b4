SPECIFICATION FeedSpec
CONSTANTS
    f = f
    g = g
    t1 = t1
    t2 = t2
    t3 = t3
    Feeds = {f, g}
    Configs = {}
    Timers = {t1, t2, t3}
    Indicators = {"f0", "f1", "fd", "h", "rd"}
    Kind <- IocKind
    Format <- FeedFormat
    Lines <- Listing
    NameIn <- SameName
    RiskSource = "RiskIQ"
    RiskDomains = {"rd"}
    FitsBase = FALSE
    Unreliable = {}
    MaxFeedVersion = 1
    MaxPeriods = 2
    MaxRestarts = 0
    None = None
PROPERTY FeedsGetLoaded
CHECK_DEADLOCK FALSE
