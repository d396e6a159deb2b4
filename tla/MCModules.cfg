SPECIFICATION ModulesSpec
CONSTANTS
    a1 = a1
    a2 = a2
    a3 = a3
    m1 = m1
    m2 = m2
    None = None
\* Blocking
    IPs = {a1, a2, a3}
    Protected = {a3}
    TextIn <- TextWithin
    OnInterface = {}
    Leftover = {}
    MayFail = TRUE
    MaxTime = 2
    MaxMsgs = 2
\* ArpPoisoner
    Hosts = {a1, a2, a3}
    Poisonable = {a1, a2}
    Networks <- FirstHost
    RepoisonAfter = 1
    ScanMin = 1
    ScanMax = 2
    Width = 2
    MaxUnits = 4
    MaxPoisonings = 2
\* ArpScans
    ScanKeys = {"p1", "p10"}
    Within <- KeyWithin
    TrustedKeys = {"p10"}
    Addrs = {"d1", "d2"}
    ScanThreshold = 2
    Slack = 0
    OtherScans = 2
    TimerRuns = TRUE
    MaxScanTime = 1
    MaxRequests = 5
\* FlowCounters
    CountKeys = {1, 2}
    QueryNames = {1, 2}
    CountThreshold <- Enough
    Step = 2
    Span <- Spans
    MaxCounted = 5
    MaxClock = 1
\* FlowEvidence
    FlowIPs = {"own", "far", "pub"}
    Where <- EndIs
    Gateway = "own"
    TraitSets <- FlowKinds
    Localnet = TRUE
    P2PConns = 2
    P2PAddrs = 2
    DnsReplies = 2
    UploadLimit = 2
    MaxAnalyzed = 3
\* HttpAnalyzer
    Profiles = {"p", "q"}
    Agents = {"mac1", "mac2", "win", None}
    OSOf <- AgentOS
    Safari <- IsSafari
    ServerBag <- HasServerBag
    Mentions <- MentionsOS
    Vendor <- MacVendor
    FamiliesIn <- MakersIn
    Hints = {"executable"}
    MaxHttpFlows = 4
\* DelayedChecks
    CheckedIPs = {"a"}
    Large <- IsLarge
    Exempt <- Never
    CnameIPs <- NoIPs
    Earlier <- NoIPs
    Window = 2
    DnsWait = 3
    AwaitMain = TRUE
    QueueThreadRuns = TRUE
    Groups <- CheckGroups
    MaxFlowTime = 3
    MaxTasks = 1
\* LocalNetwork
    Macs = {m1, m2}
    V4 = {"a", "b"}
    V6 = {"x", "y"}
    Public = {"b"}
    LocalPeers = {"b"}
    FarFrom <- OtherNetwork
    IgnoredIPs = {"a"}
    MaxCalls = 3
\* ThreatIntel
    IocIPs = {"a1", "a2"}
    Domains = {"d1", "d2", "d3"}
    NeverListed = {"d3"}
    HostIPs = {"a1"}
    FeedIocs = {"a2", "d1"}
    Resolution <- ResolvesTo
    Md5s = {"h1", "h2"}
    Short = {"short"}
    Content <- LocalLines
    Editable = {"own_malicious_iocs", "own_malicious_JARM"}
    MaxVersion = 1
    MaxStarts = 3
    MaxLookups = 1
\* P2PTrust
    Peers = {"p", "q"}
    PeerIPs = {"a", "b"}
    HostProfile = "host"
    OwnIPs = {"b"}
    Scores = {1}
    Named = {1}
    CacheAge = 1
    MaxPeerTime = 1
    MaxPeerMsgs = 3
\* OtDetection
    OtHosts = {"x", "y", "master", "plc1"}
    MessageSets <- MessageGroups
    OtProtected = {"plc1"}
    ModbusMasters = {"master"}
    S7Masters = {}
    FloodThreshold <- Twice
    FloodSpan <- Instant
    MaxOtWindow = 2
    MaxOtTime = 1
    MaxOtMsgs = 3
INVARIANTS TypesOK OneRulePerDirection RecordedIsBlocked EachFlowInOneEvidence ThresholdReported FloodsReported  MacTablesAgree ScanHasItsRequests OpinionsHaveReporters
PROPERTIES FirstAgentStands RecognisedNotReported LoadedListIsExact
CHECK_DEADLOCK FALSE
