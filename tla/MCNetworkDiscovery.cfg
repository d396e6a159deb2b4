SPECIFICATION Spec
CONSTANTS
    h1 = h1
    h2 = h2
    h3 = h3
    p1 = p1
    p2 = p2
    p3 = p3
    a1 = a1
    a2 = a2
    Hosts = {h1, h2}
    Ports = {p1, p2, p3}
    Flows <- MCFlows
    Flipped <- MCFlipped
    Resolved = {h2}
    Addrs = {a1, a2}
    NoAddr = NoAddr
    NoFlow = NoFlow
    Minimum = 1
    Growth = 2
    MinimumFlows = 2
    MinimumHosts = 2
    MinimumAddrs = 2
    MaxFlows = 3
    MaxUnread = 2
    MaxRequests = 1
SYMMETRY MCSymmetry
INVARIANTS ScansReported DhcpEvidenceEveryFour
PROPERTIES EvidenceGrows
