SPECIFICATION DiscoverySpec
CONSTANTS
    Calls = {k1, k2}
    Buckets = {b1}
    Clusters = {c1, c2}
    Nodes = {n1, n2}
    Urls = {u1, u2}
    Configured = {u1, u2}
    None = None
    Missing = Missing
    MaxStarts = 3
    MaxChanges = 2
SYMMETRY Symmetry
INVARIANTS
    NodesOfOneMoment
    MissingIsNotKept
CHECK_DEADLOCK FALSE
