CONSTANTS
    in1 = in1
    out1 = out1
    out2 = out2
    r1 = r1
    r2 = r2
    n1 = n1
    n2 = n2
    Plugins = {in1, out1, out2}
    OutOfProcess = {out1, out2}
    Requests = {r1, r2}
    Ports = {n1}
    Nobody = Nobody
    Stranger = Stranger
    BootPolls = 2
    MaxActive = 1
SPECIFICATION FairSpec
INVARIANTS
    ProxyMeansActive
PROPERTIES
    ImplementsOneShot
    EveryRequestAnswered
