SPECIFICATION GateSpec

CONSTANTS
    d1 = d1
    d2 = d2
    n1 = n1
    n2 = n2
    i1 = i1
    k1 = k1
    p1 = p1
    research = research
    training = training
    pkg = pkg
    root = root
    client = client
    NoKeyId = NoKeyId
    NoIssuer = NoIssuer
    NoPublicKey = NoPublicKey
    DatasetIds = {d1, d2}
    Nonces = {n1, n2}
    IssuerIds = {i1}
    KeyIds = {k1}
    PublicKeys = {p1}
    Profiles = {research, training}
    PackageNames = {pkg}
    Accounts = {root}
    Times = {0, 1, 2}
    MAX_SIGNATURE_LIFETIME = 1
    MaxTime = 1
    MAX_CERTIFICATION_ATTEMPTS = 2
    KeyRequests <- GateRequests
    Calls <- GateCalls
    Observations <- GateObservations
    Consumers = {client}
    ExpectedProfile <- WantsResearch

INVARIANTS
    HeldIsHistory
    AcceptedWasCertified
    RefusedForAReason

CHECK_DEADLOCK FALSE
