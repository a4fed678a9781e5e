SPECIFICATION Spec

CONSTANTS
    d1 = d1
    d2 = d2
    n1 = n1
    n2 = n2
    i1 = i1
    i2 = i2
    k1 = k1
    k2 = k2
    p1 = p1
    p2 = p2
    research = research
    pkg = pkg
    NoKeyId = NoKeyId
    NoIssuer = NoIssuer
    NoPublicKey = NoPublicKey
    DatasetIds = {d1, d2}
    Nonces = {n1, n2}
    IssuerIds = {i1, i2}
    KeyIds = {k1, k2}
    PublicKeys = {p1, p2}
    Profiles = {research}
    PackageNames = {pkg}
    root = root
    alice = alice
    Accounts = {root, alice}
    Times = {0, 1, 2}
    MAX_SIGNATURE_LIFETIME = 1
    MaxTime = 2
    MAX_CERTIFICATION_ATTEMPTS = 1
    KeyRequests <- RotationRequests
    Calls <- RotationCalls
    Observations <- RotationObservations

SYMMETRY AccountSymmetry

INVARIANTS
    ConcludedWasAuthentic
    RefusalHadCause

PROPERTIES
    VerdictNeedsActiveKey

CHECK_DEADLOCK FALSE
