SPECIFICATION RegistrySpec

CONSTANTS
    NoKeyId = NoKeyId
    NoIssuer = NoIssuer
    NoPublicKey = NoPublicKey
    DatasetIds = {}
    Nonces = {}
    Profiles = {}
    PackageNames = {}
    i1 = i1
    i2 = i2
    k1 = k1
    k2 = k2
    k3 = k3
    p1 = p1
    root = root
    alice = alice
    IssuerIds = {i1, i2}
    KeyIds = {k1, k2, k3}
    PublicKeys = {p1}
    Accounts = {root, alice}
    MaxTime = 3
    KeyRequests <- AllRequests

SYMMETRY RegistrySymmetry

INVARIANTS
    KeyListIsComplete
    RotationHandsOver
    RotationIsAChain

PROPERTIES
    KeyHistoryIsKept

CHECK_DEADLOCK FALSE
