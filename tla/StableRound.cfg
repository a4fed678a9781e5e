SPECIFICATION RoundSpec

CONSTANTS
    NoKeyId = NoKeyId
    NoIssuer = NoIssuer
    NoPublicKey = NoPublicKey
    d1 = d1
    n1 = n1
    i1 = i1
    i2 = i2
    k1 = k1
    p1 = p1
    p2 = p2
    research = research
    pkg = pkg
    leader = leader
    v1 = v1
    v2 = v2
    v3 = v3
    DatasetIds = {d1}
    Nonces = {n1}
    IssuerIds = {i1, i2}
    KeyIds = {k1}
    PublicKeys = {p1, p2}
    Profiles = {research}
    PackageNames = {pkg}
    Times = {0, 1, 2}
    MAX_SIGNATURE_LIFETIME = 1
    Leader = leader
    Validators = {v1, v2, v3}
    Quorum = 2
    Faulty = {}
    WebResponses = {"committed"}
    ModelAnswers = {"NOT_CERTIFIED"}
    Forgeries = {}
    RoundSnapshots <- AllSnapshots

PROPERTIES
    StableWorldAgrees

CHECK_DEADLOCK FALSE
