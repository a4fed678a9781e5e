SPECIFICATION CallSpec

CONSTANTS
    d1 = d1
    n1 = n1
    i1 = i1
    k1 = k1
    p1 = p1
    research = research
    pkg = pkg
    root = root
    leader = leader
    v1 = v1
    v2 = v2
    NoKeyId = NoKeyId
    NoIssuer = NoIssuer
    NoPublicKey = NoPublicKey
    DatasetIds = {d1}
    Nonces = {n1}
    IssuerIds = {i1}
    KeyIds = {k1}
    PublicKeys = {p1}
    Profiles = {research}
    PackageNames = {pkg}
    Accounts = {root}
    Times = {0, 1}
    MAX_SIGNATURE_LIFETIME = 1
    MaxTime = 1
    MAX_CERTIFICATION_ATTEMPTS = 1
    KeyRequests <- OneRequest
    Calls <- OneCall
    Observations <- RoundObservations
    Leader = leader
    Validators = {v1, v2}
    Faulty = {leader}
    Quorum = 2
    WebResponses = {"committed", "not_200"}
    ModelAnswers = {"CERTIFIED", "malformed"}
    Forgeries <- TwoForgeries

PROPERTIES
    RefinesContract
    VerdictOnFetchedEvidence
    CallEnds

CHECK_DEADLOCK FALSE
