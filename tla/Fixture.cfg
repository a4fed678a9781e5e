SPECIFICATION FixtureSpec

CONSTANTS
    d1 = d1
    n1 = n1
    i1 = i1
    k1 = k1
    p1 = p1
    p2 = p2
    research = research
    pkg = pkg
    NoKeyId = NoKeyId
    NoIssuer = NoIssuer
    NoPublicKey = NoPublicKey
    DatasetIds = {d1}
    Nonces = {n1}
    IssuerIds = {i1}
    KeyIds = {k1}
    PublicKeys = {p1, p2}
    Profiles = {research}
    PackageNames = {pkg}
    Times = {0, 1, 2}
    MAX_SIGNATURE_LIFETIME = 1
    MAX_TRANSFORMATIONS = 2
    MaxTime = 2
    Fixtures <- OnePackageEach
    HostResponses = {"committed", "raised", "broken_off"}
    ModelAnswers = {"CERTIFIED", "malformed"}

INVARIANTS
    PassedIsEvaluated

PROPERTIES
    ValidatorEnds
