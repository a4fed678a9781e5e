SPECIFICATION HelpersSpec

CONSTANTS
    NotText = NotText
    MAX_ID_LEN = 3
    MAX_DIGEST_LEN = 2
    MAX_PUBLIC_KEY_HEX_LEN = 3
    SignatureHexLen = 3
    Values <- ShortTexts
    References <- AllReferences
    TicksPerSecond = 3
    SecondsPerDay = 3
    Offsets <- TwoSecondsEitherWay
    issued_at = 2
    expires_at = 4
    FirstInstant <- BeforeTheEpoch
    LastInstant = 20
    P = 43
    N = 31
    Generator <- BasePoint
    PublicKeys <- SomeKeys
    Digests <- SomeDigests
    Scalars <- ScalarsPastTheOrder
    Evidence <- ShortEvidence

INVARIANTS
    FixedWidthIsExact
    DocumentedIsAccepted
    KnownHostsArePinned
    PassedIsAccepted
    DocumentedFormIsAccepted
    SecondsAreElapsed
    WindowIsHonoured
    VerifierTypeOK
    MultiplicationIsExact
    VerdictIsExact
    FencesAreExact

PROPERTIES
    ClockNeverRunsBack
    VerificationEnds

CHECK_DEADLOCK FALSE
