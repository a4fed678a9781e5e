SPECIFICATION FieldSpec

CONSTANTS
    NotText = NotText
    MAX_ID_LEN = 3
    MAX_DIGEST_LEN = 2
    MAX_PUBLIC_KEY_HEX_LEN = 3
    SignatureHexLen = 3
    Values <- ShortTexts

INVARIANTS
    AcceptedIsDocumented

CHECK_DEADLOCK FALSE
