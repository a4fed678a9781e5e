---------------------------- MODULE FieldValidation ----------------------------
(***************************************************************************)
(* The deterministic checks of text arguments: identifiers, digests and    *)
(* public keys (_require_text and the _validate_* helpers), and of the     *)
(* signature inside a manifest.  The other modules start from values that  *)
(* have passed them.                                                       *)
(*                                                                         *)
(* A text is a sequence of characters, each standing for its class:        *)
(*   "a" "g" "0" ":"   a hexadecimal letter, another lowercase letter, a   *)
(*                     digit, a mark of identifiers                        *)
(*   "LF"              a line feed, which _CONTROL_RE leaves out           *)
(*   "NUL"             a control character it finds                        *)
(*   "A"               anything else: capitals, blanks, tabs               *)
(* Whether a public key of the right shape is a point is in Secp256k1.     *)
(***************************************************************************)
EXTENDS Sequences, Integers

CONSTANTS
    MAX_ID_LEN,
    MAX_DIGEST_LEN,             \* also the 64 of _SHA256_RE
    MAX_PUBLIC_KEY_HEX_LEN,     \* also the 128 of _KEY_HEX_RE
    SignatureHexLen,            \* the 128 of _SIGNATURE_HEX_RE
    NotText,                    \* an argument that is no string
    Values                      \* the arguments callers pass

Characters == {"a", "g", "0", ":", "LF", "NUL", "A"}

ASSUME LimitsAssumption ==
    {MAX_ID_LEN, MAX_DIGEST_LEN, MAX_PUBLIC_KEY_HEX_LEN, SignatureHexLen}
        \subseteq Nat \ {0}

ASSUME NotTextAssumption == NotText \notin Seq(Characters)

ASSUME ValuesAssumption == \A v \in Values \ {NotText} : v \in Seq(Characters)

VARIABLES field, value, status

validationVars == <<field, value, status>>

Fields == {"identifier", "sha256", "public_key", "signature"}

-----------------------------------------------------------------------------
CharactersOf(text) == {text[i] : i \in DOMAIN text}

\* Mutant: the limit is off by one.
RequireTextBelow(v, limit) ==
    /\ v # NotText
    /\ v # << >>
    /\ Len(v) < limit
    /\ "NUL" \notin CharactersOf(v)

\* Mutant: the limit is left to the pattern.
RequireAnyText(v, limit) ==
    /\ v # NotText
    /\ v # << >>
    /\ "NUL" \notin CharactersOf(v)

\* A string, not empty, within its limit, without control characters.
RequireText(v, limit) ==
    /\ v # NotText
    /\ v # << >>
    /\ Len(v) <= limit
    /\ "NUL" \notin CharactersOf(v)

\* [a-z][a-z0-9._:-]{0,95}
IsIdentifier(text) ==
    /\ Len(text) \in 1..MAX_ID_LEN
    /\ text[1] \in {"a", "g"}
    /\ CharactersOf(text) \subseteq {"a", "g", "0", ":"}

\* [0-9a-f]{width}
IsLowerHex(text, width) == Len(text) = width /\ CharactersOf(text) \subseteq {"a", "0"}

\* $ matches at the end of a text, and before a line feed that ends it.
BeforeDollar(text) ==
    {text} \cup
    (IF text # << >> /\ text[Len(text)] = "LF"
     THEN {SubSeq(text, 1, Len(text) - 1)} ELSE {})

ValidateIdentifier(v) ==
    RequireText(v, MAX_ID_LEN) /\ \E text \in BeforeDollar(v) : IsIdentifier(text)

ValidateSha256(v) ==
    /\ RequireText(v, MAX_DIGEST_LEN)
    /\ \E text \in BeforeDollar(v) : IsLowerHex(text, MAX_DIGEST_LEN)

ValidatePublicKey(v) ==
    /\ RequireText(v, MAX_PUBLIC_KEY_HEX_LEN)
    /\ \E text \in BeforeDollar(v) : IsLowerHex(text, MAX_PUBLIC_KEY_HEX_LEN)

\* In _parse_inline_manifest: the pattern alone, and no limit.
ValidateManifestSignature(v) ==
    v # NotText /\ \E text \in BeforeDollar(v) : IsLowerHex(text, SignatureHexLen)

IsAccepted(f, v) ==
    CASE f = "identifier" -> ValidateIdentifier(v)
      [] f = "sha256"     -> ValidateSha256(v)
      [] f = "public_key" -> ValidatePublicKey(v)
      [] f = "signature"  -> ValidateManifestSignature(v)

-----------------------------------------------------------------------------
FieldInit ==
    /\ field \in Fields
    /\ value \in Values
    /\ status = "unchecked"

Validate ==
    /\ status = "unchecked"
    /\ status' = IF IsAccepted(field, value) THEN "accepted" ELSE "refused"
    /\ UNCHANGED <<field, value>>

FieldSpec == FieldInit /\ [][Validate]_validationVars

-----------------------------------------------------------------------------
\* The number of characters a field is documented to have.
Width(f) ==
    CASE f = "sha256"     -> MAX_DIGEST_LEN
      [] f = "public_key" -> MAX_PUBLIC_KEY_HEX_LEN
      [] f = "signature"  -> SignatureHexLen

\* What docs/SCHEMA.md says a field is.
IsDocumented(f, v) ==
    /\ v # NotText
    /\ IF f = "identifier" THEN IsIdentifier(v) ELSE IsLowerHex(v, Width(f))

(* Digests and public keys, which are compared as texts and cut at fixed   *)
(* places, have their exact width: the line feed that $ lets by never fits *)
(* under the length limit.                                                 *)
FixedWidthIsExact ==
    status = "accepted" /\ field \in {"sha256", "public_key"} =>
        IsDocumented(field, value)

(* Limits and patterns agree: no documented value is refused, up to the    *)
(* longest identifier.                                                     *)
DocumentedIsAccepted == status = "refused" => ~IsDocumented(field, value)

(* What is accepted is what docs/SCHEMA.md describes: an identifier of the *)
(* pattern (40-41), a signature of 128 lowercase hexadecimal characters    *)
(* (52).  The code accepts both with one line feed at the end: $ lets it   *)
(* by, and the limit of identifiers leaves it room, while no limit goes    *)
(* with the pattern of signatures.                                         *)
AcceptedIsDocumented == status = "accepted" => IsDocumented(field, value)
=============================================================================
