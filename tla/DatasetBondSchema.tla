-------------------------- MODULE DatasetBondSchema --------------------------
(***************************************************************************)
(* The vocabulary of the DatasetBond contract (contracts/datasetbond.py):  *)
(* the identifiers a caller may use, the status words the contract stores, *)
(* and the shapes of the values the other modules pass around.             *)
(*                                                                         *)
(* Abstractions.  An identifier, a key and an account are members of small *)
(* constant sets, every member of which has already passed the contract's  *)
(* deterministic field validation.  The dataset, license and provenance    *)
(* reference and digest pairs of one package are one value, a package: it  *)
(* says what the committed bytes are, so that "the bytes have the          *)
(* committed digest" is "the committed bytes were served".                 *)
(***************************************************************************)
EXTENDS Integers

CONSTANTS
    DatasetIds,         \* dataset_id arguments
    Nonces,             \* nonce arguments, one namespace for all issuers
    IssuerIds,          \* issuer_id and publisher_identity arguments
    KeyIds,             \* key_id arguments
    PublicKeys,         \* valid secp256k1 x||y points
    NoKeyId,            \* the empty successor_key_id
    NoIssuer,           \* the empty issuer_id, and "linked to no publisher"
    NoPublicKey,        \* the empty public_key
    Profiles,           \* usage profiles
    PackageNames        \* one name per evidence package

ASSUME AbsentIdentifiersAssumption ==
    /\ NoKeyId \notin KeyIds
    /\ NoIssuer \notin IssuerIds
    /\ NoPublicKey \notin PublicKeys

-----------------------------------------------------------------------------
(* Stored status words. *)

CertificateStatus ==
    {"REGISTERED", "CERTIFIED", "NOT_CERTIFIED", "INCONCLUSIVE", "REVOKED"}

IssuerStatus == {"ACTIVE", "REVOKED", "ROTATED"}

IntegrityStatus ==
    {"NOT_EVALUATED", "VERIFIED", "UNAVAILABLE", "INVALID_RESPONSE",
     "DIGEST_MISMATCH"}

AuthenticationStatus ==
    {"NOT_EVALUATED", "AUTHENTICATED", "UNREGISTERED_ISSUER", "REVOKED_ISSUER",
     "ROTATED_KEY", "INVALID_SIGNATURE", "EXPIRED", "NOT_YET_VALID", "REPLAYED",
     "MANIFEST_DIGEST_MISMATCH", "MANIFEST_MISMATCH", "MALFORMED_MANIFEST",
     "CANONICALIZATION_MISMATCH"}

LicenseStatus == {"NOT_EVALUATED", "COMPATIBLE", "INCOMPATIBLE", "INCONCLUSIVE"}

ProvenanceStatus == {"NOT_EVALUATED", "COMPLETE", "INCOMPLETE", "INCONCLUSIVE"}

Verdicts == {"CERTIFIED", "NOT_CERTIFIED", "INCONCLUSIVE"}

NoVerdict == ""

\* The verdicts that end a certification: they consume the nonce.
Conclusive == Verdicts \ {"INCONCLUSIVE"}

-----------------------------------------------------------------------------
(* An evidence package: what the three committed byte strings are.         *)
(*   size       of the bytes against the limit of their source;            *)
(*   utf8       whether they decode;                                       *)
(*   linked_to  the publisher_identity for which the provenance manifest   *)
(*              passes every deterministic check, NoIssuer when it passes  *)
(*              for none;                                                  *)
(*   prompt_fits  whether the assembled prompt is within its limit.        *)

Sizes == {"empty", "within_limit", "oversized"}

Packages ==
    [name        : PackageNames,
     dataset     : [size : Sizes],
     license     : [size : Sizes, utf8 : BOOLEAN],
     provenance  : [size : Sizes, utf8 : BOOLEAN,
                    linked_to : IssuerIds \cup {NoIssuer}],
     prompt_fits : BOOLEAN]

-----------------------------------------------------------------------------
(* The bounded result of one evaluation. *)

Results ==
    [verdict               : Verdicts,
     integrity_status      : IntegrityStatus,
     authentication_status : AuthenticationStatus,
     license_status        : LicenseStatus,
     provenance_status     : ProvenanceStatus]

Result(verdict, integrity, authentication, license, provenance) ==
    [verdict               |-> verdict,
     integrity_status      |-> integrity,
     authentication_status |-> authentication,
     license_status        |-> license,
     provenance_status     |-> provenance]

InconclusiveResult(integrity, authentication, license, provenance) ==
    Result("INCONCLUSIVE", integrity, authentication, license, provenance)

\* What a certificate holds before its first evaluation.
UnevaluatedResult ==
    Result(NoVerdict, "NOT_EVALUATED", "NOT_EVALUATED", "NOT_EVALUATED",
           "NOT_EVALUATED")

-----------------------------------------------------------------------------
\* A storage map with the entry for key set to value (TreeMap item assignment).
Put(map, key, value) ==
    [k \in DOMAIN map \cup {key} |-> IF k = key THEN value ELSE map[k]]
=============================================================================
