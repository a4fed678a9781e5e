---------------------------- MODULE SignedManifest ----------------------------
(***************************************************************************)
(* The inline signed manifest: how registration parses it and binds it to  *)
(* the call's arguments (_parse_inline_manifest), how certification        *)
(* rebuilds it from the stored fields (_stored_manifest) and authenticates *)
(* it (_authenticate_stored_manifest).                                     *)
(*                                                                         *)
(* Abstractions.  A JSON text is its encoding and the object it encodes,   *)
(* and SHA-256 is injective on texts.  A signature over an unsigned object *)
(* verifies under exactly the key that made it.  What the contract checks  *)
(* of the spelling of a number is kept: Python's == equates the JSON       *)
(* numbers 2 and 2.0, canonical JSON does not.                             *)
(***************************************************************************)
EXTENDS DatasetBondSchema

CONSTANTS
    MAX_SIGNATURE_LIFETIME,     \* seconds between issued_at and expires_at
    Times                       \* the times a manifest may carry

ASSUME TimesAssumption == Times \subseteq Int

-----------------------------------------------------------------------------
(* The objects and texts a caller may submit. *)

UnsignedManifests ==
    [nonce               : Nonces,
     manifest_version    : {"2", "2.0", "1"},
     dataset_id          : DatasetIds,
     package             : Packages,
     usage_profile       : Profiles,
     publisher_identity  : IssuerIds,
     key_id              : KeyIds,
     issued_at           : Times,
     expires_at          : Times,
     signature_algorithm : {"SECP256K1_ECDSA_SHA256", "OTHER"}]

Signatures ==
    [well_formed : BOOLEAN, signer : PublicKeys, over : UnsignedManifests]

\* An unsigned object with its signature added.
Sealed(unsigned, signature) == [unsigned |-> unsigned, signature |-> signature]

Manifests == [unsigned : UnsignedManifests, signature : Signatures]

\* "malformed": not UTF-8, not JSON, a duplicate key, or not the sixteen keys.
Texts == [encoding : {"canonical", "not_canonical", "malformed"},
          object   : Manifests]

CanonicalJson(object) == [encoding |-> "canonical", object |-> object]

Sha256(text) == [sha256_of |-> text]

Digests == [sha256_of : Texts]

VerifySecp256k1Sha256(public_key, signature, unsigned) ==
    /\ signature.well_formed
    /\ signature.signer = public_key
    /\ signature.over = unsigned

-----------------------------------------------------------------------------
(* What registration commits on chain: every later step reads only this. *)

Commitments ==
    [dataset_id               : DatasetIds,
     package                  : Packages,
     evidence_manifest_sha256 : Digests,
     nonce                    : Nonces,
     publisher_identity       : IssuerIds,
     key_id                   : KeyIds,
     usage_profile            : Profiles,
     issued_at                : Times,
     expires_at               : Times,
     signature                : Signatures]

(* The arguments of one register_dataset call. *)

Submissions ==
    [dataset_id               : DatasetIds,
     package                  : Packages,
     evidence_manifest        : Texts,
     evidence_manifest_sha256 : Digests,
     nonce                    : Nonces,
     publisher_identity       : IssuerIds,
     key_id                   : KeyIds,
     usage_profile            : Profiles]

\* The object's fields equal the call's arguments and the contract's constants.
BindsArguments(unsigned, call) ==
    /\ unsigned.nonce = call.nonce
    /\ unsigned.manifest_version \in {"2", "2.0"}   \* both == MANIFEST_VERSION
    /\ unsigned.dataset_id = call.dataset_id
    /\ unsigned.package = call.package
    /\ unsigned.usage_profile = call.usage_profile
    /\ unsigned.publisher_identity = call.publisher_identity
    /\ unsigned.key_id = call.key_id
    /\ unsigned.signature_algorithm = "SECP256K1_ECDSA_SHA256"

\* A window that starts after the epoch, is not empty, and is bounded.
WindowIsBounded(unsigned) ==
    /\ unsigned.issued_at >= 0
    /\ unsigned.expires_at > unsigned.issued_at
    /\ unsigned.expires_at - unsigned.issued_at <= MAX_SIGNATURE_LIFETIME

\* The status registration gives a submitted text; NOT_EVALUATED accepts it.
ParseInlineManifest(call) ==
    LET text     == call.evidence_manifest
        manifest == text.object
    IN  IF text.encoding = "malformed" THEN "MALFORMED_MANIFEST"
        ELSE IF text.encoding # "canonical" THEN "CANONICALIZATION_MISMATCH"
        ELSE IF Sha256(text) # call.evidence_manifest_sha256
             THEN "MANIFEST_DIGEST_MISMATCH"
        ELSE IF ~BindsArguments(manifest.unsigned, call) THEN "MANIFEST_MISMATCH"
        ELSE IF ~WindowIsBounded(manifest.unsigned)
                \/ ~manifest.signature.well_formed
             THEN "MALFORMED_MANIFEST"
        ELSE "NOT_EVALUATED"

\* The committed fields of an accepted call.
CommitmentOf(call) ==
    LET manifest == call.evidence_manifest.object
    IN  [dataset_id               |-> call.dataset_id,
         package                  |-> call.package,
         evidence_manifest_sha256 |-> call.evidence_manifest_sha256,
         nonce                    |-> call.nonce,
         publisher_identity       |-> call.publisher_identity,
         key_id                   |-> call.key_id,
         usage_profile            |-> call.usage_profile,
         issued_at                |-> manifest.unsigned.issued_at,
         expires_at               |-> manifest.unsigned.expires_at,
         signature                |-> manifest.signature]

-----------------------------------------------------------------------------
\* The unsigned part of the manifest rebuilt from the stored fields.
StoredUnsigned(commitment) ==
    [nonce               |-> commitment.nonce,
     manifest_version    |-> "2",
     dataset_id          |-> commitment.dataset_id,
     package             |-> commitment.package,
     usage_profile       |-> commitment.usage_profile,
     publisher_identity  |-> commitment.publisher_identity,
     key_id              |-> commitment.key_id,
     issued_at           |-> commitment.issued_at,
     expires_at          |-> commitment.expires_at,
     signature_algorithm |-> "SECP256K1_ECDSA_SHA256"]

StoredManifest(commitment) ==
    Sealed(StoredUnsigned(commitment), commitment.signature)

DigestMatches(commitment) ==
    Sha256(CanonicalJson(StoredManifest(commitment)))
        = commitment.evidence_manifest_sha256

(* What certify_dataset reads from storage before the nondeterministic     *)
(* block, and hands to the leader and to every validator.                  *)

NoIssuerStatus == "NONE"

Snapshots ==
    [commitment     : Commitments,
     now            : Nat,
     issuer_status  : IssuerStatus \cup {NoIssuerStatus},
     issuer_id      : IssuerIds \cup {NoIssuer},
     public_key     : PublicKeys \cup {NoPublicKey},
     replay_blocked : BOOLEAN]

\* Mutant: a manifest is refused in the last second of its window.
AuthenticateBeforeExpiry(snapshot) ==
    LET c == snapshot.commitment
    IN  IF ~DigestMatches(c) THEN "MANIFEST_DIGEST_MISMATCH"
        ELSE IF snapshot.replay_blocked THEN "REPLAYED"
        ELSE IF snapshot.now < c.issued_at THEN "NOT_YET_VALID"
        ELSE IF snapshot.now >= c.expires_at THEN "EXPIRED"
        ELSE IF snapshot.issuer_status = NoIssuerStatus THEN "UNREGISTERED_ISSUER"
        ELSE IF snapshot.issuer_id # c.publisher_identity THEN "MANIFEST_MISMATCH"
        ELSE IF snapshot.issuer_status = "REVOKED" THEN "REVOKED_ISSUER"
        ELSE IF snapshot.issuer_status = "ROTATED" THEN "ROTATED_KEY"
        ELSE IF snapshot.issuer_status # "ACTIVE" THEN "UNREGISTERED_ISSUER"
        ELSE IF ~VerifySecp256k1Sha256(snapshot.public_key, c.signature,
                                       StoredUnsigned(c))
             THEN "INVALID_SIGNATURE"
        ELSE "AUTHENTICATED"

\* The authentication level: the first of the code's early returns that applies.
AuthenticateStoredManifest(snapshot) ==
    LET c == snapshot.commitment
    IN  IF ~DigestMatches(c) THEN "MANIFEST_DIGEST_MISMATCH"
        ELSE IF snapshot.replay_blocked THEN "REPLAYED"
        ELSE IF snapshot.now < c.issued_at THEN "NOT_YET_VALID"
        ELSE IF snapshot.now > c.expires_at THEN "EXPIRED"
        ELSE IF snapshot.issuer_status = NoIssuerStatus THEN "UNREGISTERED_ISSUER"
        ELSE IF snapshot.issuer_id # c.publisher_identity THEN "MANIFEST_MISMATCH"
        ELSE IF snapshot.issuer_status = "REVOKED" THEN "REVOKED_ISSUER"
        ELSE IF snapshot.issuer_status = "ROTATED" THEN "ROTATED_KEY"
        ELSE IF snapshot.issuer_status # "ACTIVE" THEN "UNREGISTERED_ISSUER"
        ELSE IF ~VerifySecp256k1Sha256(snapshot.public_key, c.signature,
                                       StoredUnsigned(c))
             THEN "INVALID_SIGNATURE"
        ELSE "AUTHENTICATED"
=============================================================================
