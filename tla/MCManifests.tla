----------------------------- MODULE MCManifests -----------------------------
(***************************************************************************)
(* Packages, manifests and calls for the small instances.                  *)
(***************************************************************************)
EXTENDS SignedManifest

CONSTANTS i1, research, pkg

\* A package whose bytes are all in order and linked to publisher i1.
SoundPackage ==
    [name        |-> pkg,
     dataset     |-> [size |-> "within_limit"],
     license     |-> [size |-> "within_limit", utf8 |-> TRUE],
     provenance  |-> [size |-> "within_limit", utf8 |-> TRUE, linked_to |-> i1],
     prompt_fits |-> TRUE]

\* A manifest for dataset d naming key k, valid from issued_at for one second.
UnsignedFor(d, n, k, issued_at) ==
    [nonce |-> n, manifest_version |-> "2", dataset_id |-> d,
     package |-> SoundPackage, usage_profile |-> research,
     publisher_identity |-> i1, key_id |-> k,
     issued_at |-> issued_at, expires_at |-> issued_at + 1,
     signature_algorithm |-> "SECP256K1_ECDSA_SHA256"]

SignedBy(signer, unsigned) ==
    Sealed(unsigned,
           [well_formed |-> TRUE, signer |-> signer, over |-> unsigned])

\* The call a client builds from a signed manifest (registration_call).
CallWith(manifest) ==
    LET text == CanonicalJson(manifest)
        u == manifest.unsigned
    IN  [dataset_id |-> u.dataset_id, package |-> u.package,
         evidence_manifest |-> text, evidence_manifest_sha256 |-> Sha256(text),
         nonce |-> u.nonce, publisher_identity |-> u.publisher_identity,
         key_id |-> u.key_id, usage_profile |-> u.usage_profile]
=============================================================================
