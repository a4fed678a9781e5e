----------------------------- MODULE DatasetBond -----------------------------
(***************************************************************************)
(* The whole contract, class DatasetBond: the issuer registry, and the     *)
(* certificates with their life cycle                                      *)
(*   register_dataset, certify_dataset, revoke_certificate.                *)
(*                                                                         *)
(* certify_dataset runs in two steps.  CertifyBegin is the code before     *)
(* gl.vm.run_nondet: the guards, and the reads of storage that the leader  *)
(* and the validators are given.  CertifyCommit is the code after it: the  *)
(* agreed result is checked and written.  ConsensusFails ends the call     *)
(* with nothing written, when the round raises.  Between the two, time     *)
(* passes and hosts change what they serve.                                *)
(*                                                                         *)
(* External: GenVM executes the transactions of one contract one at a      *)
(* time, so no other writing call starts while one is in flight            *)
(* (NoCallInFlight); and a round that agrees, agrees on the result of an   *)
(* honest evaluation of the snapshot.                                      *)
(***************************************************************************)
EXTENDS IssuerRegistry, PackageEvaluation, FiniteSets

CONSTANTS
    Calls,                        \* the register_dataset argument lists in play
    Observations,                 \* [served, answer]: what a round may observe
    MAX_CERTIFICATION_ATTEMPTS

ASSUME CallsAssumption == Calls \subseteq Submissions

ASSUME ObservationsAssumption ==
    Observations \subseteq [served : [Sources -> Responses], answer : Answers]

ASSUME AttemptLimitAssumption == MAX_CERTIFICATION_ATTEMPTS \in Nat \ {0}

VARIABLES
    certificates,       \* TreeMap: dataset_id -> Certificate
    certificate_ids,    \* DynArray: dataset ids in registration order
    used_nonces,        \* TreeMap: nonce -> the dataset_id that consumed it
    in_flight           \* the snapshot of the certify_dataset call being run

certificateVars == <<certificates, certificate_ids, used_nonces>>
vars == <<trust_root, issuer_keys, issuer_key_ids, now,
          certificates, certificate_ids, used_nonces, in_flight>>

-----------------------------------------------------------------------------
(* certification_record: what was written about the latest evaluation.     *)
(* Every field in it is bounded, so the size check on it never fires.      *)
Records ==
    [dataset_id               : DatasetIds,
     package                  : Packages,
     evidence_manifest_sha256 : Digests,
     nonce                    : Nonces,
     usage_profile            : Profiles,
     result                   : Results,
     evaluated_at             : Nat,
     attempt                  : Nat]

Certificates ==
    [commitment           : Commitments,
     submitter            : Accounts,
     registered_at        : Nat,
     evaluated_at         : Nat,
     revoked_at           : Nat,
     status               : CertificateStatus,
     result               : Results \cup {UnevaluatedResult},
     attempts             : 0..MAX_CERTIFICATION_ATTEMPTS,
     certification_record : Seq(Records)]    \* at most one

NewCertificate(sender, call) ==
    [commitment           |-> CommitmentOf(call),
     submitter            |-> sender,
     registered_at        |-> now,
     evaluated_at         |-> 0,
     revoked_at           |-> 0,
     status               |-> "REGISTERED",
     result               |-> UnevaluatedResult,
     attempts             |-> 0,
     certification_record |-> << >>]

RecordOf(commitment, result, evaluated_at, attempt) ==
    [dataset_id               |-> commitment.dataset_id,
     package                  |-> commitment.package,
     evidence_manifest_sha256 |-> commitment.evidence_manifest_sha256,
     nonce                    |-> commitment.nonce,
     usage_profile            |-> commitment.usage_profile,
     result                   |-> result,
     evaluated_at             |-> evaluated_at,
     attempt                  |-> attempt]

\* Mutant: the record is numbered before the attempt is counted.
EvaluatedOneBehind(c, result, at) ==
    [c EXCEPT !.status = result.verdict,
              !.result = result,
              !.evaluated_at = at,
              !.attempts = c.attempts + 1,
              !.certification_record =
                  <<RecordOf(c.commitment, result, at, c.attempts)>>]

\* Mutant: the evaluation is dated when it is written, not when it began.
EvaluatedAtCommit(c, result, at) ==
    [c EXCEPT !.status = result.verdict,
              !.result = result,
              !.evaluated_at = now,
              !.attempts = c.attempts + 1,
              !.certification_record =
                  <<RecordOf(c.commitment, result, now, c.attempts + 1)>>]

\* A certificate after one evaluation that ran at time at.
Evaluated(c, result, at) ==
    [c EXCEPT !.status = result.verdict,
              !.result = result,
              !.evaluated_at = at,
              !.attempts = c.attempts + 1,
              !.certification_record =
                  <<RecordOf(c.commitment, result, at, c.attempts + 1)>>]

\* Mutant: a registered key counts as ACTIVE.
SnapshotIgnoringStatus(c) ==
    LET k == c.commitment.key_id
        registered == k \in DOMAIN issuer_keys
    IN  [commitment     |-> c.commitment,
         now            |-> now,
         issuer_status  |-> IF registered THEN "ACTIVE" ELSE NoIssuerStatus,
         issuer_id      |-> IF registered THEN issuer_keys[k].issuer_id
                                          ELSE NoIssuer,
         public_key     |-> IF registered THEN issuer_keys[k].public_key
                                          ELSE NoPublicKey,
         replay_blocked |-> c.commitment.nonce \in DOMAIN used_nonces]

\* What certify_dataset reads before the nondeterministic block.
SnapshotOf(c) ==
    LET k == c.commitment.key_id
        registered == k \in DOMAIN issuer_keys
    IN  [commitment     |-> c.commitment,
         now            |-> now,
         issuer_status  |-> IF registered THEN issuer_keys[k].status
                                          ELSE NoIssuerStatus,
         issuer_id      |-> IF registered THEN issuer_keys[k].issuer_id
                                          ELSE NoIssuer,
         public_key     |-> IF registered THEN issuer_keys[k].public_key
                                          ELSE NoPublicKey,
         replay_blocked |-> c.commitment.nonce \in DOMAIN used_nonces]

NoCallInFlight == in_flight = {}

\* Mutant: a NOT_CERTIFIED dataset may be certified again.
IsOpenOrRejected(c) == c.status \notin {"CERTIFIED", "REVOKED"}

IsOpen(c) == c.status \notin {"CERTIFIED", "NOT_CERTIFIED", "REVOKED"}

\* Mutant: one evaluation too many.
HasReachedLimit(c) == c.attempts <= MAX_CERTIFICATION_ATTEMPTS

HasAttemptsLeft(c) == c.attempts < MAX_CERTIFICATION_ATTEMPTS

\* Mutant: a retry after an inconclusive evaluation finds its nonce used.
ConsumesAlways(verdict) == TRUE

\* Mutant: a NOT_CERTIFIED verdict leaves its nonce to another dataset.
ConsumesIfCertified(verdict) == verdict = "CERTIFIED"

ConsumesNonce(verdict) == verdict # "INCONCLUSIVE"

-----------------------------------------------------------------------------
Init ==
    /\ RegistryInit
    /\ certificates = << >>
    /\ certificate_ids = << >>
    /\ used_nonces = << >>
    /\ in_flight = {}

\* Mutant: DUPLICATE_DATASET_ID is not checked.
RegisterDatasetAgain(sender, call) ==
    /\ ParseInlineManifest(call) = "NOT_EVALUATED"
    /\ certificates' =
         Put(certificates, call.dataset_id, NewCertificate(sender, call))
    /\ certificate_ids' = Append(certificate_ids, call.dataset_id)
    /\ UNCHANGED <<registryVars, used_nonces, in_flight>>

RegisterDataset(sender, call) ==
    /\ call.dataset_id \notin DOMAIN certificates
    /\ ParseInlineManifest(call) = "NOT_EVALUATED"
    /\ certificates' =
         Put(certificates, call.dataset_id, NewCertificate(sender, call))
    /\ certificate_ids' = Append(certificate_ids, call.dataset_id)
    /\ UNCHANGED <<registryVars, used_nonces, in_flight>>

\* A registration, as one of the contract's serialised transactions.
SubmitDataset ==
    /\ NoCallInFlight
    /\ \E sender \in Accounts, call \in Calls : RegisterDataset(sender, call)

\* certify_dataset up to gl.vm.run_nondet.
CertifyBegin(d) ==
    /\ NoCallInFlight
    /\ d \in DOMAIN certificates
    /\ IsOpen(certificates[d])
    /\ HasAttemptsLeft(certificates[d])
    /\ in_flight' = {SnapshotOf(certificates[d])}
    /\ UNCHANGED <<registryVars, certificateVars>>

\* certify_dataset after gl.vm.run_nondet returned result.
CertifyCommit(snapshot, result) ==
    LET d == snapshot.commitment.dataset_id
        c == certificates[d]
    IN  /\ ValidConsensusResult(result)
        /\ certificates' = Put(certificates, d,
                               Evaluated(c, result, snapshot.now))
        /\ used_nonces' = IF ConsumesNonce(result.verdict)
                          THEN Put(used_nonces, c.commitment.nonce, d)
                          ELSE used_nonces
        /\ in_flight' = in_flight \ {snapshot}
        /\ UNCHANGED <<registryVars, certificate_ids>>

\* The round ends without agreement, and the transaction writes nothing.
ConsensusFails(snapshot) ==
    /\ in_flight' = in_flight \ {snapshot}
    /\ UNCHANGED <<registryVars, certificateVars>>

\* Mutant: ONLY_CERTIFIED_CERTIFICATE is not checked.
RevokeAnyCertificate(sender, d) ==
    /\ NoCallInFlight
    /\ d \in DOMAIN certificates
    /\ sender = certificates[d].submitter
    /\ certificates' =
         Put(certificates, d, [certificates[d] EXCEPT !.status = "REVOKED",
                                                      !.revoked_at = now])
    /\ UNCHANGED <<registryVars, certificate_ids, used_nonces, in_flight>>

RevokeCertificate(sender, d) ==
    /\ NoCallInFlight
    /\ d \in DOMAIN certificates
    /\ sender = certificates[d].submitter
    /\ certificates[d].status = "CERTIFIED"
    /\ certificates' =
         Put(certificates, d, [certificates[d] EXCEPT !.status = "REVOKED",
                                                      !.revoked_at = now])
    /\ UNCHANGED <<registryVars, certificate_ids, used_nonces, in_flight>>

\* An administrative call, as one of the contract's serialised transactions.
AdministerRegistry ==
    /\ NoCallInFlight
    /\ AdministerKeys
    /\ UNCHANGED <<certificateVars, in_flight>>

\* The clock runs whether or not a call is in flight.
TimePasses == Tick /\ UNCHANGED <<certificateVars, in_flight>>

EndCall ==
    \E snapshot \in in_flight :
        \/ \E o \in Observations :
               CertifyCommit(snapshot,
                             EvaluatePackage(snapshot, o.served, o.answer))
        \/ ConsensusFails(snapshot)

Next ==
    \/ AdministerRegistry
    \/ TimePasses
    \/ SubmitDataset
    \/ \E d \in DatasetIds : CertifyBegin(d)
    \/ EndCall
    \/ \E sender \in Accounts, d \in DatasetIds : RevokeCertificate(sender, d)

Spec == Init /\ [][Next]_vars

-----------------------------------------------------------------------------
TypeOK ==
    /\ RegistryTypeOK
    /\ DOMAIN certificates \subseteq DatasetIds
    /\ certificates \in [DOMAIN certificates -> Certificates]
    /\ certificate_ids \in Seq(DatasetIds)
    /\ DOMAIN used_nonces \subseteq Nonces
    /\ used_nonces \in [DOMAIN used_nonces -> DatasetIds]
    /\ in_flight \subseteq Snapshots

\* The certificate has a final verdict, revoked since or not.
Concluded(c) == c.status \in {"CERTIFIED", "NOT_CERTIFIED", "REVOKED"}

(* The certificate list that get_certificates walks names every            *)
(* certificate exactly once, and each is filed under its own identifier.   *)
CertificateListIsComplete ==
    /\ \A d \in DOMAIN certificates :
         /\ \E i \in DOMAIN certificate_ids : certificate_ids[i] = d
         /\ certificates[d].commitment.dataset_id = d
    /\ \A i, j \in DOMAIN certificate_ids :
         /\ certificate_ids[i] \in DOMAIN certificates
         /\ certificate_ids[i] = certificate_ids[j] => i = j

(* A signed nonce yields one final verdict in the life of the contract,    *)
(* however many datasets were registered with it.                          *)
NonceSingleUse ==
    \A d, e \in DOMAIN certificates :
        /\ Concluded(certificates[d])
        /\ Concluded(certificates[e])
        /\ certificates[d].commitment.nonce = certificates[e].commitment.nonce
        => d = e

(* used_nonces is exactly the final verdicts: an entry names a dataset     *)
(* concluded with that nonce, and every concluded dataset has its entry.   *)
(* An INCONCLUSIVE evaluation leaves its nonce free for the retry.         *)
NonceLedgerIsExact ==
    /\ \A n \in DOMAIN used_nonces :
         /\ used_nonces[n] \in DOMAIN certificates
         /\ Concluded(certificates[used_nonces[n]])
         /\ certificates[used_nonces[n]].commitment.nonce = n
    /\ \A d \in DOMAIN certificates :
         Concluded(certificates[d]) =>
           /\ certificates[d].commitment.nonce \in DOMAIN used_nonces
           /\ used_nonces[certificates[d].commitment.nonce] = d

(* The manifest rebuilt from the stored fields has the committed digest,   *)
(* so that certification re-checks the object that was registered.         *)
StoredManifestIsExact ==
    \A d \in DOMAIN certificates : DigestMatches(certificates[d].commitment)

(* Every final verdict rests on an authentic manifest, and storage still   *)
(* shows it whatever was revoked or rotated since: the key belongs to the  *)
(* publisher, was registered and not yet retired at the evaluation, which  *)
(* fell in the signed window, and the signature covers the stored fields.  *)
ConcludedWasAuthentic ==
    \A d \in DOMAIN certificates :
        LET c == certificates[d].commitment
            at == certificates[d].evaluated_at
            key == issuer_keys[c.key_id]
        IN  Concluded(certificates[d]) =>
              /\ c.key_id \in DOMAIN issuer_keys
              /\ key.issuer_id = c.publisher_identity
              /\ VerifySecp256k1Sha256(key.public_key, c.signature,
                                       StoredUnsigned(c))
              /\ DigestMatches(c)
              /\ c.issued_at <= at /\ at <= c.expires_at
              /\ key.registered_at <= at
              /\ key.status # "ACTIVE" => at <= key.revoked_at

\* The levels that are decided by what the registered key is.
KeyRefusals ==
    {"MANIFEST_MISMATCH", "REVOKED_ISSUER", "ROTATED_KEY", "INVALID_SIGNATURE"}

(* Every refusal had its cause, and storage still shows it: the nonce      *)
(* belongs to another dataset, the evaluation fell outside the signed      *)
(* window, or the key was at that time not registered, retired, another    *)
(* publisher's, or not the one that signed.  No window is one second too   *)
(* narrow, and no later registration, revocation or rotation of the key    *)
(* makes a refusal look unfounded.                                         *)
RefusalHadCause ==
    \A d \in DOMAIN certificates :
        LET c == certificates[d].commitment
            at == certificates[d].evaluated_at
            level == certificates[d].result.authentication_status
            key == issuer_keys[c.key_id]
        IN  /\ level = "MANIFEST_DIGEST_MISMATCH" => ~DigestMatches(c)
            /\ level = "REPLAYED" => /\ c.nonce \in DOMAIN used_nonces
                                     /\ used_nonces[c.nonce] # d
            /\ level = "NOT_YET_VALID" => at < c.issued_at
            /\ level = "EXPIRED" => at > c.expires_at
            /\ level = "UNREGISTERED_ISSUER" /\ c.key_id \in DOMAIN issuer_keys =>
                 at <= key.registered_at
            /\ level \in KeyRefusals =>
                 c.key_id \in DOMAIN issuer_keys /\ key.registered_at <= at
            /\ level = "MANIFEST_MISMATCH" => key.issuer_id # c.publisher_identity
            /\ level = "REVOKED_ISSUER" => key.status = "REVOKED" /\ key.revoked_at <= at
            /\ level = "ROTATED_KEY" => key.status = "ROTATED" /\ key.revoked_at <= at
            /\ level = "INVALID_SIGNATURE" =>
                 ~VerifySecp256k1Sha256(key.public_key, c.signature, StoredUnsigned(c))

(* certification_record is the latest evaluation and nothing else: it      *)
(* agrees with the stored levels, time and attempt count, survives         *)
(* revocation, and is absent exactly before the first evaluation.          *)
RecordMatchesCertificate ==
    \A d \in DOMAIN certificates :
        LET c == certificates[d] IN
        /\ c.attempts = 0 <=> c.status = "REGISTERED"
        /\ c.certification_record =
             IF c.attempts = 0 THEN << >>
             ELSE <<RecordOf(c.commitment, c.result, c.evaluated_at, c.attempts)>>

(* The stored levels explain the status: a consumer that reads CERTIFIED   *)
(* (or a certificate revoked from it) also reads VERIFIED, AUTHENTICATED,  *)
(* COMPATIBLE and COMPLETE, and no other status ever shows all four.       *)
LevelsExplainStatus ==
    \A d \in DOMAIN certificates :
        LET c == certificates[d] IN
        c.status \in {"CERTIFIED", "REVOKED"} <=>
          /\ c.result.integrity_status = "VERIFIED"
          /\ c.result.authentication_status = "AUTHENTICATED"
          /\ c.result.license_status = "COMPATIBLE"
          /\ c.result.provenance_status = "COMPLETE"

\* A registered commitment never changes; a final verdict is only revoked.
KeepsOutcomes ==
    \A d \in DOMAIN certificates :
        LET c == certificates[d]
            new == certificates'[d]
        IN  /\ d \in DOMAIN certificates'
            /\ new.commitment = c.commitment
            /\ new.submitter = c.submitter
            /\ Concluded(c) =>
                 \/ new = c
                 \/ /\ c.status = "CERTIFIED"
                    /\ new = [c EXCEPT !.status = "REVOKED",
                                       !.revoked_at = new.revoked_at]

(* No step rewrites history: a registered commitment never changes, and    *)
(* once a verdict is final the only change is CERTIFIED to REVOKED, which  *)
(* keeps the verdict, the levels, the record and the evaluation time.      *)
OutcomeIsFinal == [][KeepsOutcomes]_vars

ConcludesWithActiveKey ==
    \A d \in DOMAIN certificates :
        LET c == certificates[d] IN
        ~Concluded(c) /\ Concluded(certificates'[d]) =>
           /\ IsActiveKey(c.commitment.key_id)
           /\ c.commitment.nonce \notin DOMAIN used_nonces

(* A verdict becomes final only in a step in which its key is ACTIVE and   *)
(* its nonce unused: a key revoked or rotated, or a nonce consumed, since  *)
(* the registration or an earlier evaluation means no verdict.  That       *)
(* nothing of the kind happens during a round is the platform's doing      *)
(* (NoCallInFlight).                                                       *)
VerdictNeedsActiveKey == [][ConcludesWithActiveKey]_vars
=============================================================================
