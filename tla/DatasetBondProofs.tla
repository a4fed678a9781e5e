-------------------------- MODULE DatasetBondProofs --------------------------
(***************************************************************************)
(* Proofs about DatasetBond, for every set of identifiers, calls, keys and *)
(* observations, every attempt limit and every bound on time.              *)
(***************************************************************************)
EXTENDS DatasetBondRefinement, IssuerRegistryProofs

-----------------------------------------------------------------------------
(* Certificates, field by field.                                           *)

LEMMA CommitmentTyped ==
    ASSUME NEW call \in Submissions
    PROVE  CommitmentOf(call) \in Commitments
<1>1. call.evidence_manifest \in Texts
  BY DEF Submissions
<1>2. call.evidence_manifest.object \in Manifests
  BY <1>1 DEF Texts
<1>3. /\ call.evidence_manifest.object.unsigned \in UnsignedManifests
      /\ call.evidence_manifest.object.signature \in Signatures
  BY <1>2 DEF Manifests
<1>4. /\ call.evidence_manifest.object.unsigned.issued_at \in Times
      /\ call.evidence_manifest.object.unsigned.expires_at \in Times
  BY <1>3 DEF UnsignedManifests
<1> QED
  BY <1>3, <1>4 DEF CommitmentOf, Commitments, Submissions

LEMMA NewCertificateTyped ==
    ASSUME NEW sender \in Accounts, NEW call \in Submissions, now \in Nat
    PROVE  /\ NewCertificate(sender, call) \in Certificates
           /\ NewCertificate(sender, call).commitment = CommitmentOf(call)
           /\ NewCertificate(sender, call).commitment.dataset_id = call.dataset_id
           /\ NewCertificate(sender, call).status = "REGISTERED"
           /\ NewCertificate(sender, call).result = UnevaluatedResult
           /\ NewCertificate(sender, call).attempts = 0
           /\ NewCertificate(sender, call).evaluated_at = 0
           /\ NewCertificate(sender, call).certification_record = << >>
<1>1. CommitmentOf(call) \in Commitments
  BY CommitmentTyped
<1>2. CommitmentOf(call).dataset_id = call.dataset_id
  BY DEF CommitmentOf
<1>3. /\ 0 \in 0 .. MAX_CERTIFICATION_ATTEMPTS
      /\ << >> \in Seq(Records)
      /\ "REGISTERED" \in CertificateStatus
  BY AttemptLimitAssumption DEF CertificateStatus
<1> QED
  BY <1>1, <1>2, <1>3 DEF NewCertificate, Certificates

LEMMA EvaluatedTyped ==
    ASSUME NEW c \in Certificates, NEW result \in Results, NEW at \in Nat,
           c.attempts < MAX_CERTIFICATION_ATTEMPTS
    PROVE  /\ Evaluated(c, result, at) \in Certificates
           /\ Evaluated(c, result, at).commitment = c.commitment
           /\ Evaluated(c, result, at).submitter = c.submitter
           /\ Evaluated(c, result, at).status = result.verdict
           /\ Evaluated(c, result, at).result = result
           /\ Evaluated(c, result, at).attempts = c.attempts + 1
           /\ Evaluated(c, result, at).evaluated_at = at
           /\ Evaluated(c, result, at).certification_record =
                <<RecordOf(c.commitment, result, at, c.attempts + 1)>>
<1>1. c.attempts \in Nat /\ c.attempts + 1 \in 0 .. MAX_CERTIFICATION_ATTEMPTS
  <2>1. c.attempts \in 0 .. MAX_CERTIFICATION_ATTEMPTS
    BY DEF Certificates
  <2>2. MAX_CERTIFICATION_ATTEMPTS \in Nat
    BY AttemptLimitAssumption
  <2> QED
    BY <2>1, <2>2
<1>2. RecordOf(c.commitment, result, at, c.attempts + 1) \in Records
  <2>1. c.commitment \in Commitments
    BY DEF Certificates
  <2> QED
    BY <1>1, <2>1 DEF Commitments, Records, RecordOf
<1>3. result.verdict \in CertificateStatus
  BY DEF Results, Verdicts, CertificateStatus
<1> DEFINE record == RecordOf(c.commitment, result, at, c.attempts + 1)
<1>4. <<record>> \in Seq(Records)
  BY <1>2
<1> HIDE DEF record
<1>5. result \in Results \cup {UnevaluatedResult}
  OBVIOUS
<1>6. Evaluated(c, result, at) =
        [c EXCEPT !.status = result.verdict, !.result = result,
                  !.evaluated_at = at, !.attempts = c.attempts + 1,
                  !.certification_record = <<record>>]
  BY DEF Evaluated, record
<1>7. /\ Evaluated(c, result, at) \in Certificates
      /\ Evaluated(c, result, at).commitment = c.commitment
      /\ Evaluated(c, result, at).submitter = c.submitter
      /\ Evaluated(c, result, at).status = result.verdict
      /\ Evaluated(c, result, at).result = result
      /\ Evaluated(c, result, at).attempts = c.attempts + 1
      /\ Evaluated(c, result, at).evaluated_at = at
      /\ Evaluated(c, result, at).certification_record = <<record>>
  BY <1>1, <1>3, <1>4, <1>5, <1>6 DEF Certificates
<1> QED
  BY <1>7 DEF record

LEMMA RevokedTyped ==
    ASSUME NEW c \in Certificates, now \in Nat
    PROVE  LET r == [c EXCEPT !.status = "REVOKED", !.revoked_at = now] IN
           /\ r \in Certificates
           /\ r.commitment = c.commitment
           /\ r.submitter = c.submitter
           /\ r.status = "REVOKED"
           /\ r.result = c.result
           /\ r.attempts = c.attempts
           /\ r.evaluated_at = c.evaluated_at
           /\ r.certification_record = c.certification_record
BY DEF Certificates, CertificateStatus

-----------------------------------------------------------------------------
(* The inductive invariant.  TypeOK is not inductive by itself: that an    *)
(* attempt count stays within its limit needs SnapshotIsCurrent, because   *)
(* CertifyCommit checks nothing again.  ConcludedWasAuthentic and          *)
(* RefusalHadCause need the order of times: what a snapshot shows of a key *)
(* happened before it, and an evaluation is in the past of any later       *)
(* registration or retirement of its key.                                  *)

(* While a certify_dataset call is in flight, what it read before the      *)
(* nondeterministic block stays true of storage until it writes: its       *)
(* certificate is still open and below the attempt limit, and the key and  *)
(* the nonce are as it saw them.  Only the clock may have moved on.        *)
SnapshotIsCurrent ==
    \A s \in in_flight :
        LET d == s.commitment.dataset_id IN
        /\ d \in DOMAIN certificates
        /\ ~Concluded(certificates[d])
        /\ certificates[d].attempts < MAX_CERTIFICATION_ATTEMPTS
        /\ s = [SnapshotOf(certificates[d]) EXCEPT !.now = s.now]
        /\ s.now <= now
        /\ in_flight = {s}

\* What a snapshot shows of its key happened before it was taken.
SnapshotFollowsKey ==
    \A s \in in_flight :
        s.commitment.key_id \in DOMAIN issuer_keys =>
            LET key == issuer_keys[s.commitment.key_id]
            IN  /\ key.registered_at <= s.now
                /\ key.status # "ACTIVE" => key.revoked_at <= s.now

RetiredInThePast ==
    \A k \in DOMAIN issuer_keys :
        issuer_keys[k].status # "ACTIVE" => issuer_keys[k].revoked_at <= now

\* The result behind a status that rests on a verdict is that verdict's.
VerdictIsStatus ==
    \A d \in DOMAIN certificates :
        certificates[d].status \in {"CERTIFIED", "REVOKED"} =>
            certificates[d].result.verdict = "CERTIFIED"

EvaluatedInThePast ==
    \A d \in DOMAIN certificates : certificates[d].evaluated_at <= now

IInv ==
    /\ TypeOK
    /\ RegistryInv
    /\ CertificateListIsComplete
    /\ NonceLedgerIsExact
    /\ SnapshotIsCurrent
    /\ SnapshotFollowsKey
    /\ EvaluatedInThePast
    /\ ConcludedWasAuthentic
    /\ RetiredInThePast
    /\ RecordMatchesCertificate
    /\ LevelsExplainStatus
    /\ VerdictIsStatus
    /\ RefusalHadCause

\* A stored certificate and its parts are typed.
LEMMA StoredTyped ==
    ASSUME TypeOK, NEW d \in DOMAIN certificates
    PROVE  /\ d \in DatasetIds
           /\ certificates[d] \in Certificates
           /\ certificates[d].commitment \in Commitments
           /\ certificates[d].commitment.dataset_id \in DatasetIds
           /\ certificates[d].commitment.nonce \in Nonces
           /\ certificates[d].commitment.key_id \in KeyIds
           /\ certificates[d].evaluated_at \in Nat
           /\ certificates[d].attempts \in 0 .. MAX_CERTIFICATION_ATTEMPTS
BY DEF TypeOK, Certificates, Commitments

LEMMA KeyTyped ==
    ASSUME RegistryTypeOK, NEW k \in DOMAIN issuer_keys
    PROVE  /\ issuer_keys[k] \in IssuerKeys
           /\ issuer_keys[k].status \in IssuerStatus
           /\ issuer_keys[k].issuer_id \in IssuerIds
           /\ issuer_keys[k].public_key \in PublicKeys
           /\ issuer_keys[k].registered_at \in Nat
           /\ issuer_keys[k].revoked_at \in Nat
BY DEF RegistryTypeOK, IssuerKeys

\* The snapshot of a stored certificate, field by field.
LEMMA SnapshotFields ==
    ASSUME TypeOK, NEW c, c.commitment \in Commitments
    PROVE  LET s == SnapshotOf(c)
               k == c.commitment.key_id IN
           /\ s \in Snapshots
           /\ s.commitment = c.commitment
           /\ s.now = now
           /\ s.replay_blocked = (c.commitment.nonce \in DOMAIN used_nonces)
           /\ k \in DOMAIN issuer_keys =>
                /\ s.issuer_status = issuer_keys[k].status
                /\ s.issuer_id = issuer_keys[k].issuer_id
                /\ s.public_key = issuer_keys[k].public_key
           /\ k \notin DOMAIN issuer_keys => s.issuer_status = NoIssuerStatus
<1>1. now \in Nat /\ RegistryTypeOK
  BY DEF TypeOK, RegistryTypeOK
<1>2. c.commitment.key_id \in DOMAIN issuer_keys =>
        /\ issuer_keys[c.commitment.key_id].status \in IssuerStatus
        /\ issuer_keys[c.commitment.key_id].issuer_id \in IssuerIds
        /\ issuer_keys[c.commitment.key_id].public_key \in PublicKeys
  BY <1>1, KeyTyped
<1> QED
  BY <1>1, <1>2 DEF SnapshotOf, Snapshots

\* What an in-flight snapshot says of storage while it is current.
LEMMA CurrentMeans ==
    ASSUME TypeOK, SnapshotIsCurrent, NEW s \in in_flight
    PROVE  LET d == s.commitment.dataset_id
               c == certificates[d]
               k == s.commitment.key_id IN
           /\ s \in Snapshots
           /\ d \in DOMAIN certificates
           /\ ~Concluded(c)
           /\ c.attempts < MAX_CERTIFICATION_ATTEMPTS
           /\ s.commitment = c.commitment
           /\ s.now <= now
           /\ in_flight = {s}
           /\ s.replay_blocked = (s.commitment.nonce \in DOMAIN used_nonces)
           /\ k \in DOMAIN issuer_keys =>
                /\ s.issuer_status = issuer_keys[k].status
                /\ s.issuer_id = issuer_keys[k].issuer_id
                /\ s.public_key = issuer_keys[k].public_key
           /\ k \notin DOMAIN issuer_keys => s.issuer_status = NoIssuerStatus
<1> DEFINE d == s.commitment.dataset_id
           c == certificates[d]
<1>1. /\ s \in Snapshots
      /\ d \in DOMAIN certificates
      /\ ~Concluded(c)
      /\ c.attempts < MAX_CERTIFICATION_ATTEMPTS
      /\ s = [SnapshotOf(c) EXCEPT !.now = s.now]
      /\ s.now <= now
      /\ in_flight = {s}
  BY DEF TypeOK, SnapshotIsCurrent
<1>2. c.commitment \in Commitments
  BY <1>1, StoredTyped
<1>3. /\ s.commitment = SnapshotOf(c).commitment
      /\ s.replay_blocked = SnapshotOf(c).replay_blocked
      /\ s.issuer_status = SnapshotOf(c).issuer_status
      /\ s.issuer_id = SnapshotOf(c).issuer_id
      /\ s.public_key = SnapshotOf(c).public_key
  BY <1>1 DEF SnapshotOf
<1> HIDE DEF c
<1>4. /\ s.commitment = c.commitment
      /\ s.replay_blocked = (c.commitment.nonce \in DOMAIN used_nonces)
  BY <1>2, <1>3, SnapshotFields
<1>5. /\ c.commitment.key_id \in DOMAIN issuer_keys =>
           /\ s.issuer_status = issuer_keys[c.commitment.key_id].status
           /\ s.issuer_id = issuer_keys[c.commitment.key_id].issuer_id
           /\ s.public_key = issuer_keys[c.commitment.key_id].public_key
      /\ c.commitment.key_id \notin DOMAIN issuer_keys =>
           s.issuer_status = NoIssuerStatus
  BY <1>2, <1>3, SnapshotFields
<1> QED
  BY <1>1, <1>4, <1>5 DEF c

-----------------------------------------------------------------------------
(* What each call does to the certificates, read item by item.             *)

LEMMA RegisterDatasetEffect ==
    ASSUME TypeOK, NEW sender \in Accounts, NEW call \in Calls,
           NoCallInFlight, RegisterDataset(sender, call)
    PROVE  /\ call \in Submissions
           /\ call.dataset_id \in DatasetIds
           /\ call.dataset_id \notin DOMAIN certificates
           /\ DOMAIN certificates' = DOMAIN certificates \cup {call.dataset_id}
           /\ certificates'[call.dataset_id] = NewCertificate(sender, call)
           /\ \A d \in DOMAIN certificates : certificates'[d] = certificates[d]
           /\ certificates' = Put(certificates, call.dataset_id,
                                  NewCertificate(sender, call))
           /\ certificate_ids' = Append(certificate_ids, call.dataset_id)
           /\ used_nonces' = used_nonces
           /\ in_flight = {} /\ in_flight' = {}
           /\ UNCHANGED registryVars
<1>1. call \in Submissions
  BY CallsAssumption
<1>2. call.dataset_id \in DatasetIds
  BY <1>1 DEF Submissions
<1> QED
  BY <1>1, <1>2 DEF RegisterDataset, NoCallInFlight, registryVars, Put

LEMMA CertifyCommitEffect ==
    ASSUME TypeOK, SnapshotIsCurrent, NEW s \in in_flight, NEW result,
           CertifyCommit(s, result)
    PROVE  LET d == s.commitment.dataset_id
               new == Evaluated(certificates[d], result, s.now) IN
           /\ d \in DOMAIN certificates
           /\ d \in DatasetIds
           /\ result \in Results
           /\ DOMAIN certificates' = DOMAIN certificates
           /\ certificates'[d] = new
           /\ \A e \in DOMAIN certificates : e # d => certificates'[e] = certificates[e]
           /\ certificates' = Put(certificates, d, new)
           /\ used_nonces' = IF result.verdict # "INCONCLUSIVE"
                             THEN Put(used_nonces, s.commitment.nonce, d)
                             ELSE used_nonces
           /\ certificate_ids' = certificate_ids
           /\ in_flight' = {}
           /\ UNCHANGED registryVars
<1> DEFINE d == s.commitment.dataset_id
<1>1. /\ d \in DOMAIN certificates /\ in_flight = {s}
      /\ s.commitment = certificates[d].commitment
      /\ d \in DatasetIds
  BY CurrentMeans DEF TypeOK
<1>2. /\ certificates' = Put(certificates, d, Evaluated(certificates[d], result, s.now))
      /\ used_nonces' = IF result.verdict # "INCONCLUSIVE"
                        THEN Put(used_nonces, s.commitment.nonce, d)
                        ELSE used_nonces
      /\ certificate_ids' = certificate_ids
      /\ in_flight' = in_flight \ {s}
      /\ UNCHANGED registryVars
      /\ result \in Results
  BY <1>1 DEF CertifyCommit, ValidConsensusResult, ConsumesNonce
<1>3. in_flight' = {}
  BY <1>1, <1>2
<1> QED
  BY <1>1, <1>2, <1>3 DEF Put

LEMMA RevokeCertificateEffect ==
    ASSUME TypeOK, NEW sender, NEW d \in DatasetIds, RevokeCertificate(sender, d)
    PROVE  LET new == [certificates[d] EXCEPT !.status = "REVOKED",
                                              !.revoked_at = now] IN
           /\ d \in DOMAIN certificates
           /\ certificates[d].status = "CERTIFIED"
           /\ DOMAIN certificates' = DOMAIN certificates
           /\ certificates'[d] = new
           /\ \A e \in DOMAIN certificates : e # d => certificates'[e] = certificates[e]
           /\ certificates' = Put(certificates, d, new)
           /\ certificate_ids' = certificate_ids
           /\ used_nonces' = used_nonces
           /\ in_flight = {} /\ in_flight' = {}
           /\ UNCHANGED registryVars
BY DEF RevokeCertificate, NoCallInFlight, registryVars, Put

-----------------------------------------------------------------------------
(* TypeOK.  Only CertifyCommit needs the other parts of the invariant.     *)

LEMMA TypeInit == Init => TypeOK
BY RegistryTypeInit DEF Init, TypeOK

LEMMA TypeNext == TypeOK /\ SnapshotIsCurrent /\ [Next]_vars => TypeOK'
<1> SUFFICES ASSUME TypeOK, SnapshotIsCurrent, [Next]_vars
             PROVE  TypeOK'
    OBVIOUS
<1>1. ASSUME UNCHANGED registryVars
      PROVE  RegistryTypeOK'
  BY <1>1 DEF registryVars, TypeOK, RegistryTypeOK
<1>2. CASE AdministerRegistry
  <2>1. RegistryTypeOK'
    BY <1>2, RegistryTypeNext DEF AdministerRegistry, RegistryNext, TypeOK
  <2> QED
    BY <1>2, <2>1 DEF AdministerRegistry, certificateVars, TypeOK
<1>3. CASE TimePasses
  <2>1. RegistryTypeOK'
    BY <1>3, RegistryTypeNext DEF TimePasses, RegistryNext, TypeOK
  <2> QED
    BY <1>3, <2>1 DEF TimePasses, certificateVars, TypeOK
<1>4. ASSUME NEW sender \in Accounts, NEW call \in Calls,
             NoCallInFlight, RegisterDataset(sender, call)
      PROVE  TypeOK'
  <2>1. /\ call \in Submissions
        /\ call.dataset_id \in DatasetIds
        /\ certificates' = Put(certificates, call.dataset_id,
                               NewCertificate(sender, call))
        /\ certificate_ids' = Append(certificate_ids, call.dataset_id)
        /\ used_nonces' = used_nonces
        /\ in_flight' = {}
        /\ UNCHANGED registryVars
    BY <1>4, RegisterDatasetEffect
  <2>2. NewCertificate(sender, call) \in Certificates
    BY <2>1, NewCertificateTyped DEF TypeOK, RegistryTypeOK
  <2>3. /\ DOMAIN certificates' \subseteq DatasetIds
        /\ certificates' \in [DOMAIN certificates' -> Certificates]
    BY <2>1, <2>2, PutTyped DEF TypeOK
  <2>4. certificate_ids' \in Seq(DatasetIds)
    BY <2>1, AppendFacts DEF TypeOK
  <2> QED
    BY <1>1, <2>1, <2>3, <2>4 DEF TypeOK
<1>5. ASSUME NEW d \in DatasetIds, CertifyBegin(d)
      PROVE  TypeOK'
  <2>1. certificates[d].commitment \in Commitments
    BY <1>5, StoredTyped DEF CertifyBegin
  <2>2. SnapshotOf(certificates[d]) \in Snapshots
    BY <2>1, SnapshotFields
  <2>3. in_flight' \subseteq Snapshots
    BY <1>5, <2>2 DEF CertifyBegin
  <2>4. UNCHANGED registryVars /\ UNCHANGED certificateVars
    BY <1>5 DEF CertifyBegin
  <2> QED
    BY <1>1, <2>3, <2>4 DEF certificateVars, TypeOK
<1>6. ASSUME NEW s \in in_flight, NEW result, CertifyCommit(s, result)
      PROVE  TypeOK'
  <2> DEFINE d == s.commitment.dataset_id
             new == Evaluated(certificates[d], result, s.now)
  <2>1. /\ d \in DOMAIN certificates
        /\ d \in DatasetIds
        /\ result \in Results
        /\ certificates' = Put(certificates, d, new)
        /\ used_nonces' = IF result.verdict # "INCONCLUSIVE"
                          THEN Put(used_nonces, s.commitment.nonce, d)
                          ELSE used_nonces
        /\ certificate_ids' = certificate_ids
        /\ in_flight' = {}
        /\ UNCHANGED registryVars
    BY <1>6, CertifyCommitEffect
  <2>2. /\ certificates[d] \in Certificates
        /\ certificates[d].attempts < MAX_CERTIFICATION_ATTEMPTS
        /\ s.now \in Nat
        /\ s.commitment.nonce \in Nonces
    BY CurrentMeans, StoredTyped DEF Snapshots
  <2>3. new \in Certificates
    BY <2>1, <2>2, EvaluatedTyped
  <2>4. /\ DOMAIN certificates' \subseteq DatasetIds
        /\ certificates' \in [DOMAIN certificates' -> Certificates]
    BY <2>1, <2>3, PutTyped DEF TypeOK
  <2>5. /\ DOMAIN used_nonces' \subseteq Nonces
        /\ used_nonces' \in [DOMAIN used_nonces' -> DatasetIds]
    <3>1. CASE result.verdict # "INCONCLUSIVE"
      <4>1. used_nonces' = Put(used_nonces, s.commitment.nonce, d)
        BY <2>1, <3>1
      <4> QED
        BY <2>1, <2>2, <4>1, PutTyped DEF TypeOK
    <3>2. CASE result.verdict = "INCONCLUSIVE"
      BY <2>1, <3>2 DEF TypeOK
    <3> QED
      BY <3>1, <3>2
  <2> QED
    BY <1>1, <2>1, <2>4, <2>5 DEF TypeOK
<1>7. ASSUME NEW s \in in_flight, ConsensusFails(s)
      PROVE  TypeOK'
  BY <1>1, <1>7 DEF ConsensusFails, certificateVars, TypeOK
<1>8. ASSUME NEW sender \in Accounts, NEW d \in DatasetIds,
             RevokeCertificate(sender, d)
      PROVE  TypeOK'
  <2> DEFINE new == [certificates[d] EXCEPT !.status = "REVOKED", !.revoked_at = now]
  <2>1. /\ d \in DOMAIN certificates
        /\ certificates' = Put(certificates, d, new)
        /\ certificate_ids' = certificate_ids
        /\ used_nonces' = used_nonces
        /\ in_flight' = {}
        /\ UNCHANGED registryVars
    BY <1>8, RevokeCertificateEffect
  <2>2. new \in Certificates
    BY <2>1, StoredTyped, RevokedTyped DEF TypeOK, RegistryTypeOK
  <2> HIDE DEF new
  <2>3. /\ DOMAIN certificates' \subseteq DatasetIds
        /\ certificates' \in [DOMAIN certificates' -> Certificates]
    BY <2>1, <2>2, PutTyped DEF TypeOK
  <2> QED
    BY <1>1, <2>1, <2>3 DEF TypeOK
<1>9. CASE UNCHANGED vars
  BY <1>1, <1>9 DEF vars, registryVars, TypeOK
<1> QED
  BY <1>2, <1>3, <1>4, <1>5, <1>6, <1>7, <1>8, <1>9 DEF Next, SubmitDataset, EndCall

-----------------------------------------------------------------------------
(* Snapshots.  Every other writing call waits for the call in flight, so   *)
(* only the clock can separate a snapshot from storage.                    *)

LEMMA NothingInFlight ==
    in_flight' = {} => SnapshotIsCurrent' /\ SnapshotFollowsKey'
BY DEF SnapshotIsCurrent, SnapshotFollowsKey

\* A snapshot just taken is current.
LEMMA BeginIsCurrent ==
    ASSUME TypeOK, RegistryInv, NEW d \in DatasetIds, CertifyBegin(d),
           CertificateListIsComplete, RetiredInThePast
    PROVE  SnapshotIsCurrent' /\ SnapshotFollowsKey'
<1> DEFINE s == SnapshotOf(certificates[d])
<1>1. /\ d \in DOMAIN certificates
      /\ ~Concluded(certificates[d])
      /\ certificates[d].attempts < MAX_CERTIFICATION_ATTEMPTS
      /\ in_flight' = {s}
      /\ UNCHANGED <<registryVars, certificateVars>>
  BY DEF CertifyBegin, Concluded, IsOpen, HasAttemptsLeft
<1>2. certificates[d].commitment \in Commitments
  BY <1>1, StoredTyped
<1>3. /\ s.commitment = certificates[d].commitment
      /\ s.commitment.dataset_id = d
      /\ s.now = now
      /\ now \in Nat
  BY <1>1, <1>2, SnapshotFields
     DEF CertificateListIsComplete, TypeOK, RegistryTypeOK
<1>4. /\ certificates' = certificates /\ issuer_keys' = issuer_keys
      /\ used_nonces' = used_nonces /\ now' = now
  BY <1>1 DEF registryVars, certificateVars
<1>5. SnapshotOf(certificates[d])' = s
  BY <1>4 DEF SnapshotOf
<1>6. s = [s EXCEPT !.now = s.now]
  BY <1>3 DEF SnapshotOf
<1>7. SnapshotIsCurrent'
  BY <1>1, <1>3, <1>4, <1>5, <1>6 DEF SnapshotIsCurrent, Concluded
<1>8. SnapshotFollowsKey'
  BY <1>1, <1>3, <1>4 DEF SnapshotFollowsKey, RegistryInv, RegisteredInThePast,
                             RetiredInThePast
<1> QED
  BY <1>7, <1>8

\* The clock leaves a current snapshot current.
LEMMA TimeKeepsSnapshot ==
    ASSUME TypeOK, SnapshotIsCurrent, SnapshotFollowsKey, TimePasses
    PROVE  SnapshotIsCurrent' /\ SnapshotFollowsKey'
<1>1. /\ certificates' = certificates /\ issuer_keys' = issuer_keys
      /\ used_nonces' = used_nonces /\ in_flight' = in_flight
      /\ now' = now + 1 /\ now \in Nat
  BY DEF TimePasses, Tick, certificateVars, TypeOK, RegistryTypeOK
<1>2. ASSUME NEW s \in in_flight
      PROVE  SnapshotIsCurrent!(s)'
  <2> DEFINE c == certificates[s.commitment.dataset_id]
  <2>1. s = [SnapshotOf(c) EXCEPT !.now = s.now] /\ s.now \in Nat
    BY DEF SnapshotIsCurrent, TypeOK, Snapshots
  <2>2. SnapshotOf(c)' = [SnapshotOf(c) EXCEPT !.now = now']
    <3> DEFINE registered == c.commitment.key_id \in DOMAIN issuer_keys
               key == issuer_keys[c.commitment.key_id]
               status == IF registered THEN key.status ELSE NoIssuerStatus
               issuer == IF registered THEN key.issuer_id ELSE NoIssuer
               public == IF registered THEN key.public_key ELSE NoPublicKey
               blocked == c.commitment.nonce \in DOMAIN used_nonces
               AtTime(time) ==
                 [commitment |-> c.commitment, now |-> time,
                  issuer_status |-> status, issuer_id |-> issuer,
                  public_key |-> public, replay_blocked |-> blocked]
    <3>1. SnapshotOf(c) = AtTime(now)
      BY DEF SnapshotOf
    <3>2. SnapshotOf(c)' = AtTime(now')
      BY <1>1 DEF SnapshotOf
    <3> HIDE DEF c, status, issuer, public, blocked
    <3> QED
      BY <3>1, <3>2
  <2>3. s = [SnapshotOf(c)' EXCEPT !.now = s.now]
    BY <2>1, <2>2 DEF SnapshotOf
  <2> QED
    BY <1>1, <2>1, <2>3 DEF SnapshotIsCurrent, Concluded
<1>3. SnapshotIsCurrent'
  BY <1>1, <1>2 DEF SnapshotIsCurrent
<1>4. SnapshotFollowsKey'
  BY <1>1 DEF SnapshotFollowsKey
<1> QED
  BY <1>3, <1>4

LEMMA SnapshotNext ==
    IInv /\ [Next]_vars => SnapshotIsCurrent' /\ SnapshotFollowsKey'
<1> SUFFICES ASSUME IInv, [Next]_vars
             PROVE  SnapshotIsCurrent' /\ SnapshotFollowsKey'
    OBVIOUS
<1> USE DEF IInv
<1>1. CASE AdministerRegistry
  BY <1>1, NothingInFlight DEF AdministerRegistry, NoCallInFlight
<1>2. CASE TimePasses
  BY <1>2, TimeKeepsSnapshot
<1>3. ASSUME NEW sender \in Accounts, NEW call \in Calls,
             NoCallInFlight, RegisterDataset(sender, call)
      PROVE  in_flight' = {}
  BY <1>3 DEF RegisterDataset, NoCallInFlight
<1>4. ASSUME NEW d \in DatasetIds, CertifyBegin(d)
      PROVE  SnapshotIsCurrent' /\ SnapshotFollowsKey'
  BY <1>4, BeginIsCurrent
<1>5. CASE EndCall
  <2>1. in_flight' = {}
    BY <1>5, CurrentMeans DEF EndCall, CertifyCommit, ConsensusFails
  <2> QED
    BY <2>1, NothingInFlight
<1>6. ASSUME NEW sender \in Accounts, NEW d \in DatasetIds,
             RevokeCertificate(sender, d)
      PROVE  in_flight' = {}
  BY <1>6 DEF RevokeCertificate, NoCallInFlight
<1>7. CASE UNCHANGED vars
  <2>1. /\ certificates' = certificates /\ issuer_keys' = issuer_keys
        /\ used_nonces' = used_nonces /\ in_flight' = in_flight
        /\ now' = now
    BY <1>7 DEF vars
  <2> QED
    BY <2>1 DEF SnapshotIsCurrent, SnapshotFollowsKey, SnapshotOf, Concluded
<1> QED
  BY <1>1, <1>2, <1>3, <1>4, <1>5, <1>6, <1>7, NothingInFlight DEF Next, SubmitDataset

-----------------------------------------------------------------------------
(* A step of the contract is a step of the registry, and one of the three  *)
(* certificate calls or none.                                              *)

LEMMA RegistryStep == [Next]_vars => [RegistryNext]_registryVars
BY DEF Next, vars, registryVars, AdministerRegistry, TimePasses, RegistryNext,
       SubmitDataset, RegisterDataset, CertifyBegin, EndCall, CertifyCommit, ConsensusFails,
       RevokeCertificate

LEMMA CertificateStep ==
    ASSUME [Next]_vars
    PROVE  \/ UNCHANGED certificateVars
           \/ \E sender \in Accounts, call \in Calls :
                NoCallInFlight /\ RegisterDataset(sender, call)
           \/ \E s \in in_flight, o \in Observations :
                CertifyCommit(s, EvaluatePackage(s, o.served, o.answer))
           \/ \E sender \in Accounts, d \in DatasetIds : RevokeCertificate(sender, d)
BY DEF Next, vars, certificateVars, AdministerRegistry, TimePasses, SubmitDataset,
       CertifyBegin, EndCall, ConsensusFails

LEMMA ListNext == IInv /\ [Next]_vars => CertificateListIsComplete'
<1> SUFFICES ASSUME IInv, [Next]_vars
             PROVE  CertificateListIsComplete'
    OBVIOUS
<1> USE DEF IInv
<1>1. CASE UNCHANGED certificateVars
  BY <1>1 DEF certificateVars, CertificateListIsComplete
<1>2. ASSUME NEW sender \in Accounts, NEW call \in Calls,
             NoCallInFlight, RegisterDataset(sender, call)
      PROVE  CertificateListIsComplete'
  <2> DEFINE new == call.dataset_id
             n == Len(certificate_ids)
  <2>1. /\ call \in Submissions
        /\ new \in DatasetIds
        /\ new \notin DOMAIN certificates
        /\ DOMAIN certificates' = DOMAIN certificates \cup {new}
        /\ certificates'[new] = NewCertificate(sender, call)
        /\ \A d \in DOMAIN certificates : certificates'[d] = certificates[d]
        /\ certificate_ids' = Append(certificate_ids, new)
    BY <1>2, RegisterDatasetEffect
  <2>2. certificates'[new].commitment.dataset_id = new
    BY <2>1, NewCertificateTyped DEF TypeOK, RegistryTypeOK
  <2>3. /\ DOMAIN certificate_ids = 1 .. n /\ n \in Nat
        /\ DOMAIN certificate_ids' = 1 .. n + 1
        /\ certificate_ids'[n + 1] = new
        /\ \A i \in 1 .. n : certificate_ids'[i] = certificate_ids[i]
    BY <2>1, AppendFacts DEF TypeOK
  <2>4. \A i \in 1 .. n : certificate_ids[i] \in DOMAIN certificates
    BY <2>3 DEF CertificateListIsComplete
  <2>5. \A i \in 1 .. n + 1 : i \in 1 .. n \/ i = n + 1
    BY <2>3
  <2> HIDE DEF new, n
  <2>6. \A d \in DOMAIN certificates' :
          /\ \E i \in DOMAIN certificate_ids' : certificate_ids'[i] = d
          /\ certificates'[d].commitment.dataset_id = d
    BY <2>1, <2>2, <2>3 DEF CertificateListIsComplete
  <2>7. ASSUME NEW i \in 1 .. n + 1, NEW j \in 1 .. n + 1
        PROVE  /\ certificate_ids'[i] \in DOMAIN certificates'
               /\ certificate_ids'[i] = certificate_ids'[j] => i = j
    <3>1. CASE i \in 1 .. n /\ j \in 1 .. n
      BY <2>1, <2>3, <2>4, <3>1 DEF CertificateListIsComplete
    <3>2. CASE i = n + 1 \/ j = n + 1
      BY <2>1, <2>3, <2>4, <2>5, <3>2
    <3> QED
      BY <2>5, <3>1, <3>2
  <2> QED
    BY <2>3, <2>6, <2>7 DEF CertificateListIsComplete
<1>3. ASSUME NEW s \in in_flight, NEW result, CertifyCommit(s, result)
      PROVE  CertificateListIsComplete'
  <2> DEFINE d == s.commitment.dataset_id
             new == Evaluated(certificates[d], result, s.now)
  <2>1. /\ d \in DOMAIN certificates
        /\ result \in Results
        /\ DOMAIN certificates' = DOMAIN certificates
        /\ certificates'[d] = new
        /\ \A e \in DOMAIN certificates : e # d => certificates'[e] = certificates[e]
        /\ certificate_ids' = certificate_ids
    BY <1>3, CertifyCommitEffect
  <2>2. new.commitment = certificates[d].commitment
    BY <2>1, CurrentMeans, StoredTyped, EvaluatedTyped DEF Snapshots
  <2> HIDE DEF new, d
  <2> QED
    BY <2>1, <2>2 DEF CertificateListIsComplete
<1>4. ASSUME NEW sender \in Accounts, NEW d \in DatasetIds,
             RevokeCertificate(sender, d)
      PROVE  CertificateListIsComplete'
  <2> DEFINE new == [certificates[d] EXCEPT !.status = "REVOKED", !.revoked_at = now]
  <2>1. /\ d \in DOMAIN certificates
        /\ DOMAIN certificates' = DOMAIN certificates
        /\ certificates'[d] = new
        /\ \A e \in DOMAIN certificates : e # d => certificates'[e] = certificates[e]
        /\ certificate_ids' = certificate_ids
    BY <1>4, RevokeCertificateEffect
  <2>2. new.commitment = certificates[d].commitment
    BY <2>1, StoredTyped, RevokedTyped DEF TypeOK, RegistryTypeOK
  <2> HIDE DEF new
  <2> QED
    BY <2>1, <2>2 DEF CertificateListIsComplete
<1> QED
  BY <1>1, <1>2, <1>3, <1>4, CertificateStep

-----------------------------------------------------------------------------
(* The fields of the one certificate that each call touches, afterwards.   *)

LEMMA RegisteredFields ==
    ASSUME TypeOK, NEW sender \in Accounts, NEW call \in Calls,
           NoCallInFlight, RegisterDataset(sender, call)
    PROVE  LET new == certificates'[call.dataset_id] IN
           /\ new.commitment = CommitmentOf(call)
           /\ new.commitment.dataset_id = call.dataset_id
           /\ new.status = "REGISTERED"
           /\ new.result = UnevaluatedResult
           /\ new.attempts = 0
           /\ new.evaluated_at = 0
           /\ new.certification_record = << >>
<1>1. /\ call \in Submissions
      /\ certificates'[call.dataset_id] = NewCertificate(sender, call)
  BY RegisterDatasetEffect
<1> QED
  BY <1>1, NewCertificateTyped DEF TypeOK, RegistryTypeOK

LEMMA CommittedFields ==
    ASSUME TypeOK, SnapshotIsCurrent, NEW s \in in_flight, NEW result,
           CertifyCommit(s, result)
    PROVE  LET old == certificates[s.commitment.dataset_id]
               new == certificates'[s.commitment.dataset_id] IN
           /\ new.commitment = s.commitment
           /\ new.commitment = old.commitment
           /\ new.submitter = old.submitter
           /\ new.status = result.verdict
           /\ new.result = result
           /\ new.attempts = old.attempts + 1
           /\ new.evaluated_at = s.now
           /\ new.certification_record =
                <<RecordOf(new.commitment, new.result, new.evaluated_at, new.attempts)>>
<1> DEFINE d == s.commitment.dataset_id
           old == certificates[d]
<1>1. /\ d \in DOMAIN certificates
      /\ result \in Results
      /\ certificates'[d] = Evaluated(old, result, s.now)
  BY CertifyCommitEffect
<1>2. /\ old \in Certificates
      /\ old.attempts < MAX_CERTIFICATION_ATTEMPTS
      /\ s.now \in Nat
      /\ s.commitment = old.commitment
  BY CurrentMeans, StoredTyped DEF Snapshots
<1> QED
  BY <1>1, <1>2, EvaluatedTyped

LEMMA RevokedFields ==
    ASSUME TypeOK, NEW sender, NEW d \in DatasetIds, RevokeCertificate(sender, d)
    PROVE  LET old == certificates[d]
               new == certificates'[d] IN
           /\ new.commitment = old.commitment
           /\ new.submitter = old.submitter
           /\ new.status = "REVOKED"
           /\ new.result = old.result
           /\ new.attempts = old.attempts
           /\ new.evaluated_at = old.evaluated_at
           /\ new.certification_record = old.certification_record
<1>1. /\ d \in DOMAIN certificates
      /\ certificates'[d] = [certificates[d] EXCEPT !.status = "REVOKED",
                                                    !.revoked_at = now]
  BY RevokeCertificateEffect
<1>2. certificates[d] \in Certificates /\ now \in Nat
  BY <1>1, StoredTyped DEF TypeOK, RegistryTypeOK
<1> QED
  BY <1>1, <1>2 DEF Certificates

-----------------------------------------------------------------------------
(* A final verdict, and the facts that the snapshot gives it.              *)

\* What an authenticated manifest says of the snapshot it was checked against.
LEMMA AuthenticatedMeans ==
    ASSUME NEW s \in Snapshots, AuthenticateStoredManifest(s) = "AUTHENTICATED"
    PROVE  /\ DigestMatches(s.commitment)
           /\ ~s.replay_blocked
           /\ s.commitment.issued_at <= s.now
           /\ s.now <= s.commitment.expires_at
           /\ s.issuer_status = "ACTIVE"
           /\ s.issuer_id = s.commitment.publisher_identity
           /\ VerifySecp256k1Sha256(s.public_key, s.commitment.signature,
                                    StoredUnsigned(s.commitment))
<1>1. /\ s.now \in Int
      /\ s.commitment.issued_at \in Int
      /\ s.commitment.expires_at \in Int
  <2>1. s.now \in Nat /\ s.commitment \in Commitments
    BY DEF Snapshots
  <2>2. s.commitment.issued_at \in Times /\ s.commitment.expires_at \in Times
    BY <2>1 DEF Commitments
  <2>3. s.commitment.issued_at \in Int /\ s.commitment.expires_at \in Int
    BY <2>2, TimesAssumption, Zenon
  <2> QED
    BY <2>1, <2>3
<1>2. /\ DigestMatches(s.commitment) \in BOOLEAN
      /\ s.replay_blocked \in BOOLEAN
      /\ VerifySecp256k1Sha256(s.public_key, s.commitment.signature,
                               StoredUnsigned(s.commitment)) \in BOOLEAN
  BY DEF DigestMatches, VerifySecp256k1Sha256, Snapshots
<1> QED
  BY <1>1, <1>2 DEF AuthenticateStoredManifest

\* The nonce is unused, the key is ACTIVE, and the manifest is authentic.
LEMMA FinalVerdictMeans ==
    ASSUME TypeOK, SnapshotIsCurrent, NEW s \in in_flight, NEW served, NEW answer,
           EvaluatePackage(s, served, answer).verdict # "INCONCLUSIVE"
    PROVE  /\ s.commitment.nonce \notin DOMAIN used_nonces
           /\ s.commitment.key_id \in DOMAIN issuer_keys
           /\ issuer_keys[s.commitment.key_id].status = "ACTIVE"
           /\ issuer_keys[s.commitment.key_id].issuer_id
                = s.commitment.publisher_identity
           /\ VerifySecp256k1Sha256(issuer_keys[s.commitment.key_id].public_key,
                                    s.commitment.signature,
                                    StoredUnsigned(s.commitment))
           /\ DigestMatches(s.commitment)
           /\ s.commitment.issued_at <= s.now
           /\ s.now <= s.commitment.expires_at
<1>1. s \in Snapshots
  BY CurrentMeans
<1>2. AuthenticateStoredManifest(s) = "AUTHENTICATED"
  BY DEF EvaluatePackage, InconclusiveResult, Result
<1>3. /\ DigestMatches(s.commitment)
      /\ ~s.replay_blocked
      /\ s.commitment.issued_at <= s.now
      /\ s.now <= s.commitment.expires_at
      /\ s.issuer_status = "ACTIVE"
      /\ s.issuer_id = s.commitment.publisher_identity
      /\ VerifySecp256k1Sha256(s.public_key, s.commitment.signature,
                               StoredUnsigned(s.commitment))
  BY <1>1, <1>2, AuthenticatedMeans
<1>4. /\ s.replay_blocked = (s.commitment.nonce \in DOMAIN used_nonces)
      /\ s.commitment.key_id \in DOMAIN issuer_keys =>
           /\ s.issuer_status = issuer_keys[s.commitment.key_id].status
           /\ s.issuer_id = issuer_keys[s.commitment.key_id].issuer_id
           /\ s.public_key = issuer_keys[s.commitment.key_id].public_key
      /\ s.commitment.key_id \notin DOMAIN issuer_keys =>
           s.issuer_status = NoIssuerStatus
  BY CurrentMeans
<1>5. s.commitment.key_id \in DOMAIN issuer_keys
  BY <1>3, <1>4 DEF NoIssuerStatus
<1> QED
  BY <1>3, <1>4, <1>5

LEMMA LedgerNext == IInv /\ [Next]_vars => NonceLedgerIsExact'
<1> SUFFICES ASSUME IInv, [Next]_vars
             PROVE  NonceLedgerIsExact'
    OBVIOUS
<1> USE DEF IInv
<1>1. CASE UNCHANGED certificateVars
  BY <1>1 DEF certificateVars, NonceLedgerIsExact, Concluded
<1>2. ASSUME NEW sender \in Accounts, NEW call \in Calls,
             NoCallInFlight, RegisterDataset(sender, call)
      PROVE  NonceLedgerIsExact'
  <2>1. /\ call.dataset_id \notin DOMAIN certificates
        /\ DOMAIN certificates' = DOMAIN certificates \cup {call.dataset_id}
        /\ \A d \in DOMAIN certificates : certificates'[d] = certificates[d]
        /\ used_nonces' = used_nonces
    BY <1>2, RegisterDatasetEffect
  <2>2. certificates'[call.dataset_id].status = "REGISTERED"
    BY <1>2, RegisteredFields
  <2> QED
    BY <2>1, <2>2 DEF NonceLedgerIsExact, Concluded
<1>3. ASSUME NEW s \in in_flight, NEW o \in Observations,
             CertifyCommit(s, EvaluatePackage(s, o.served, o.answer))
      PROVE  NonceLedgerIsExact'
  <2> DEFINE d == s.commitment.dataset_id
             n == s.commitment.nonce
             result == EvaluatePackage(s, o.served, o.answer)
  <2>1. /\ d \in DOMAIN certificates
        /\ result \in Results
        /\ DOMAIN certificates' = DOMAIN certificates
        /\ \A e \in DOMAIN certificates : e # d => certificates'[e] = certificates[e]
        /\ used_nonces' = IF result.verdict # "INCONCLUSIVE"
                          THEN Put(used_nonces, n, d) ELSE used_nonces
    BY <1>3, CertifyCommitEffect
  <2>2. /\ certificates'[d].commitment = s.commitment
        /\ certificates'[d].status = result.verdict
        /\ certificates[d].commitment = s.commitment
        /\ ~Concluded(certificates[d])
    BY <1>3, CommittedFields, CurrentMeans
  <2>3. result.verdict \in {"CERTIFIED", "NOT_CERTIFIED", "INCONCLUSIVE"}
    BY <2>1 DEF Results, Verdicts
  <2>4. result.verdict # "INCONCLUSIVE" => n \notin DOMAIN used_nonces
    BY FinalVerdictMeans
  <2> HIDE DEF d, n, result
  <2>5. CASE result.verdict = "INCONCLUSIVE"
    <3>1. used_nonces' = used_nonces /\ ~Concluded(certificates'[d])
      BY <2>1, <2>2, <2>5 DEF Concluded
    <3> QED
      BY <2>1, <2>2, <3>1 DEF NonceLedgerIsExact, Concluded
  <2>6. CASE result.verdict # "INCONCLUSIVE"
    <3>1. /\ DOMAIN used_nonces' = DOMAIN used_nonces \cup {n}
          /\ used_nonces'[n] = d
          /\ \A m \in DOMAIN used_nonces : used_nonces'[m] = used_nonces[m]
      BY <2>1, <2>4, <2>6 DEF Put
    <3>2. Concluded(certificates'[d]) /\ certificates'[d].commitment.nonce = n
      BY <2>2, <2>3, <2>6 DEF Concluded, n
    <3>3. \A e \in DOMAIN certificates :
            Concluded(certificates[e]) => certificates[e].commitment.nonce # n
      BY <2>4, <2>6 DEF NonceLedgerIsExact
    <3>4. \A m \in DOMAIN used_nonces : used_nonces[m] # d
      BY <2>2 DEF NonceLedgerIsExact
    <3> QED
      BY <2>1, <3>1, <3>2, <3>3, <3>4 DEF NonceLedgerIsExact
  <2> QED
    BY <2>5, <2>6
<1>4. ASSUME NEW sender \in Accounts, NEW d \in DatasetIds,
             RevokeCertificate(sender, d)
      PROVE  NonceLedgerIsExact'
  <2>1. /\ d \in DOMAIN certificates
        /\ certificates[d].status = "CERTIFIED"
        /\ DOMAIN certificates' = DOMAIN certificates
        /\ \A e \in DOMAIN certificates : e # d => certificates'[e] = certificates[e]
        /\ used_nonces' = used_nonces
    BY <1>4, RevokeCertificateEffect
  <2>2. /\ certificates'[d].status = "REVOKED"
        /\ certificates'[d].commitment = certificates[d].commitment
    BY <1>4, RevokedFields
  <2> QED
    BY <2>1, <2>2 DEF NonceLedgerIsExact, Concluded
<1> QED
  BY <1>1, <1>2, <1>3, <1>4, CertificateStep

-----------------------------------------------------------------------------
(* The stored outcome: record, levels, times and authenticity.             *)

LEMMA RecordNext == IInv /\ [Next]_vars => RecordMatchesCertificate'
<1> SUFFICES ASSUME IInv, [Next]_vars
             PROVE  RecordMatchesCertificate'
    OBVIOUS
<1> USE DEF IInv
<1>1. CASE UNCHANGED certificateVars
  BY <1>1 DEF certificateVars, RecordMatchesCertificate
<1>2. ASSUME NEW sender \in Accounts, NEW call \in Calls,
             NoCallInFlight, RegisterDataset(sender, call)
      PROVE  RecordMatchesCertificate'
  <2>1. /\ DOMAIN certificates' = DOMAIN certificates \cup {call.dataset_id}
        /\ \A d \in DOMAIN certificates : certificates'[d] = certificates[d]
    BY <1>2, RegisterDatasetEffect
  <2>2. /\ certificates'[call.dataset_id].status = "REGISTERED"
        /\ certificates'[call.dataset_id].attempts = 0
        /\ certificates'[call.dataset_id].certification_record = << >>
    BY <1>2, RegisteredFields
  <2> QED
    BY <2>1, <2>2 DEF RecordMatchesCertificate
<1>3. ASSUME NEW s \in in_flight, NEW result, CertifyCommit(s, result)
      PROVE  RecordMatchesCertificate'
  <2> DEFINE d == s.commitment.dataset_id
             new == certificates'[d]
  <2>1. /\ d \in DOMAIN certificates
        /\ result \in Results
        /\ DOMAIN certificates' = DOMAIN certificates
        /\ \A e \in DOMAIN certificates : e # d => certificates'[e] = certificates[e]
    BY <1>3, CertifyCommitEffect
  <2>2. /\ new.status = result.verdict
        /\ new.attempts = certificates[d].attempts + 1
        /\ new.certification_record =
             <<RecordOf(new.commitment, new.result, new.evaluated_at, new.attempts)>>
    BY <1>3, CommittedFields
  <2>3. new.attempts # 0 /\ new.status # "REGISTERED"
    BY <2>1, <2>2, StoredTyped DEF Results, Verdicts
  <2> QED
    BY <2>1, <2>2, <2>3 DEF RecordMatchesCertificate
<1>4. ASSUME NEW sender \in Accounts, NEW d \in DatasetIds,
             RevokeCertificate(sender, d)
      PROVE  RecordMatchesCertificate'
  <2>1. /\ d \in DOMAIN certificates
        /\ certificates[d].status = "CERTIFIED"
        /\ DOMAIN certificates' = DOMAIN certificates
        /\ \A e \in DOMAIN certificates : e # d => certificates'[e] = certificates[e]
    BY <1>4, RevokeCertificateEffect
  <2>2. /\ certificates'[d].commitment = certificates[d].commitment
        /\ certificates'[d].status = "REVOKED"
        /\ certificates'[d].result = certificates[d].result
        /\ certificates'[d].attempts = certificates[d].attempts
        /\ certificates'[d].evaluated_at = certificates[d].evaluated_at
        /\ certificates'[d].certification_record = certificates[d].certification_record
    BY <1>4, RevokedFields
  <2> QED
    BY <2>1, <2>2 DEF RecordMatchesCertificate
<1> QED
  BY <1>1, <1>2, <1>3, <1>4, CertificateStep

LEMMA LevelsNext == IInv /\ [Next]_vars => LevelsExplainStatus'
<1> SUFFICES ASSUME IInv, [Next]_vars
             PROVE  LevelsExplainStatus'
    OBVIOUS
<1> USE DEF IInv
<1>1. CASE UNCHANGED certificateVars
  BY <1>1 DEF certificateVars, LevelsExplainStatus
<1>2. ASSUME NEW sender \in Accounts, NEW call \in Calls,
             NoCallInFlight, RegisterDataset(sender, call)
      PROVE  LevelsExplainStatus'
  <2>1. /\ DOMAIN certificates' = DOMAIN certificates \cup {call.dataset_id}
        /\ \A d \in DOMAIN certificates : certificates'[d] = certificates[d]
    BY <1>2, RegisterDatasetEffect
  <2>2. /\ certificates'[call.dataset_id].status = "REGISTERED"
        /\ certificates'[call.dataset_id].result = UnevaluatedResult
    BY <1>2, RegisteredFields
  <2>3. UnevaluatedResult.integrity_status = "NOT_EVALUATED"
    BY DEF UnevaluatedResult, Result
  <2> QED
    BY <2>1, <2>2, <2>3 DEF LevelsExplainStatus
<1>3. ASSUME NEW s \in in_flight, NEW result, CertifyCommit(s, result)
      PROVE  LevelsExplainStatus'
  <2> DEFINE d == s.commitment.dataset_id
  <2>1. /\ DOMAIN certificates' = DOMAIN certificates
        /\ \A e \in DOMAIN certificates : e # d => certificates'[e] = certificates[e]
    BY <1>3, CertifyCommitEffect
  <2>2. /\ certificates'[d].status = result.verdict
        /\ certificates'[d].result = result
    BY <1>3, CommittedFields
  <2>3. ValidConsensusResult(result)
    BY <1>3 DEF CertifyCommit
  <2>4. result.verdict \in {"CERTIFIED", "REVOKED"} <=>
          /\ result.integrity_status = "VERIFIED"
          /\ result.authentication_status = "AUTHENTICATED"
          /\ result.license_status = "COMPATIBLE"
          /\ result.provenance_status = "COMPLETE"
    BY <2>3 DEF ValidConsensusResult, Results, Verdicts, Conclusive
  <2> QED
    BY <2>1, <2>2, <2>4 DEF LevelsExplainStatus
<1>4. ASSUME NEW sender \in Accounts, NEW d \in DatasetIds,
             RevokeCertificate(sender, d)
      PROVE  LevelsExplainStatus'
  <2>1. /\ d \in DOMAIN certificates
        /\ certificates[d].status = "CERTIFIED"
        /\ DOMAIN certificates' = DOMAIN certificates
        /\ \A e \in DOMAIN certificates : e # d => certificates'[e] = certificates[e]
    BY <1>4, RevokeCertificateEffect
  <2>2. /\ certificates'[d].status = "REVOKED"
        /\ certificates'[d].result = certificates[d].result
    BY <1>4, RevokedFields
  <2> QED
    BY <2>1, <2>2 DEF LevelsExplainStatus
<1> QED
  BY <1>1, <1>2, <1>3, <1>4, CertificateStep

LEMMA VerdictNext == IInv /\ [Next]_vars => VerdictIsStatus'
<1> SUFFICES ASSUME IInv, [Next]_vars
             PROVE  VerdictIsStatus'
    OBVIOUS
<1> USE DEF IInv
<1>1. CASE UNCHANGED certificateVars
  BY <1>1 DEF certificateVars, VerdictIsStatus
<1>2. ASSUME NEW sender \in Accounts, NEW call \in Calls,
             NoCallInFlight, RegisterDataset(sender, call)
      PROVE  VerdictIsStatus'
  <2>1. /\ DOMAIN certificates' = DOMAIN certificates \cup {call.dataset_id}
        /\ \A d \in DOMAIN certificates : certificates'[d] = certificates[d]
    BY <1>2, RegisterDatasetEffect
  <2>2. certificates'[call.dataset_id].status = "REGISTERED"
    BY <1>2, RegisteredFields
  <2> QED
    BY <2>1, <2>2 DEF VerdictIsStatus
<1>3. ASSUME NEW s \in in_flight, NEW result, CertifyCommit(s, result)
      PROVE  VerdictIsStatus'
  <2>1. result.verdict \in Verdicts
    BY <1>3 DEF CertifyCommit, ValidConsensusResult, Results
  <2> DEFINE d == s.commitment.dataset_id
  <2>2. /\ DOMAIN certificates' = DOMAIN certificates
        /\ \A e \in DOMAIN certificates : e # d => certificates'[e] = certificates[e]
    BY <1>3, CertifyCommitEffect
  <2>3. certificates'[d].status = result.verdict /\ certificates'[d].result = result
    BY <1>3, CommittedFields
  <2> QED
    BY <2>1, <2>2, <2>3 DEF VerdictIsStatus, Verdicts
<1>4. ASSUME NEW sender \in Accounts, NEW d \in DatasetIds,
             RevokeCertificate(sender, d)
      PROVE  VerdictIsStatus'
  <2>1. /\ d \in DOMAIN certificates
        /\ certificates[d].status = "CERTIFIED"
        /\ DOMAIN certificates' = DOMAIN certificates
        /\ \A e \in DOMAIN certificates : e # d => certificates'[e] = certificates[e]
    BY <1>4, RevokeCertificateEffect
  <2>2. certificates'[d].result = certificates[d].result
    BY <1>4, RevokedFields
  <2> QED
    BY <2>1, <2>2 DEF VerdictIsStatus
<1> QED
  BY <1>1, <1>2, <1>3, <1>4, CertificateStep

\* Time does not run backwards.
LEMMA ClockNext ==
    ASSUME RegistryTypeOK, [RegistryNext]_registryVars
    PROVE  now \in Nat /\ now' \in Nat /\ now <= now'
BY DEF RegistryTypeOK, RegistryNext, AdministerKeys, RegisterIssuerKey,
       RevokeIssuerKey, RotateIssuerKey, HandOver, Tick, registryVars

LEMMA PastNext == IInv /\ [Next]_vars => EvaluatedInThePast'
<1> SUFFICES ASSUME IInv, [Next]_vars
             PROVE  EvaluatedInThePast'
    OBVIOUS
<1> USE DEF IInv
<1>1. now \in Nat /\ now' \in Nat /\ now <= now'
  BY RegistryStep, ClockNext DEF TypeOK
<1>2. \A d \in DOMAIN certificates : certificates[d].evaluated_at <= now'
  BY <1>1, StoredTyped DEF EvaluatedInThePast
<1>3. CASE UNCHANGED certificateVars
  BY <1>2, <1>3 DEF certificateVars, EvaluatedInThePast
<1>4. ASSUME NEW sender \in Accounts, NEW call \in Calls,
             NoCallInFlight, RegisterDataset(sender, call)
      PROVE  EvaluatedInThePast'
  <2>1. /\ DOMAIN certificates' = DOMAIN certificates \cup {call.dataset_id}
        /\ \A d \in DOMAIN certificates : certificates'[d] = certificates[d]
    BY <1>4, RegisterDatasetEffect
  <2>2. certificates'[call.dataset_id].evaluated_at = 0
    BY <1>4, RegisteredFields
  <2> QED
    BY <1>1, <1>2, <2>1, <2>2 DEF EvaluatedInThePast
<1>5. ASSUME NEW s \in in_flight, NEW result, CertifyCommit(s, result)
      PROVE  EvaluatedInThePast'
  <2> DEFINE d == s.commitment.dataset_id
  <2>1. /\ DOMAIN certificates' = DOMAIN certificates
        /\ \A e \in DOMAIN certificates : e # d => certificates'[e] = certificates[e]
    BY <1>5, CertifyCommitEffect
  <2>2. certificates'[d].evaluated_at = s.now /\ s.now <= now /\ s.now \in Nat
    BY <1>5, CommittedFields, CurrentMeans DEF Snapshots
  <2> QED
    BY <1>1, <1>2, <2>1, <2>2 DEF EvaluatedInThePast
<1>6. ASSUME NEW sender \in Accounts, NEW d \in DatasetIds,
             RevokeCertificate(sender, d)
      PROVE  EvaluatedInThePast'
  <2>1. /\ d \in DOMAIN certificates
        /\ DOMAIN certificates' = DOMAIN certificates
        /\ \A e \in DOMAIN certificates : e # d => certificates'[e] = certificates[e]
    BY <1>6, RevokeCertificateEffect
  <2>2. certificates'[d].evaluated_at = certificates[d].evaluated_at
    BY <1>6, RevokedFields
  <2> QED
    BY <1>2, <2>1, <2>2 DEF EvaluatedInThePast
<1> QED
  BY <1>3, <1>4, <1>5, <1>6, CertificateStep

\* A key leaves ACTIVE at the time of the call that revokes or rotates it.
LEMMA RetirementIsNow ==
    ASSUME RegistryTypeOK, [RegistryNext]_registryVars
    PROVE  \A k \in DOMAIN issuer_keys :
             issuer_keys[k].status = "ACTIVE" /\ issuer_keys'[k].status # "ACTIVE"
               => issuer_keys'[k].revoked_at = now
<1> DEFINE Goal == \A k \in DOMAIN issuer_keys :
             issuer_keys[k].status = "ACTIVE" /\ issuer_keys'[k].status # "ACTIVE"
               => issuer_keys'[k].revoked_at = now
<1>1. ASSUME NEW sender, NEW request \in KeyRequests,
             RegisterIssuerKey(sender, request)
      PROVE  Goal
  <2>1. \A k \in DOMAIN issuer_keys : issuer_keys'[k] = issuer_keys[k]
    BY <1>1, RegisterEffect
  <2> QED
    BY <2>1
<1>2. ASSUME NEW sender, NEW k \in KeyIds, RevokeIssuerKey(sender, k)
      PROVE  Goal
  <2>1. /\ k \in DOMAIN issuer_keys /\ issuer_keys[k].status = "ACTIVE"
        /\ DOMAIN issuer_keys' = DOMAIN issuer_keys
        /\ issuer_keys'[k] = Revoked(issuer_keys[k])
        /\ \A l \in DOMAIN issuer_keys : l # k => issuer_keys'[l] = issuer_keys[l]
        /\ issuer_key_ids' = issuer_key_ids
        /\ now' = now
    BY <1>2, RevokeEffect
  <2>2. issuer_keys'[k].revoked_at = now
    BY <2>1, KeyTyped, RetiredKeepsIdentity
  <2> QED
    BY <2>1, <2>2
<1>3. ASSUME NEW sender, NEW old \in KeyIds, NEW request \in KeyRequests,
             RotateIssuerKey(sender, old, request)
      PROVE  Goal
  <2>1. /\ old \in DOMAIN issuer_keys /\ issuer_keys[old].status = "ACTIVE"
        /\ issuer_keys[old].issuer_id = request.issuer_id
        /\ request.key_id \in KeyIds \ DOMAIN issuer_keys
        /\ DOMAIN issuer_keys' = DOMAIN issuer_keys \cup {request.key_id}
        /\ issuer_keys'[request.key_id] = NewKey(request)
        /\ issuer_keys'[old] = RotatedTo(issuer_keys[old], request.key_id)
        /\ \A k \in DOMAIN issuer_keys : k # old => issuer_keys'[k] = issuer_keys[k]
        /\ issuer_key_ids' = Append(issuer_key_ids, request.key_id)
        /\ now' = now
    BY <1>3, RotateEffect
  <2>2. issuer_keys'[old].revoked_at = now
    BY <2>1, KeyTyped, RetiredKeepsIdentity
  <2> QED
    BY <2>1, <2>2
<1>4. CASE Tick \/ UNCHANGED registryVars
  BY <1>4 DEF Tick, registryVars
<1> QED
  BY <1>1, <1>2, <1>3, <1>4 DEF RegistryNext, AdministerKeys

\* What ConcludedWasAuthentic says of one commitment and evaluation time.
LEMMA AuthenticAfterKeys ==
    ASSUME IInv, [RegistryNext]_registryVars, UNCHANGED certificateVars
    PROVE  ConcludedWasAuthentic'
<1> USE DEF IInv
<1>1. certificates' = certificates
  BY DEF certificateVars
<1> SUFFICES ASSUME NEW d \in DOMAIN certificates, Concluded(certificates[d])
             PROVE  ConcludedWasAuthentic!(d)'
    BY <1>1 DEF ConcludedWasAuthentic, Concluded
<1> DEFINE k == certificates[d].commitment.key_id
           at == certificates[d].evaluated_at
<1>2. /\ k \in DOMAIN issuer_keys
      /\ issuer_keys[k].issuer_id = certificates[d].commitment.publisher_identity
      /\ VerifySecp256k1Sha256(issuer_keys[k].public_key,
                               certificates[d].commitment.signature,
                               StoredUnsigned(certificates[d].commitment))
      /\ DigestMatches(certificates[d].commitment)
      /\ certificates[d].commitment.issued_at <= at
      /\ at <= certificates[d].commitment.expires_at
      /\ issuer_keys[k].registered_at <= at
      /\ issuer_keys[k].status # "ACTIVE" => at <= issuer_keys[k].revoked_at
  BY DEF ConcludedWasAuthentic
<1>3. /\ k \in DOMAIN issuer_keys'
      /\ issuer_keys[k].status # "ACTIVE" => issuer_keys'[k] = issuer_keys[k]
      /\ issuer_keys'[k].issuer_id = issuer_keys[k].issuer_id
      /\ issuer_keys'[k].public_key = issuer_keys[k].public_key
      /\ issuer_keys'[k].registered_at = issuer_keys[k].registered_at
  BY <1>2, RegistryNextKeepsKeys DEF TypeOK, KeepsKeys
<1>4. issuer_keys'[k].status # "ACTIVE" => at <= issuer_keys'[k].revoked_at
  <2>1. CASE issuer_keys[k].status = "ACTIVE"
    <3>1. issuer_keys'[k].status # "ACTIVE" => issuer_keys'[k].revoked_at = now
      BY <1>2, <2>1, RetirementIsNow DEF TypeOK
    <3>2. at <= now
      BY DEF EvaluatedInThePast
    <3> QED
      BY <3>1, <3>2
  <2>2. CASE issuer_keys[k].status # "ACTIVE"
    BY <1>2, <1>3, <2>2
  <2> QED
    BY <2>1, <2>2
<1> QED
  BY <1>1, <1>2, <1>3, <1>4 DEF Concluded

LEMMA AuthenticNext == IInv /\ [Next]_vars => ConcludedWasAuthentic'
<1> SUFFICES ASSUME IInv, [Next]_vars
             PROVE  ConcludedWasAuthentic'
    OBVIOUS
<1> USE DEF IInv
<1>1. CASE UNCHANGED certificateVars
  BY <1>1, RegistryStep, AuthenticAfterKeys
<1>2. ASSUME NEW sender \in Accounts, NEW call \in Calls,
             NoCallInFlight, RegisterDataset(sender, call)
      PROVE  ConcludedWasAuthentic'
  <2>1. /\ DOMAIN certificates' = DOMAIN certificates \cup {call.dataset_id}
        /\ \A d \in DOMAIN certificates : certificates'[d] = certificates[d]
        /\ issuer_keys' = issuer_keys
    BY <1>2, RegisterDatasetEffect DEF registryVars
  <2>2. certificates'[call.dataset_id].status = "REGISTERED"
    BY <1>2, RegisteredFields
  <2>3. ~Concluded(certificates'[call.dataset_id])
    BY <2>2 DEF Concluded
  <2> QED
    BY <2>1, <2>3 DEF ConcludedWasAuthentic
<1>3. ASSUME NEW s \in in_flight, NEW o \in Observations,
             CertifyCommit(s, EvaluatePackage(s, o.served, o.answer))
      PROVE  ConcludedWasAuthentic'
  <2> DEFINE d == s.commitment.dataset_id
             result == EvaluatePackage(s, o.served, o.answer)
             new == certificates'[d]
  <2>1. /\ d \in DOMAIN certificates
        /\ DOMAIN certificates' = DOMAIN certificates
        /\ \A e \in DOMAIN certificates : e # d => certificates'[e] = certificates[e]
        /\ issuer_keys' = issuer_keys
    BY <1>3, CertifyCommitEffect DEF registryVars
  <2>2. /\ new.commitment = s.commitment
        /\ new.status = result.verdict
        /\ new.evaluated_at = s.now
    BY <1>3, CommittedFields
  <2>3. Concluded(new) => result.verdict # "INCONCLUSIVE"
    BY <2>2 DEF Concluded
  <2> HIDE DEF result
  <2>4. Concluded(new) => ConcludedWasAuthentic!(d)'
    <3> SUFFICES ASSUME Concluded(new)
                 PROVE  ConcludedWasAuthentic!(d)'
        OBVIOUS
    <3>1. /\ s.commitment.key_id \in DOMAIN issuer_keys
          /\ issuer_keys[s.commitment.key_id].status = "ACTIVE"
          /\ issuer_keys[s.commitment.key_id].issuer_id
               = s.commitment.publisher_identity
          /\ VerifySecp256k1Sha256(issuer_keys[s.commitment.key_id].public_key,
                                   s.commitment.signature,
                                   StoredUnsigned(s.commitment))
          /\ DigestMatches(s.commitment)
          /\ s.commitment.issued_at <= s.now
          /\ s.now <= s.commitment.expires_at
      BY <2>3, FinalVerdictMeans DEF result
    <3>2. issuer_keys[s.commitment.key_id].registered_at <= s.now
      BY <3>1 DEF SnapshotFollowsKey
    <3> QED
      BY <2>1, <2>2, <3>1, <3>2
  <2>5. ASSUME NEW e \in DOMAIN certificates, e # d
        PROVE  ConcludedWasAuthentic!(e)'
    <3>1. certificates'[e] = certificates[e] /\ issuer_keys' = issuer_keys
      BY <2>1, <2>5
    <3> QED
      BY <3>1 DEF ConcludedWasAuthentic
  <2> QED
    BY <2>1, <2>4, <2>5 DEF ConcludedWasAuthentic
<1>4. ASSUME NEW sender \in Accounts, NEW d \in DatasetIds,
             RevokeCertificate(sender, d)
      PROVE  ConcludedWasAuthentic'
  <2>1. /\ d \in DOMAIN certificates
        /\ certificates[d].status = "CERTIFIED"
        /\ DOMAIN certificates' = DOMAIN certificates
        /\ \A e \in DOMAIN certificates : e # d => certificates'[e] = certificates[e]
        /\ issuer_keys' = issuer_keys
    BY <1>4, RevokeCertificateEffect DEF registryVars
  <2>2. /\ certificates'[d].commitment = certificates[d].commitment
        /\ certificates'[d].evaluated_at = certificates[d].evaluated_at
    BY <1>4, RevokedFields
  <2>3. \A e \in DOMAIN certificates :
          Concluded(certificates'[e]) => Concluded(certificates[e])
    BY <2>1 DEF Concluded
  <2>4. \A e \in DOMAIN certificates :
          /\ certificates'[e].commitment = certificates[e].commitment
          /\ certificates'[e].evaluated_at = certificates[e].evaluated_at
    BY <2>1, <2>2
  <2> QED
    BY <2>1, <2>3, <2>4 DEF ConcludedWasAuthentic
<1> QED
  BY <1>1, <1>2, <1>3, <1>4, CertificateStep

-----------------------------------------------------------------------------
(* Why an evaluation was refused, when it was and ever after.              *)

\* A key enters the registry ACTIVE, at the time of the call.
LEMMA RegistrationIsNow ==
    ASSUME RegistryTypeOK, [RegistryNext]_registryVars
    PROVE  \A k \in DOMAIN issuer_keys' \ DOMAIN issuer_keys :
             /\ issuer_keys'[k].status = "ACTIVE"
             /\ issuer_keys'[k].registered_at = now
<1> DEFINE Goal == \A k \in DOMAIN issuer_keys' \ DOMAIN issuer_keys :
             /\ issuer_keys'[k].status = "ACTIVE"
             /\ issuer_keys'[k].registered_at = now
<1>1. ASSUME NEW sender, NEW request \in KeyRequests,
             RegisterIssuerKey(sender, request)
      PROVE  Goal
  <2>1. /\ DOMAIN issuer_keys' = DOMAIN issuer_keys \cup {request.key_id}
        /\ issuer_keys'[request.key_id] = NewKey(request)
    BY <1>1, RegisterEffect
  <2> QED
    BY <2>1 DEF NewKey
<1>2. ASSUME NEW sender, NEW k \in KeyIds, RevokeIssuerKey(sender, k)
      PROVE  Goal
  BY <1>2, RevokeEffect
<1>3. ASSUME NEW sender, NEW old \in KeyIds, NEW request \in KeyRequests,
             RotateIssuerKey(sender, old, request)
      PROVE  Goal
  <2>1. /\ old \in DOMAIN issuer_keys /\ issuer_keys[old].status = "ACTIVE"
        /\ issuer_keys[old].issuer_id = request.issuer_id
        /\ request.key_id \in KeyIds \ DOMAIN issuer_keys
        /\ DOMAIN issuer_keys' = DOMAIN issuer_keys \cup {request.key_id}
        /\ issuer_keys'[request.key_id] = NewKey(request)
        /\ issuer_keys'[old] = RotatedTo(issuer_keys[old], request.key_id)
        /\ \A k \in DOMAIN issuer_keys : k # old => issuer_keys'[k] = issuer_keys[k]
        /\ issuer_key_ids' = Append(issuer_key_ids, request.key_id)
        /\ now' = now
    BY <1>3, RotateEffect
  <2> QED
    BY <2>1 DEF NewKey
<1>4. CASE Tick \/ UNCHANGED registryVars
  BY <1>4 DEF Tick, registryVars
<1> QED
  BY <1>1, <1>2, <1>3, <1>4 DEF RegistryNext, AdministerKeys

LEMMA RetiredNext == IInv /\ [Next]_vars => RetiredInThePast'
<1> SUFFICES ASSUME IInv, [Next]_vars, NEW k \in DOMAIN issuer_keys',
                    issuer_keys'[k].status # "ACTIVE"
             PROVE  issuer_keys'[k].revoked_at <= now'
    BY DEF RetiredInThePast
<1>1. RegistryTypeOK /\ [RegistryNext]_registryVars
  BY RegistryStep DEF IInv, TypeOK
<1>2. now \in Nat /\ now <= now'
  BY <1>1, ClockNext DEF RegistryTypeOK
<1>3. k \in DOMAIN issuer_keys
  BY <1>1, RegistrationIsNow
<1>4. CASE issuer_keys[k].status = "ACTIVE"
  BY <1>1, <1>2, <1>3, <1>4, RetirementIsNow
<1>5. CASE issuer_keys[k].status # "ACTIVE"
  <2>1. issuer_keys'[k] = issuer_keys[k] /\ issuer_keys[k].revoked_at \in Nat
    BY <1>1, <1>3, <1>5, RegistryNextKeepsKeys, KeyTyped DEF KeepsKeys
  <2>2. issuer_keys[k].revoked_at <= now
    BY <1>3, <1>5 DEF IInv, RetiredInThePast
  <2>3. now' \in Nat
    BY <1>1, ClockNext
  <2> QED
    BY <1>2, <2>1, <2>2, <2>3
<1> QED
  BY <1>4, <1>5

(* RefusalHadCause for one dataset d with commitment c, evaluated at time   *)
(* at with this level, in a storage with these keys and used nonces.       *)
IsExplained(keys, nonces, d, c, level, at) ==
    LET key == keys[c.key_id]
    IN  /\ level = "MANIFEST_DIGEST_MISMATCH" => ~DigestMatches(c)
        /\ level = "REPLAYED" => /\ c.nonce \in DOMAIN nonces
                                 /\ nonces[c.nonce] # d
        /\ level = "NOT_YET_VALID" => at < c.issued_at
        /\ level = "EXPIRED" => at > c.expires_at
        /\ level = "UNREGISTERED_ISSUER" /\ c.key_id \in DOMAIN keys =>
             at <= key.registered_at
        /\ level \in KeyRefusals =>
             c.key_id \in DOMAIN keys /\ key.registered_at <= at
        /\ level = "MANIFEST_MISMATCH" => key.issuer_id # c.publisher_identity
        /\ level = "REVOKED_ISSUER" => key.status = "REVOKED" /\ key.revoked_at <= at
        /\ level = "ROTATED_KEY" => key.status = "ROTATED" /\ key.revoked_at <= at
        /\ level = "INVALID_SIGNATURE" =>
             ~VerifySecp256k1Sha256(key.public_key, c.signature, StoredUnsigned(c))

LEMMA CauseIsExplained ==
    RefusalHadCause <=>
      \A d \in DOMAIN certificates :
        IsExplained(issuer_keys, used_nonces, d, certificates[d].commitment,
                    certificates[d].result.authentication_status,
                    certificates[d].evaluated_at)
BY DEF RefusalHadCause, IsExplained

\* A nonce once used stays used, by the same dataset.
LEMMA LedgerOnlyGrows ==
    ASSUME IInv, [Next]_vars
    PROVE  \A n \in DOMAIN used_nonces : /\ n \in DOMAIN used_nonces'
                                         /\ used_nonces'[n] = used_nonces[n]
<1> USE DEF IInv
<1>1. CASE UNCHANGED certificateVars
  BY <1>1 DEF certificateVars
<1>2. ASSUME NEW sender \in Accounts, NEW call \in Calls,
             NoCallInFlight, RegisterDataset(sender, call)
      PROVE  used_nonces' = used_nonces
  BY <1>2, RegisterDatasetEffect
<1>3. ASSUME NEW s \in in_flight, NEW o \in Observations,
             CertifyCommit(s, EvaluatePackage(s, o.served, o.answer))
      PROVE  \A n \in DOMAIN used_nonces : /\ n \in DOMAIN used_nonces'
                                           /\ used_nonces'[n] = used_nonces[n]
  <2> DEFINE result == EvaluatePackage(s, o.served, o.answer)
  <2>1. used_nonces' = IF result.verdict # "INCONCLUSIVE"
                       THEN Put(used_nonces, s.commitment.nonce,
                                s.commitment.dataset_id)
                       ELSE used_nonces
    BY <1>3, CertifyCommitEffect
  <2>2. result.verdict # "INCONCLUSIVE" =>
          s.commitment.nonce \notin DOMAIN used_nonces
    BY FinalVerdictMeans
  <2> HIDE DEF result
  <2> QED
    BY <2>1, <2>2 DEF Put
<1>4. ASSUME NEW sender \in Accounts, NEW d \in DatasetIds,
             RevokeCertificate(sender, d)
      PROVE  used_nonces' = used_nonces
  BY <1>4, RevokeCertificateEffect
<1> QED
  BY <1>1, <1>2, <1>3, <1>4, CertificateStep

\* Later steps of the registry and of the ledger leave the cause in place.
LEMMA CauseStays ==
    ASSUME RegistryTypeOK, [RegistryNext]_registryVars,
           \A n \in DOMAIN used_nonces : /\ n \in DOMAIN used_nonces'
                                         /\ used_nonces'[n] = used_nonces[n],
           NEW d, NEW c, NEW level, NEW at, at <= now,
           IsExplained(issuer_keys, used_nonces, d, c, level, at)
    PROVE  IsExplained(issuer_keys', used_nonces', d, c, level, at)
<1> DEFINE k == c.key_id
<1>1. k \in DOMAIN issuer_keys =>
        /\ k \in DOMAIN issuer_keys'
        /\ issuer_keys[k].status # "ACTIVE" => issuer_keys'[k] = issuer_keys[k]
        /\ issuer_keys'[k].issuer_id = issuer_keys[k].issuer_id
        /\ issuer_keys'[k].public_key = issuer_keys[k].public_key
        /\ issuer_keys'[k].registered_at = issuer_keys[k].registered_at
  BY RegistryNextKeepsKeys DEF KeepsKeys
<1>2. k \in DOMAIN issuer_keys' \ DOMAIN issuer_keys =>
        issuer_keys'[k].registered_at = now
  BY RegistrationIsNow
<1>3. level = "UNREGISTERED_ISSUER" /\ k \in DOMAIN issuer_keys' =>
        at <= issuer_keys'[k].registered_at
  BY <1>1, <1>2 DEF IsExplained
<1>4. level \in KeyRefusals =>
        k \in DOMAIN issuer_keys' /\ issuer_keys'[k].registered_at <= at
  BY <1>1 DEF IsExplained
<1>5. /\ level = "REVOKED_ISSUER" =>
           issuer_keys'[k].status = "REVOKED" /\ issuer_keys'[k].revoked_at <= at
      /\ level = "ROTATED_KEY" =>
           issuer_keys'[k].status = "ROTATED" /\ issuer_keys'[k].revoked_at <= at
  BY <1>1 DEF IsExplained, KeyRefusals
<1>6. /\ level = "MANIFEST_MISMATCH" => issuer_keys'[k].issuer_id # c.publisher_identity
      /\ level = "INVALID_SIGNATURE" =>
           ~VerifySecp256k1Sha256(issuer_keys'[k].public_key, c.signature,
                                  StoredUnsigned(c))
  BY <1>1 DEF IsExplained, KeyRefusals
<1> QED
  BY <1>3, <1>4, <1>5, <1>6 DEF IsExplained

\* What the evaluation of a current snapshot says, storage shows.
LEMMA EvaluationHasCause ==
    ASSUME TypeOK, SnapshotIsCurrent, SnapshotFollowsKey, NonceLedgerIsExact,
           NEW s \in in_flight
    PROVE  IsExplained(issuer_keys, used_nonces, s.commitment.dataset_id,
                       s.commitment, AuthenticateStoredManifest(s), s.now)
<1> DEFINE d == s.commitment.dataset_id
           c == s.commitment
           k == s.commitment.key_id
           level == AuthenticateStoredManifest(s)
<1>1. /\ s \in Snapshots
      /\ d \in DOMAIN certificates
      /\ ~Concluded(certificates[d])
      /\ s.replay_blocked = (c.nonce \in DOMAIN used_nonces)
      /\ k \in DOMAIN issuer_keys =>
           /\ s.issuer_status = issuer_keys[k].status
           /\ s.issuer_id = issuer_keys[k].issuer_id
           /\ s.public_key = issuer_keys[k].public_key
      /\ k \notin DOMAIN issuer_keys => s.issuer_status = NoIssuerStatus
  BY CurrentMeans
<1>2. k \in DOMAIN issuer_keys =>
        /\ issuer_keys[k].status \in IssuerStatus
        /\ issuer_keys[k].registered_at <= s.now
        /\ issuer_keys[k].status # "ACTIVE" => issuer_keys[k].revoked_at <= s.now
  BY KeyTyped DEF TypeOK, SnapshotFollowsKey
<1>3. level = "REPLAYED" => /\ c.nonce \in DOMAIN used_nonces
                            /\ used_nonces[c.nonce] # d
  <2>1. level = "REPLAYED" => s.replay_blocked
    BY DEF AuthenticateStoredManifest
  <2>2. c.nonce \in DOMAIN used_nonces => used_nonces[c.nonce] # d
    BY <1>1 DEF NonceLedgerIsExact
  <2> QED
    BY <1>1, <2>1, <2>2
<1>4. /\ level = "MANIFEST_DIGEST_MISMATCH" => ~DigestMatches(c)
      /\ level = "NOT_YET_VALID" => s.now < c.issued_at
      /\ level = "EXPIRED" => s.now > c.expires_at
  BY DEF AuthenticateStoredManifest
<1>5. /\ level \in KeyRefusals => s.issuer_status # NoIssuerStatus
      /\ level = "MANIFEST_MISMATCH" => s.issuer_id # c.publisher_identity
      /\ level = "REVOKED_ISSUER" => s.issuer_status = "REVOKED"
      /\ level = "ROTATED_KEY" => s.issuer_status = "ROTATED"
      /\ level = "INVALID_SIGNATURE" =>
           ~VerifySecp256k1Sha256(s.public_key, c.signature, StoredUnsigned(c))
      /\ level = "UNREGISTERED_ISSUER" =>
           s.issuer_status \notin {"ACTIVE", "REVOKED", "ROTATED"}
  BY DEF AuthenticateStoredManifest, KeyRefusals, NoIssuerStatus
<1> HIDE DEF level
<1>6. level = "UNREGISTERED_ISSUER" => k \notin DOMAIN issuer_keys
  BY <1>1, <1>2, <1>5 DEF IssuerStatus
<1>7. level \in KeyRefusals => k \in DOMAIN issuer_keys
  BY <1>1, <1>5
<1>8. /\ level = "MANIFEST_MISMATCH" => issuer_keys[k].issuer_id # c.publisher_identity
      /\ level = "REVOKED_ISSUER" =>
           issuer_keys[k].status = "REVOKED" /\ issuer_keys[k].revoked_at <= s.now
      /\ level = "ROTATED_KEY" =>
           issuer_keys[k].status = "ROTATED" /\ issuer_keys[k].revoked_at <= s.now
      /\ level = "INVALID_SIGNATURE" =>
           ~VerifySecp256k1Sha256(issuer_keys[k].public_key, c.signature,
                                  StoredUnsigned(c))
  BY <1>1, <1>2, <1>5, <1>7 DEF KeyRefusals
<1>9. IsExplained(issuer_keys, used_nonces, d, c, level, s.now)
  BY <1>2, <1>3, <1>4, <1>6, <1>7, <1>8 DEF IsExplained
<1> QED
  BY <1>9 DEF level

\* The level that is stored is the evaluation's.
LEMMA StoredLevel ==
    ASSUME NEW s, NEW served, NEW answer
    PROVE  EvaluatePackage(s, served, answer).authentication_status
             = AuthenticateStoredManifest(s)
BY DEF EvaluatePackage, JudgeEvidence, InconclusiveResult, Result

LEMMA CauseNext == IInv /\ [Next]_vars => RefusalHadCause'
<1> SUFFICES ASSUME IInv, [Next]_vars, NEW d \in DOMAIN certificates'
             PROVE  IsExplained(issuer_keys', used_nonces', d, certificates'[d].commitment,
                                certificates'[d].result.authentication_status,
                                certificates'[d].evaluated_at)
    BY DEF RefusalHadCause, IsExplained
<1> USE DEF IInv
<1>1. RegistryTypeOK /\ [RegistryNext]_registryVars
  BY RegistryStep DEF TypeOK
<1>2. \A n \in DOMAIN used_nonces : /\ n \in DOMAIN used_nonces'
                                    /\ used_nonces'[n] = used_nonces[n]
  BY LedgerOnlyGrows
<1>3. ASSUME d \in DOMAIN certificates,
             certificates'[d].commitment = certificates[d].commitment,
             certificates'[d].result = certificates[d].result,
             certificates'[d].evaluated_at = certificates[d].evaluated_at
      PROVE  IsExplained(issuer_keys', used_nonces', d, certificates'[d].commitment,
                         certificates'[d].result.authentication_status,
                         certificates'[d].evaluated_at)
  <2>1. /\ certificates[d].evaluated_at <= now
        /\ IsExplained(issuer_keys, used_nonces, d, certificates[d].commitment,
                       certificates[d].result.authentication_status,
                       certificates[d].evaluated_at)
    BY <1>3, CauseIsExplained DEF EvaluatedInThePast
  <2> QED
    BY <1>1, <1>2, <1>3, <2>1, CauseStays
<1>4. CASE UNCHANGED certificateVars
  BY <1>3, <1>4 DEF certificateVars
<1>5. ASSUME NEW sender \in Accounts, NEW call \in Calls,
             NoCallInFlight, RegisterDataset(sender, call)
      PROVE  IsExplained(issuer_keys', used_nonces', d, certificates'[d].commitment,
                         certificates'[d].result.authentication_status,
                         certificates'[d].evaluated_at)
  <2>1. CASE d \in DOMAIN certificates
    BY <1>3, <1>5, <2>1, RegisterDatasetEffect
  <2>2. CASE d \notin DOMAIN certificates
    <3>1. certificates'[d].result = UnevaluatedResult
      BY <1>5, <2>2, RegisterDatasetEffect, RegisteredFields
    <3>2. certificates'[d].result.authentication_status = "NOT_EVALUATED"
      BY <3>1 DEF UnevaluatedResult, Result
    <3> QED
      BY <3>2 DEF IsExplained, KeyRefusals
  <2> QED
    BY <2>1, <2>2
<1>6. ASSUME NEW s \in in_flight, NEW o \in Observations,
             CertifyCommit(s, EvaluatePackage(s, o.served, o.answer))
      PROVE  IsExplained(issuer_keys', used_nonces', d, certificates'[d].commitment,
                         certificates'[d].result.authentication_status,
                         certificates'[d].evaluated_at)
  <2> DEFINE e == s.commitment.dataset_id
             result == EvaluatePackage(s, o.served, o.answer)
  <2>1. /\ DOMAIN certificates' = DOMAIN certificates
        /\ d # e => certificates'[d] = certificates[d]
        /\ e \in DOMAIN certificates
    BY <1>6, CertifyCommitEffect
  <2>2. CASE d # e
    BY <1>3, <2>1, <2>2
  <2>3. CASE d = e
    <3>1. /\ certificates'[e].commitment = s.commitment
          /\ certificates'[e].result = result
          /\ certificates'[e].evaluated_at = s.now
      BY <1>6, CommittedFields
    <3>2. result.authentication_status = AuthenticateStoredManifest(s)
      BY StoredLevel
    <3>3. IsExplained(issuer_keys, used_nonces, e, s.commitment,
                      AuthenticateStoredManifest(s), s.now)
      BY EvaluationHasCause
    <3>4. s.now <= now
      BY CurrentMeans
    <3> HIDE DEF result
    <3>5. IsExplained(issuer_keys', used_nonces', e, s.commitment,
                      AuthenticateStoredManifest(s), s.now)
      BY <1>1, <1>2, <3>3, <3>4, CauseStays
    <3> QED
      BY <2>3, <3>1, <3>2, <3>5
  <2> QED
    BY <2>2, <2>3
<1>7. ASSUME NEW sender \in Accounts, NEW e \in DatasetIds,
             RevokeCertificate(sender, e)
      PROVE  IsExplained(issuer_keys', used_nonces', d, certificates'[d].commitment,
                         certificates'[d].result.authentication_status,
                         certificates'[d].evaluated_at)
  <2>1. /\ DOMAIN certificates' = DOMAIN certificates
        /\ d # e => certificates'[d] = certificates[d]
    BY <1>7, RevokeCertificateEffect
  <2> QED
    BY <1>3, <1>7, <2>1, RevokedFields
<1> QED
  BY <1>4, <1>5, <1>6, <1>7, CertificateStep

-----------------------------------------------------------------------------
(* The invariant holds at the start, is kept by every step, and implies    *)
(* each of the properties.                                                 *)

LEMMA IInvInit == Init => IInv
<1> SUFFICES ASSUME Init
             PROVE  IInv
    OBVIOUS
<1>1. TypeOK
  BY TypeInit
<1>2. RegistryInv
  BY RegistryInvInit DEF Init
<1>3. /\ DOMAIN certificates = {}
      /\ DOMAIN used_nonces = {}
      /\ DOMAIN certificate_ids = {}
      /\ DOMAIN issuer_keys = {}
      /\ in_flight = {}
  BY DEF Init, RegistryInit
<1> QED
  BY <1>1, <1>2, <1>3
     DEF IInv, CertificateListIsComplete, NonceLedgerIsExact, SnapshotIsCurrent,
         SnapshotFollowsKey, EvaluatedInThePast, ConcludedWasAuthentic,
         RetiredInThePast, RecordMatchesCertificate, LevelsExplainStatus,
         VerdictIsStatus, RefusalHadCause

LEMMA IInvNext == IInv /\ [Next]_vars => IInv'
<1> SUFFICES ASSUME IInv, [Next]_vars
             PROVE  IInv'
    OBVIOUS
<1>1. TypeOK'
  BY TypeNext DEF IInv
<1>2. RegistryInv'
  BY RegistryStep, RegistryInvNext DEF IInv
<1>3. CertificateListIsComplete'
  BY ListNext
<1>4. NonceLedgerIsExact'
  BY LedgerNext
<1>5. SnapshotIsCurrent' /\ SnapshotFollowsKey'
  BY SnapshotNext
<1>6. EvaluatedInThePast'
  BY PastNext
<1>7. ConcludedWasAuthentic'
  BY AuthenticNext
<1>8. RecordMatchesCertificate'
  BY RecordNext
<1>9. LevelsExplainStatus'
  BY LevelsNext
<1> QED
  BY <1>1, <1>2, <1>3, <1>4, <1>5, <1>6, <1>7, <1>8, <1>9, RetiredNext, VerdictNext,
     CauseNext DEF IInv

LEMMA Invariance == Spec => []IInv
  BY IInvInit, IInvNext, PTL DEF Spec

(* Every reachable state is typed; in particular no certificate is         *)
(* evaluated more than MAX_CERTIFICATION_ATTEMPTS times.                   *)
THEOREM TypeCorrect == Spec => []TypeOK
<1>1. IInv => TypeOK
  BY DEF IInv
<1> QED
  BY <1>1, Invariance, PTL

(* The list behind get_certificates names every certificate exactly once.  *)
THEOREM CertificateListCorrect == Spec => []CertificateListIsComplete
<1>1. IInv => CertificateListIsComplete
  BY DEF IInv
<1> QED
  BY <1>1, Invariance, PTL

(* used_nonces holds exactly the final verdicts.                           *)
THEOREM NonceLedgerCorrect == Spec => []NonceLedgerIsExact
<1>1. IInv => NonceLedgerIsExact
  BY DEF IInv
<1> QED
  BY <1>1, Invariance, PTL

(* No nonce is behind two final verdicts: two datasets concluded with it   *)
(* would both be the ledger's entry for it.                                *)
THEOREM NonceSingleUseCorrect == Spec => []NonceSingleUse
<1>1. NonceLedgerIsExact => NonceSingleUse
  BY DEF NonceLedgerIsExact, NonceSingleUse
<1> QED
  BY <1>1, NonceLedgerCorrect, PTL

(* Every final verdict rests on an authentic manifest, for ever.           *)
THEOREM ConcludedWasAuthenticCorrect == Spec => []ConcludedWasAuthentic
<1>1. IInv => ConcludedWasAuthentic
  BY DEF IInv
<1> QED
  BY <1>1, Invariance, PTL

(* Every refusal had its cause, and storage shows it, for ever.            *)
THEOREM RefusalHadCauseCorrect == Spec => []RefusalHadCause
<1>1. IInv => RefusalHadCause
  BY DEF IInv
<1> QED
  BY <1>1, Invariance, PTL

(* The record of a certificate is its latest evaluation.                   *)
THEOREM RecordMatchesCorrect == Spec => []RecordMatchesCertificate
<1>1. IInv => RecordMatchesCertificate
  BY DEF IInv
<1> QED
  BY <1>1, Invariance, PTL

(* Four positive levels are stored beside CERTIFIED, and REVOKED after it, *)
(* and beside no other status: a result whose levels say more than its     *)
(* verdict is never written.                                               *)
THEOREM LevelsExplainCorrect == Spec => []LevelsExplainStatus
<1>1. IInv => LevelsExplainStatus
  BY DEF IInv
<1> QED
  BY <1>1, Invariance, PTL

-----------------------------------------------------------------------------
(* What no step may do.                                                    *)

LEMMA NextKeepsOutcomes == IInv /\ [Next]_vars => KeepsOutcomes
<1> SUFFICES ASSUME IInv, [Next]_vars
             PROVE  KeepsOutcomes
    OBVIOUS
<1> USE DEF IInv
<1>1. CASE UNCHANGED certificateVars
  BY <1>1 DEF certificateVars, KeepsOutcomes
<1>2. ASSUME NEW sender \in Accounts, NEW call \in Calls,
             NoCallInFlight, RegisterDataset(sender, call)
      PROVE  KeepsOutcomes
  <2>1. /\ DOMAIN certificates \subseteq DOMAIN certificates'
        /\ \A d \in DOMAIN certificates : certificates'[d] = certificates[d]
    BY <1>2, RegisterDatasetEffect
  <2> QED
    BY <2>1 DEF KeepsOutcomes
<1>3. ASSUME NEW s \in in_flight, NEW o \in Observations,
             CertifyCommit(s, EvaluatePackage(s, o.served, o.answer))
      PROVE  KeepsOutcomes
  <2> DEFINE d == s.commitment.dataset_id
             result == EvaluatePackage(s, o.served, o.answer)
  <2>1. /\ d \in DOMAIN certificates
        /\ DOMAIN certificates' = DOMAIN certificates
        /\ \A e \in DOMAIN certificates : e # d => certificates'[e] = certificates[e]
    BY <1>3, CertifyCommitEffect
  <2>2. /\ certificates'[d].commitment = certificates[d].commitment
        /\ certificates'[d].submitter = certificates[d].submitter
    BY <1>3, CommittedFields
  <2>3. ~Concluded(certificates[d])
    BY CurrentMeans
  <2> QED
    BY <2>1, <2>2, <2>3 DEF KeepsOutcomes
<1>4. ASSUME NEW sender \in Accounts, NEW d \in DatasetIds,
             RevokeCertificate(sender, d)
      PROVE  KeepsOutcomes
  <2>1. /\ d \in DOMAIN certificates
        /\ certificates[d].status = "CERTIFIED"
        /\ DOMAIN certificates' = DOMAIN certificates
        /\ certificates'[d] = [certificates[d] EXCEPT !.status = "REVOKED",
                                                      !.revoked_at = now]
        /\ \A e \in DOMAIN certificates : e # d => certificates'[e] = certificates[e]
    BY <1>4, RevokeCertificateEffect
  <2>2. /\ certificates[d] \in Certificates
        /\ now \in Nat
    BY <2>1, StoredTyped DEF TypeOK, RegistryTypeOK
  <2>3. /\ certificates'[d].commitment = certificates[d].commitment
        /\ certificates'[d].submitter = certificates[d].submitter
        /\ certificates'[d].revoked_at = now
    BY <2>1, <2>2 DEF Certificates
  <2> QED
    BY <2>1, <2>3 DEF KeepsOutcomes
<1> QED
  BY <1>1, <1>2, <1>3, <1>4, CertificateStep

(* No call rewrites a registered commitment or a final verdict.            *)
THEOREM OutcomeIsFinalCorrect == Spec => OutcomeIsFinal
<1>1. IInv /\ [Next]_vars => [KeepsOutcomes]_vars
  BY NextKeepsOutcomes
<1> QED
  BY <1>1, Invariance, PTL DEF Spec, OutcomeIsFinal

LEMMA NextConcludesWithActiveKey ==
    IInv /\ [Next]_vars => ConcludesWithActiveKey
<1> SUFFICES ASSUME IInv, [Next]_vars
             PROVE  ConcludesWithActiveKey
    OBVIOUS
<1> USE DEF IInv
<1>1. CASE UNCHANGED certificateVars
  BY <1>1 DEF certificateVars, ConcludesWithActiveKey
<1>2. ASSUME NEW sender \in Accounts, NEW call \in Calls,
             NoCallInFlight, RegisterDataset(sender, call)
      PROVE  ConcludesWithActiveKey
  <2>1. \A d \in DOMAIN certificates : certificates'[d] = certificates[d]
    BY <1>2, RegisterDatasetEffect
  <2> QED
    BY <2>1 DEF ConcludesWithActiveKey
<1>3. ASSUME NEW s \in in_flight, NEW o \in Observations,
             CertifyCommit(s, EvaluatePackage(s, o.served, o.answer))
      PROVE  ConcludesWithActiveKey
  <2> DEFINE d == s.commitment.dataset_id
             result == EvaluatePackage(s, o.served, o.answer)
  <2>1. \A e \in DOMAIN certificates : e # d => certificates'[e] = certificates[e]
    BY <1>3, CertifyCommitEffect
  <2>2. certificates'[d].status = result.verdict
    BY <1>3, CommittedFields
  <2>3. certificates[d].commitment = s.commitment
    BY CurrentMeans
  <2>4. Concluded(certificates'[d]) => result.verdict # "INCONCLUSIVE"
    BY <2>2 DEF Concluded
  <2>5. result.verdict # "INCONCLUSIVE" =>
          /\ s.commitment.nonce \notin DOMAIN used_nonces
          /\ s.commitment.key_id \in DOMAIN issuer_keys
          /\ issuer_keys[s.commitment.key_id].status = "ACTIVE"
    BY FinalVerdictMeans
  <2> HIDE DEF result
  <2> QED
    BY <2>1, <2>3, <2>4, <2>5 DEF ConcludesWithActiveKey, IsActiveKey
<1>4. ASSUME NEW sender \in Accounts, NEW d \in DatasetIds,
             RevokeCertificate(sender, d)
      PROVE  ConcludesWithActiveKey
  <2>1. /\ certificates[d].status = "CERTIFIED"
        /\ \A e \in DOMAIN certificates : e # d => certificates'[e] = certificates[e]
    BY <1>4, RevokeCertificateEffect
  <2> QED
    BY <2>1 DEF ConcludesWithActiveKey, Concluded
<1> QED
  BY <1>1, <1>2, <1>3, <1>4, CertificateStep

(* A verdict becomes final only while its key is ACTIVE and its nonce      *)
(* unused.                                                                 *)
THEOREM VerdictNeedsActiveKeyCorrect == Spec => VerdictNeedsActiveKey
<1>1. IInv /\ [Next]_vars => [ConcludesWithActiveKey]_vars
  BY NextConcludesWithActiveKey
<1> QED
  BY <1>1, Invariance, PTL DEF Spec, VerdictNeedsActiveKey
=============================================================================
