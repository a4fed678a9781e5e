---------------------------- MODULE ConsumerProofs ----------------------------
(***************************************************************************)
(* What a client reads stays true as history, and what it accepts was      *)
(* certified: for any numbers of clients, datasets, keys and calls.        *)
(*                                                                         *)
(* The contract does not notice its readers, so IInv carries over.  To it  *)
(* is added what is known of a copy: the stored certificate is a later     *)
(* stage of it, and whatever explained its status when it was read.        *)
(***************************************************************************)
EXTENDS ConsumerGate, DatasetBondProofs

Certified == Result("CERTIFIED", "VERIFIED", "AUTHENTICATED", "COMPATIBLE",
                    "COMPLETE")

ListedInv ==
    \A c \in Consumers :
        /\ Len(listed[c]) <= Len(certificate_ids)
        /\ \A i \in DOMAIN listed[c] : listed[c][i] = certificate_ids[i]

\* What is known of a copy that was read at a time.
IsSoundCopy(copy, read_at) ==
    LET d == copy.commitment.dataset_id IN
    /\ copy \in Certificates
    /\ read_at \in Nat /\ read_at <= now
    /\ d \in DOMAIN certificates
    /\ IsLaterThan(certificates[d], copy)
    /\ copy.status = "CERTIFIED" =>
         /\ copy.result = Certified
         /\ copy.certification_record # << >>
         /\ certificates[d].status = "REVOKED" =>
              read_at <= certificates[d].revoked_at

HeldInv ==
    \A c \in Consumers :
        held[c] # << >> => IsSoundCopy(held[c][1].certificate, held[c][1].read_at)

DecisionInv ==
    \A c \in Consumers :
        /\ decision[c] # "none" => held[c] # << >>
        /\ decision[c] = "accepted" =>
             AcceptCertificate(held[c][1].certificate, ExpectedProfile[c])
        /\ decision[c] = "refused" =>
             ~AcceptCertificate(held[c][1].certificate, ExpectedProfile[c])

ConsumerTypeOK ==
    /\ listed \in [Consumers -> Seq(DatasetIds)]
    /\ held \in [Consumers -> Seq([certificate : Certificates, read_at : Nat])]
    /\ decision \in [Consumers -> {"none", "accepted", "refused"}]

GateInv ==
    IInv /\ ConsumerTypeOK /\ ListedInv /\ HeldInv /\ DecisionInv

-----------------------------------------------------------------------------
(* One step of the contract, seen by a reader. *)

\* What a reader may see change between two states of the contract.
KeepsHistory ==
    /\ Len(certificate_ids) <= Len(certificate_ids')
    /\ \A i \in DOMAIN certificate_ids : certificate_ids'[i] = certificate_ids[i]
    /\ now <= now'
    /\ \A d \in DOMAIN certificates :
         /\ d \in DOMAIN certificates'
         /\ IsLaterThan(certificates'[d], certificates[d])
         /\ certificates[d].status = "CERTIFIED" /\ certificates'[d].status = "REVOKED"
              => certificates'[d].revoked_at = now

LEMMA SameIsLater == ASSUME NEW c \in Certificates PROVE IsLaterThan(c, c)
<1>1. c.attempts \in Int
  BY AttemptLimitAssumption DEF Certificates
<1> QED
  BY <1>1 DEF IsLaterThan

LEMMA LaterIsTransitive ==
    ASSUME NEW a \in Certificates, NEW b \in Certificates, NEW c \in Certificates,
           IsLaterThan(b, a), IsLaterThan(c, b)
    PROVE  IsLaterThan(c, a)
<1>1. /\ a.attempts \in Int /\ b.attempts \in Int /\ c.attempts \in Int
      /\ a.attempts <= b.attempts /\ b.attempts <= c.attempts
  BY AttemptLimitAssumption DEF Certificates, IsLaterThan
<1>2. a.attempts <= c.attempts
  BY <1>1
<1>3. CASE b = a
  BY <1>3
<1>4. CASE b # a /\ Concluded(a)
  <2>1. /\ a.status = "CERTIFIED"
        /\ b = [a EXCEPT !.status = "REVOKED", !.revoked_at = b.revoked_at]
    BY <1>4 DEF IsLaterThan
  <2>2. b.status = "REVOKED"
    BY <2>1 DEF Certificates
  <2>3. c = b
    BY <2>2 DEF IsLaterThan, Concluded
  <2> QED
    BY <2>3
<1>5. CASE ~Concluded(a)
  BY <1>2, <1>5 DEF IsLaterThan
<1> QED
  BY <1>3, <1>4, <1>5

LEMMA NextKeepsHistory ==
    ASSUME IInv, [Next]_vars
    PROVE  KeepsHistory
<1> USE DEF IInv
<1>1. now <= now'
  <2>1. now \in Nat
    BY DEF TypeOK, RegistryTypeOK
  <2>2. CASE RegistryNext
    BY <2>1, <2>2 DEF RegistryNext, AdministerKeys, RegisterIssuerKey,
                      RevokeIssuerKey, RotateIssuerKey, HandOver, Tick
  <2>3. CASE UNCHANGED registryVars
    BY <2>1, <2>3 DEF registryVars
  <2> QED
    BY <2>2, <2>3, RegistryStep
<1>2. \A d \in DOMAIN certificates : certificates[d] \in Certificates
  BY StoredTyped
<1>3. certificate_ids \in Seq(DatasetIds)
  BY DEF TypeOK
<1>4. CASE UNCHANGED certificateVars
  BY <1>1, <1>2, <1>3, <1>4, SameIsLater DEF certificateVars, KeepsHistory
<1>5. ASSUME NEW sender \in Accounts, NEW call \in Calls,
             NoCallInFlight, RegisterDataset(sender, call)
      PROVE  KeepsHistory
  <2>1. /\ certificate_ids' = Append(certificate_ids, call.dataset_id)
        /\ \A d \in DOMAIN certificates : certificates'[d] = certificates[d]
        /\ DOMAIN certificates' = DOMAIN certificates \cup {call.dataset_id}
        /\ call.dataset_id \in DatasetIds
    BY <1>5, RegisterDatasetEffect
  <2>2. /\ Len(certificate_ids) <= Len(certificate_ids')
        /\ \A i \in DOMAIN certificate_ids : certificate_ids'[i] = certificate_ids[i]
    BY <1>3, <2>1
  <2>3. \A d \in DOMAIN certificates : IsLaterThan(certificates'[d], certificates[d])
    BY <1>2, <2>1, SameIsLater
  <2> QED
    BY <1>1, <2>1, <2>2, <2>3 DEF KeepsHistory
<1>6. ASSUME NEW s \in in_flight, NEW o \in Observations,
             CertifyCommit(s, EvaluatePackage(s, o.served, o.answer))
      PROVE  KeepsHistory
  <2> DEFINE d == s.commitment.dataset_id
             result == EvaluatePackage(s, o.served, o.answer)
  <2>1. /\ certificate_ids' = certificate_ids
        /\ DOMAIN certificates' = DOMAIN certificates
        /\ certificates'[d] = Evaluated(certificates[d], result, s.now)
        /\ \A e \in DOMAIN certificates : e # d => certificates'[e] = certificates[e]
        /\ d \in DOMAIN certificates
    BY <1>6, CertifyCommitEffect
  <2>2. ~Concluded(certificates[d])
    BY CurrentMeans
  <2>3. /\ certificates'[d].commitment = certificates[d].commitment
        /\ certificates'[d].attempts = certificates[d].attempts + 1
    BY <1>6, CommittedFields
  <2>4. certificates[d].attempts \in Int
    BY <1>2, <2>1, AttemptLimitAssumption DEF Certificates
  <2>5. IsLaterThan(certificates'[d], certificates[d])
    BY <2>2, <2>3, <2>4 DEF IsLaterThan
  <2>6. certificates[d].status # "CERTIFIED"
    BY <2>2 DEF Concluded
  <2> HIDE DEF d, result
  <2>7. \A e \in DOMAIN certificates : IsLaterThan(certificates'[e], certificates[e])
    BY <1>2, <2>1, <2>5, SameIsLater
  <2>8. \A e \in DOMAIN certificates :
          certificates[e].status = "CERTIFIED" => certificates'[e] = certificates[e]
    BY <2>1, <2>6
  <2> QED
    BY <1>1, <1>3, <2>1, <2>7, <2>8 DEF KeepsHistory
<1>7. ASSUME NEW sender \in Accounts, NEW d \in DatasetIds,
             RevokeCertificate(sender, d)
      PROVE  KeepsHistory
  <2>1. /\ certificate_ids' = certificate_ids
        /\ DOMAIN certificates' = DOMAIN certificates
        /\ certificates'[d] = [certificates[d] EXCEPT !.status = "REVOKED",
                                                      !.revoked_at = now]
        /\ \A e \in DOMAIN certificates : e # d => certificates'[e] = certificates[e]
        /\ d \in DOMAIN certificates
        /\ certificates[d].status = "CERTIFIED"
    BY <1>7, RevokeCertificateEffect
  <2>2. certificates[d] \in Certificates /\ certificates[d].attempts \in Int
    BY <1>2, <2>1, AttemptLimitAssumption DEF Certificates
  <2>3. /\ certificates'[d].revoked_at = now
        /\ certificates'[d].commitment = certificates[d].commitment
        /\ certificates'[d].attempts = certificates[d].attempts
    BY <2>1, <2>2 DEF Certificates
  <2>4. IsLaterThan(certificates'[d], certificates[d])
    BY <2>1, <2>2, <2>3 DEF IsLaterThan
  <2>5. \A e \in DOMAIN certificates : IsLaterThan(certificates'[e], certificates[e])
    BY <1>2, <2>1, <2>4, SameIsLater
  <2>6. \A e \in DOMAIN certificates :
          /\ certificates[e].status = "CERTIFIED"
          /\ certificates'[e].status = "REVOKED"
          => certificates'[e].revoked_at = now
    BY <2>1, <2>3
  <2> QED
    BY <1>1, <1>3, <2>1, <2>5, <2>6 DEF KeepsHistory
<1> QED
  BY <1>4, <1>5, <1>6, <1>7, CertificateStep

-----------------------------------------------------------------------------
(* A copy stays sound while the contract goes on. *)

LEMMA SoundCopyNext ==
    ASSUME IInv, IInv', [Next]_vars, NEW copy, NEW read_at,
           IsSoundCopy(copy, read_at)
    PROVE  IsSoundCopy(copy, read_at)'
<1> DEFINE d == copy.commitment.dataset_id
<1>1. KeepsHistory
  BY NextKeepsHistory
<1>2. /\ d \in DOMAIN certificates /\ d \in DOMAIN certificates'
      /\ certificates[d] \in Certificates /\ certificates'[d] \in Certificates
      /\ copy \in Certificates
      /\ now \in Nat /\ now' \in Nat /\ now <= now' /\ read_at \in Nat /\ read_at <= now
  BY <1>1 DEF KeepsHistory, IsSoundCopy, IInv, TypeOK, RegistryTypeOK
<1>3. IsLaterThan(certificates[d], copy) /\ IsLaterThan(certificates'[d], certificates[d])
  BY <1>1, <1>2 DEF KeepsHistory, IsSoundCopy
<1>4. IsLaterThan(certificates'[d], copy)
  BY <1>2, <1>3, LaterIsTransitive
<1>5. ASSUME copy.status = "CERTIFIED", certificates'[d].status = "REVOKED"
      PROVE  read_at <= certificates'[d].revoked_at
  <2>1. certificates[d] = copy \/ certificates[d].status = "REVOKED"
    <3>1. Concluded(copy)
      BY <1>5 DEF Concluded
    <3> QED
      BY <1>2, <1>3, <3>1 DEF IsLaterThan, Certificates
  <2>2. CASE certificates[d].status = "REVOKED"
    <3>1. Concluded(certificates[d]) /\ certificates[d].status # "CERTIFIED"
      BY <2>2 DEF Concluded
    <3>2. certificates'[d] = certificates[d]
      BY <1>3, <3>1 DEF IsLaterThan
    <3> QED
      BY <1>5, <2>2, <3>2 DEF IsSoundCopy
  <2>3. CASE certificates[d] = copy
    <3>1. certificates'[d].revoked_at = now
      BY <1>1, <1>2, <1>5, <2>3 DEF KeepsHistory
    <3> QED
      BY <1>2, <3>1
  <2> QED
    BY <2>1, <2>2, <2>3
<1>6. read_at <= now'
  BY <1>2
<1> QED
  BY <1>2, <1>4, <1>5, <1>6 DEF IsSoundCopy, IsLaterThan, Concluded

\* A certificate just read is sound.
LEMMA ReadIsSound ==
    ASSUME IInv, NEW d \in DOMAIN certificates
    PROVE  IsSoundCopy(certificates[d], now)
<1> USE DEF IInv
<1>1. certificates[d] \in Certificates /\ certificates[d].commitment.dataset_id = d
  BY StoredTyped DEF CertificateListIsComplete
<1>2. now \in Nat
  BY DEF TypeOK, RegistryTypeOK
<1>3. IsLaterThan(certificates[d], certificates[d])
  BY <1>1, SameIsLater
<1>4. ASSUME certificates[d].status = "CERTIFIED"
      PROVE  /\ certificates[d].result = Certified
             /\ certificates[d].certification_record # << >>
  <2>1. certificates[d].result \in Results \cup {UnevaluatedResult}
    BY <1>1 DEF Certificates
  <2>2. /\ certificates[d].result.integrity_status = "VERIFIED"
        /\ certificates[d].result.authentication_status = "AUTHENTICATED"
        /\ certificates[d].result.license_status = "COMPATIBLE"
        /\ certificates[d].result.provenance_status = "COMPLETE"
        /\ certificates[d].result.verdict = "CERTIFIED"
    BY <1>4 DEF LevelsExplainStatus, VerdictIsStatus
  <2>3. certificates[d].result = Certified
    BY <2>1, <2>2 DEF Certified, Result, Results, UnevaluatedResult
  <2>4. certificates[d].attempts # 0
    BY <1>4 DEF RecordMatchesCertificate
  <2>5. certificates[d].certification_record # << >>
    <3>1. PICK r : certificates[d].certification_record = <<r>>
      BY <2>4 DEF RecordMatchesCertificate
    <3>2. <<r>> # << >>
      OBVIOUS
    <3> QED
      BY <3>1, <3>2
  <2> QED
    BY <2>3, <2>5
<1>5. certificates[d].status = "CERTIFIED" => certificates[d].status # "REVOKED"
  OBVIOUS
<1> QED
  BY <1>1, <1>2, <1>3, <1>4, <1>5 DEF IsSoundCopy

-----------------------------------------------------------------------------
LEMMA GateInvInit == GateInit => GateInv
<1> SUFFICES ASSUME GateInit
             PROVE  GateInv
    OBVIOUS
<1>1. IInv
  BY IInvInit DEF GateInit
<1>2. certificate_ids = << >>
  BY DEF GateInit, Init
<1>3. ConsumerTypeOK
  BY DEF GateInit, ConsumerTypeOK
<1>4. ListedInv
  BY <1>2 DEF GateInit, ListedInv
<1> QED
  BY <1>1, <1>3, <1>4 DEF GateInit, GateInv, HeldInv, DecisionInv

\* The contract moves, and the clients keep what they have.
LEMMA ContractKeepsGateInv ==
    ASSUME GateInv, [Next]_vars, UNCHANGED consumerVars
    PROVE  GateInv'
<1> USE DEF GateInv, consumerVars
<1>1. IInv'
  BY IInvNext
<1>2. KeepsHistory
  BY NextKeepsHistory
<1>3. ListedInv'
  <2>1. certificate_ids \in Seq(DatasetIds) /\ certificate_ids' \in Seq(DatasetIds)
    BY <1>1 DEF IInv, TypeOK
  <2>2. \A c \in Consumers : listed[c] \in Seq(DatasetIds)
    BY DEF ConsumerTypeOK
  <2> QED
    BY <1>2, <2>1, <2>2 DEF ListedInv, KeepsHistory
<1>4. HeldInv'
  <2> SUFFICES ASSUME NEW c \in Consumers, held[c] # << >>
               PROVE  IsSoundCopy(held[c][1].certificate, held[c][1].read_at)'
    BY DEF HeldInv
  <2>1. IsSoundCopy(held[c][1].certificate, held[c][1].read_at)
    BY DEF HeldInv
  <2>2. held' = held
    OBVIOUS
  <2> DEFINE copy == held[c][1].certificate
             read_at == held[c][1].read_at
  <2>3. /\ copy' = copy /\ read_at' = read_at
    BY <2>2
  <2>4. PICK x, y : x = copy /\ y = read_at
    OBVIOUS
  <2>5. IsSoundCopy(x, y)
    BY <2>1, <2>4
  <2>6. IsSoundCopy(x, y)'
    BY <1>1, <2>5, SoundCopyNext
  <2> QED
    BY <2>2, <2>4, <2>6 DEF IsSoundCopy
<1>5. ConsumerTypeOK'
  BY DEF ConsumerTypeOK
<1>6. DecisionInv'
  BY DEF DecisionInv
<1> QED
  BY <1>1, <1>3, <1>4, <1>5, <1>6

\* A client lists, reads or decides, and the contract does not notice.
LEMMA ConsumerKeepsGateInv ==
    ASSUME GateInv, NEW c \in Consumers, ConsumerStep(c)
    PROVE  GateInv'
<1> USE DEF GateInv, vars
<1>1. UNCHANGED vars
  BY DEF ConsumerStep, ListCertificates, ReadCertificate, Decide
<1>2. IInv'
  BY <1>1, IInvNext
<1>3. \A copy, read_at : IsSoundCopy(copy, read_at)' <=> IsSoundCopy(copy, read_at)
  BY <1>1 DEF IsSoundCopy
<1>4. \A e \in Consumers : held[e] \in Seq([certificate : Certificates, read_at : Nat])
  BY DEF ConsumerTypeOK
<1>5. CASE ListCertificates(c)
  <2>1. /\ listed' = [listed EXCEPT ![c] = certificate_ids]
        /\ held' = held /\ decision' = decision /\ certificate_ids' = certificate_ids
    BY <1>1, <1>5 DEF ListCertificates, GetCertificateIds
  <2>2. certificate_ids \in Seq(DatasetIds)
    BY DEF IInv, TypeOK
  <2>3. ConsumerTypeOK'
    BY <2>1, <2>2 DEF ConsumerTypeOK
  <2>6. ListedInv'
    <3>1. listed'[c] = certificate_ids
      BY <2>1 DEF ConsumerTypeOK
    <3>2. \A e \in Consumers : e # c => listed'[e] = listed[e]
      BY <2>1 DEF ConsumerTypeOK
    <3>3. Len(certificate_ids) <= Len(certificate_ids)
      BY <2>2
    <3> QED
      BY <2>1, <3>1, <3>2, <3>3 DEF ListedInv
  <2>4. HeldInv'
    BY <1>3, <2>1 DEF HeldInv
  <2>5. DecisionInv'
    BY <2>1 DEF DecisionInv
  <2> QED
    BY <1>2, <2>3, <2>4, <2>5, <2>6
<1>6. ASSUME NEW d \in DatasetIds, ReadCertificate(c, d)
      PROVE  GateInv'
  <2> DEFINE entry == [certificate |-> certificates[d], read_at |-> now]
  <2>1. /\ held' = [held EXCEPT ![c] = <<entry>>]
        /\ decision' = [decision EXCEPT ![c] = "none"]
        /\ listed' = listed /\ certificate_ids' = certificate_ids
        /\ d \in DOMAIN certificates
    BY <1>1, <1>6 DEF ReadCertificate, GetCertificate, IsFound
  <2>2. IsSoundCopy(certificates[d], now)
    BY <2>1, ReadIsSound
  <2>3. certificates[d] \in Certificates /\ now \in Nat
    BY <2>1, StoredTyped DEF IInv, TypeOK, RegistryTypeOK
  <2>4. <<entry>> \in Seq([certificate : Certificates, read_at : Nat])
    BY <2>3
  <2>5. ConsumerTypeOK'
    BY <2>1, <2>4 DEF ConsumerTypeOK
  <2>6. HeldInv'
    <3> SUFFICES ASSUME NEW e \in Consumers, held'[e] # << >>
                 PROVE  IsSoundCopy(held[e][1].certificate, held[e][1].read_at)'
      BY DEF HeldInv
    <3>1. CASE e = c
      <4>1. held'[e] = <<entry>>
        BY <2>1, <3>1 DEF ConsumerTypeOK
      <4>2. held'[e][1].certificate = certificates[d] /\ held'[e][1].read_at = now
        BY <4>1
      <4> QED
        BY <1>1, <2>2, <4>2 DEF IsSoundCopy
    <3>2. CASE e # c
      <4>1. held'[e] = held[e]
        BY <2>1, <3>2 DEF ConsumerTypeOK
      <4> QED
        BY <1>1, <4>1 DEF HeldInv, IsSoundCopy
    <3> QED
      BY <3>1, <3>2
  <2>7. DecisionInv'
    <3>1. decision'[c] = "none"
      BY <2>1 DEF ConsumerTypeOK
    <3>2. \A e \in Consumers : e # c => decision'[e] = decision[e] /\ held'[e] = held[e]
      BY <2>1 DEF ConsumerTypeOK
    <3> QED
      BY <3>1, <3>2 DEF DecisionInv, AcceptCertificate
  <2>8. ListedInv'
    BY <2>1 DEF ListedInv
  <2> QED
    BY <1>2, <2>5, <2>6, <2>7, <2>8
<1>7. CASE Decide(c)
  <2>1. /\ held' = held /\ listed' = listed /\ certificate_ids' = certificate_ids
        /\ held[c] # << >>
        /\ decision' = [decision EXCEPT ![c] =
                          IF AcceptCertificate(held[c][1].certificate,
                                               ExpectedProfile[c])
                          THEN "accepted" ELSE "refused"]
    BY <1>1, <1>7 DEF Decide
  <2>2. ConsumerTypeOK'
    BY <2>1 DEF ConsumerTypeOK
  <2>3. DecisionInv'
    BY <2>1 DEF DecisionInv, ConsumerTypeOK
  <2>4. HeldInv' /\ ListedInv'
    BY <1>3, <2>1 DEF HeldInv, ListedInv
  <2> QED
    BY <1>2, <2>2, <2>3, <2>4
<1> QED
  BY <1>5, <1>6, <1>7 DEF ConsumerStep

LEMMA GateInvNext == GateInv /\ [GateNext]_gateVars => GateInv'
<1> SUFFICES ASSUME GateInv, [GateNext]_gateVars
             PROVE  GateInv'
    OBVIOUS
<1>1. CASE ContractStep
  BY <1>1, ContractKeepsGateInv DEF ContractStep
<1>2. CASE \E c \in Consumers : ConsumerStep(c)
  BY <1>2, ConsumerKeepsGateInv
<1>3. CASE UNCHANGED gateVars
  BY <1>3, ContractKeepsGateInv DEF gateVars
<1> QED
  BY <1>1, <1>2, <1>3 DEF GateNext

LEMMA GateInvariance == GateSpec => []GateInv
BY GateInvInit, GateInvNext, PTL DEF GateSpec

-----------------------------------------------------------------------------
(* Whatever a client was given stays true as history: listed ids keep      *)
(* their place and can be read, and a copy is the stored certificate or an *)
(* earlier stage of it.                                                    *)
THEOREM HeldIsHistoryCorrect == GateSpec => []HeldIsHistory
<1>1. GateInv => HeldIsHistory
  <2> SUFFICES ASSUME GateInv
               PROVE  HeldIsHistory
      OBVIOUS
  <2> USE DEF GateInv
  <2>1. \A i \in DOMAIN certificate_ids : certificate_ids[i] \in DOMAIN GetCertificates
    BY DEF GetCertificates
  <2>2. ASSUME NEW c \in Consumers
        PROVE  DOMAIN listed[c] \subseteq DOMAIN certificate_ids
    BY DEF ListedInv, ConsumerTypeOK, IInv, TypeOK
  <2> QED
    BY <2>1, <2>2 DEF HeldIsHistory, ListedInv, HeldInv, IsSoundCopy, GetCertificateCount,
                      GetCertificateIds, IsFound, GetCertificate
<1> QED
  BY <1>1, GateInvariance, PTL

(* What a client accepted was certified for its profile, on a publisher's  *)
(* signature, and revoked at most since it was read.                       *)
THEOREM AcceptedWasCertifiedCorrect == GateSpec => []AcceptedWasCertified
<1>1. GateInv => AcceptedWasCertified
  <2> SUFFICES ASSUME GateInv, NEW c \in Consumers, decision[c] = "accepted"
               PROVE  LET copy == held[c][1].certificate
                          stored == GetCertificate(copy.commitment.dataset_id)
                          key == issuer_keys[stored.commitment.key_id]
                      IN  /\ stored.commitment.usage_profile = ExpectedProfile[c]
                          /\ stored.result.verdict = "CERTIFIED"
                          /\ \/ stored.status = "CERTIFIED"
                             \/ /\ stored.status = "REVOKED"
                                /\ held[c][1].read_at <= stored.revoked_at
                          /\ key.issuer_id = stored.commitment.publisher_identity
                          /\ VerifySecp256k1Sha256(key.public_key,
                                 stored.commitment.signature,
                                 StoredUnsigned(stored.commitment))
      BY DEF AcceptedWasCertified
  <2> USE DEF GateInv
  <2> DEFINE copy == held[c][1].certificate
             read_at == held[c][1].read_at
             d == copy.commitment.dataset_id
  <2>1. IsSoundCopy(copy, read_at) /\ AcceptCertificate(copy, ExpectedProfile[c])
    BY DEF HeldInv, DecisionInv
  <2>2. /\ copy.status = "CERTIFIED" /\ Concluded(copy)
        /\ copy.commitment.usage_profile = ExpectedProfile[c]
        /\ d \in DOMAIN certificates
        /\ copy \in Certificates
        /\ copy.result = Certified
    BY <2>1 DEF AcceptCertificate, Concluded, IsSoundCopy
  <2>3. /\ certificates[d].commitment = copy.commitment
        /\ \/ certificates[d] = copy
           \/ certificates[d] = [copy EXCEPT !.status = "REVOKED",
                                             !.revoked_at = certificates[d].revoked_at]
    BY <2>1, <2>2 DEF IsSoundCopy, IsLaterThan
  <2>4. /\ certificates[d].result = Certified
        /\ certificates[d].status \in {"CERTIFIED", "REVOKED"}
    BY <2>2, <2>3 DEF Certificates
  <2>5. certificates[d].status = "REVOKED" => read_at <= certificates[d].revoked_at
    BY <2>1, <2>2 DEF IsSoundCopy
  <2>6. Concluded(certificates[d])
    BY <2>4 DEF Concluded
  <2>7. LET s == certificates[d].commitment
            key == issuer_keys[s.key_id]
        IN  /\ key.issuer_id = s.publisher_identity
            /\ VerifySecp256k1Sha256(key.public_key, s.signature, StoredUnsigned(s))
    BY <2>2, <2>6 DEF IInv, ConcludedWasAuthentic
  <2>8. Certified.verdict = "CERTIFIED"
    BY DEF Certified, Result
  <2> QED
    BY <2>2, <2>3, <2>4, <2>5, <2>7, <2>8 DEF GetCertificate
<1> QED
  BY <1>1, GateInvariance, PTL

(* The gate refuses only what is not CERTIFIED or is for another profile.  *)
THEOREM RefusedForAReasonCorrect == GateSpec => []RefusedForAReason
<1>1. GateInv => RefusedForAReason
  BY DEF GateInv, HeldInv, DecisionInv, IsSoundCopy, AcceptCertificate, Certified,
         RefusedForAReason
<1> QED
  BY <1>1, GateInvariance, PTL
=============================================================================
