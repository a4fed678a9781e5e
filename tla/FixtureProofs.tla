----------------------------- MODULE FixtureProofs -----------------------------
(***************************************************************************)
(* A PASS of the fixture validator is a promise about the contract: for    *)
(* any set of packages, whatever hosts serve, models answer and clocks     *)
(* say, the package that passed is registered and evaluated up to the      *)
(* model's judgement (PassedIsEvaluated).                                  *)
(*                                                                         *)
(* The validator repeats the contract's checks in its own code, so the     *)
(* argument takes the contract's checks one by one, in the contract's      *)
(* order, and finds for each what in PassedForGood implies it.             *)
(***************************************************************************)
EXTENDS FixtureValidator, TLAPS

\* Every reference could be put in a request.
WasRequestable(f) ==
    \A source \in Sources : f.references[source] \in {"accepted", "double_slash"}

\* What a PASS at this time keeps saying of the package.
PassedForGood(f, time) ==
    /\ WasRequestable(f)
    /\ IsDemonstration(f)
    /\ f.call.package.provenance.size = "within_limit"
    /\ f.call.package.provenance.utf8
    /\ ProvenancePasses(f.provenance)
    /\ ManifestVerifies(f)
    /\ f.call.evidence_manifest.object.unsigned.issued_at <= time

\* What a certification record was made of.
IsCertificationOf(c, f) ==
    /\ c.registration = RegistrationOf(f)
    /\ c.at \in Nat
    /\ \E world \in [Sources -> HostResponses] :
         /\ c.intact = (\A source \in Sources : world[source] = "committed")
         /\ c.results = ResultsOf(f, c.at, world)

FixtureInv ==
    /\ fixture \in Fixtures
    /\ served \in [Sources -> HostResponses]
    /\ now \in Nat
    /\ passed_at \in Nat
    /\ fetched \subseteq Sources
    /\ \A source \in fetched : IsRequestable(source)
    /\ report = "PASS" => PassedForGood(fixture, passed_at)
    /\ outcome # << >> => IsCertificationOf(outcome[1], fixture)

-----------------------------------------------------------------------------
(* The manifest. *)

\* Every check of registration is among the validator's, but for the exceptions.
LEMMA VerifiedIsRegistered ==
    ASSUME NEW f, ManifestVerifies(f), WasRequestable(f), ~IsBeyondTheValidator(f)
    PROVE  RegistrationOf(f) = "NOT_EVALUATED"
<1>1. ParseInlineManifest(f.call) = "NOT_EVALUATED"
  BY DEF ManifestVerifies, ParseInlineManifest, VerifySecp256k1Sha256
<1>2. \A field \in NameFields : f.names[field] = "identifier"
  BY DEF ManifestVerifies, NamesPass, IsBeyondTheValidator
<1>3. f.profile = "listed"
  BY DEF ManifestVerifies, NamesPass, IsBeyondTheValidator
<1>4. \A source \in Sources : f.references[source] \in {"accepted", "not_ascii"}
  BY DEF WasRequestable, IsBeyondTheValidator
<1> QED
  BY <1>1, <1>2, <1>3, <1>4 DEF RegistrationOf, FieldsAreAccepted

\* The times of a fixture's manifest are whole numbers.
LEMMA FixtureTyped ==
    ASSUME NEW f \in Fixtures
    PROVE  /\ f.call \in Submissions
           /\ f.call.evidence_manifest \in Texts
           /\ f.call.evidence_manifest.object \in Manifests
           /\ f.call.evidence_manifest.object.unsigned \in UnsignedManifests
           /\ f.call.evidence_manifest.object.unsigned.issued_at \in Int
           /\ f.call.evidence_manifest.object.unsigned.expires_at \in Int
           /\ f.provenance \in Provenances
<1>1. f.call \in Submissions /\ f.provenance \in Provenances
  BY FixturesAssumption
<1>2. f.call.evidence_manifest \in Texts
  BY <1>1 DEF Submissions
<1>3. f.call.evidence_manifest.object \in Manifests
  BY <1>2 DEF Texts
<1>4. f.call.evidence_manifest.object.unsigned \in UnsignedManifests
  BY <1>3 DEF Manifests
<1>5. /\ f.call.evidence_manifest.object.unsigned.issued_at \in Times
      /\ f.call.evidence_manifest.object.unsigned.expires_at \in Times
  BY <1>4 DEF UnsignedManifests
<1> QED
  BY <1>1, <1>2, <1>3, <1>4, <1>5, TimesAssumption

\* What certification rebuilds from storage is the object that was signed.
LEMMA StoredIsSigned ==
    ASSUME NEW f \in Fixtures, ManifestVerifies(f),
           f.call.evidence_manifest.object.unsigned.manifest_version # "2.0"
    PROVE  /\ StoredUnsigned(CommitmentOf(f.call))
                = f.call.evidence_manifest.object.unsigned
           /\ DigestMatches(CommitmentOf(f.call))
<1> DEFINE text == f.call.evidence_manifest
           manifest == text.object
           commitment == CommitmentOf(f.call)
<1>1. manifest.unsigned \in UnsignedManifests /\ manifest \in Manifests /\ text \in Texts
  BY FixtureTyped
<1>2. BindsArguments(manifest.unsigned, f.call)
  BY DEF ManifestVerifies
<1>3. manifest.unsigned.manifest_version = "2"
  BY <1>2 DEF BindsArguments
<1>4. StoredUnsigned(commitment) = manifest.unsigned
  BY <1>1, <1>2, <1>3 DEF StoredUnsigned, CommitmentOf, BindsArguments, UnsignedManifests
<1>5. StoredManifest(commitment) = manifest
  BY <1>1, <1>4 DEF StoredManifest, Sealed, CommitmentOf, Manifests
<1>6. CanonicalJson(manifest) = text
  BY <1>1 DEF ManifestVerifies, CanonicalJson, Texts
<1>7. DigestMatches(commitment)
  BY <1>5, <1>6 DEF DigestMatches, ManifestVerifies, CommitmentOf
<1> QED
  BY <1>4, <1>7

\* Inside the signed window, the registered key authenticates it.
LEMMA PassedIsAuthenticated ==
    ASSUME NEW f \in Fixtures, ManifestVerifies(f),
           f.call.evidence_manifest.object.unsigned.manifest_version # "2.0",
           NEW time \in Nat,
           f.call.evidence_manifest.object.unsigned.issued_at <= time,
           time <= f.call.evidence_manifest.object.unsigned.expires_at
    PROVE  AuthenticateStoredManifest(ReadAt(f, time)) = "AUTHENTICATED"
<1> DEFINE unsigned == f.call.evidence_manifest.object.unsigned
           c == CommitmentOf(f.call)
<1>1. StoredUnsigned(c) = unsigned /\ DigestMatches(c)
  BY StoredIsSigned
<1>2. VerifySecp256k1Sha256(f.issuer_public_key, c.signature, StoredUnsigned(c))
  BY <1>1 DEF ManifestVerifies, CommitmentOf
<1>3. c.publisher_identity = f.call.publisher_identity
  BY DEF CommitmentOf
<1>4. ~(time < c.issued_at) /\ ~(time > c.expires_at)
  <2>1. c.issued_at = unsigned.issued_at /\ c.expires_at = unsigned.expires_at
    BY DEF CommitmentOf
  <2>2. unsigned.issued_at \in Int /\ unsigned.expires_at \in Int
    BY FixtureTyped
  <2> HIDE DEF c
  <2> QED
    BY <2>1, <2>2
<1> HIDE DEF c
<1> QED
  BY <1>1, <1>2, <1>3, <1>4 DEF AuthenticateStoredManifest, ReadAt, NoIssuerStatus, c

-----------------------------------------------------------------------------
(* The three sources, and the provenance manifest. *)

\* Bytes within the limits that are served as committed are verified.
LEMMA ServedIsVerified ==
    ASSUME NEW package, NEW world,
           \A source \in Sources : world[source] = "committed",
           package.dataset.size # "oversized",
           package.license.size \notin {"empty", "oversized"},
           package.provenance.size = "within_limit"
    PROVE  PackageIntegrity(world, package) = "VERIFIED"
<1>1. /\ world["dataset"] = "committed"
      /\ world["license"] = "committed"
      /\ world["provenance"] = "committed"
  BY DEF Sources
<1> QED
  BY <1>1 DEF PackageIntegrity, FetchStatus, FetchVerified, BodySize

\* The validator's bounds on texts are within the contract's.
LEMMA PassedIsLinked ==
    ASSUME NEW p \in Provenances, ProvenancePasses(p), ~HasControlCharacters(p),
           p.created.text # "oversized"
    PROVE  IsLinked(p)
<1>1. IsManifestText(p.source) /\ IsManifestText(p.version)
  BY DEF ProvenancePasses, HasControlCharacters, IsFixtureText, IsManifestText
<1>2. IsManifestText(p.created.text)
  <2>1. /\ p.created.text \in ManifestTexts
        /\ p.created.text \in {"empty", "not_text"} => p.created.iso = "invalid"
    BY DEF Provenances
  <2> QED
    BY <2>1 DEF ProvenancePasses, HasControlCharacters, IsManifestText, ManifestTexts
<1>3. \A text \in ItemsOf(p) : IsManifestText(text)
  BY DEF ProvenancePasses, HasControlCharacters, IsFixtureText, IsManifestText
<1>4. Len(p.transformations.items) <= MAX_TRANSFORMATIONS
  BY TransformationsAssumption DEF ProvenancePasses
<1> QED
  BY <1>1, <1>2, <1>3, <1>4 DEF ProvenancePasses, IsLinked

\* Decoded and linked evidence is complete, whatever the model answers.
LEMMA LinkedIsComplete ==
    ASSUME NEW commitment, NEW answer,
           Decodes(commitment.package.license),
           Decodes(commitment.package.provenance),
           ManifestIsLinked(commitment)
    PROVE  LET result == JudgeEvidence(commitment, answer) IN
           /\ result.authentication_status = "AUTHENTICATED"
           /\ result.integrity_status = "VERIFIED"
           /\ result.provenance_status = "COMPLETE"
BY DEF JudgeEvidence, InconclusiveResult, Result

-----------------------------------------------------------------------------
\* One evaluation of a package that passed, inside its window and served.
LEMMA PassedEvaluation ==
    ASSUME NEW f \in Fixtures, NEW passed \in Nat, PassedForGood(f, passed),
           ~IsBeyondTheValidator(f),
           NEW time \in Nat, passed <= time,
           time <= f.call.evidence_manifest.object.unsigned.expires_at,
           NEW world, \A source \in Sources : world[source] = "committed",
           NEW answer
    PROVE  LET result == EvaluatePackage(ReadAt(f, time), world, answer) IN
           /\ result.authentication_status = "AUTHENTICATED"
           /\ result.integrity_status = "VERIFIED"
           /\ result.provenance_status = "COMPLETE"
<1> DEFINE commitment == CommitmentOf(f.call)
<1>1. AuthenticateStoredManifest(ReadAt(f, time)) = "AUTHENTICATED"
  <2>1. f.call.evidence_manifest.object.unsigned.issued_at <= time
    <3>1. f.call.evidence_manifest.object.unsigned.issued_at \in Int
      BY FixtureTyped
    <3> QED
      BY <3>1 DEF PassedForGood
  <2> QED
    BY <2>1, PassedIsAuthenticated DEF PassedForGood, IsBeyondTheValidator
<1>2. commitment.package = f.call.package
  BY DEF CommitmentOf
<1>3. PackageIntegrity(world, commitment.package) = "VERIFIED"
  BY <1>2, ServedIsVerified DEF PassedForGood, IsBeyondTheValidator, IsDemonstration
<1>4. Decodes(commitment.package.license) /\ Decodes(commitment.package.provenance)
  BY <1>2 DEF PassedForGood, IsBeyondTheValidator, Decodes
<1>5. ManifestIsLinked(commitment)
  <2>1. IsLinked(f.provenance)
    BY FixtureTyped, PassedIsLinked DEF PassedForGood, IsBeyondTheValidator
  <2>2. f.call.package.provenance.linked_to = f.call.publisher_identity
    BY <2>1, FixturesAssumption
  <2>3. commitment.publisher_identity = f.call.publisher_identity
    BY DEF CommitmentOf
  <2> QED
    BY <1>2, <2>2, <2>3 DEF ManifestIsLinked
<1>6. ReadAt(f, time).commitment = commitment
  BY DEF ReadAt
<1> HIDE DEF commitment
<1>7. EvaluatePackage(ReadAt(f, time), world, answer) = JudgeEvidence(commitment, answer)
  BY <1>1, <1>3, <1>6 DEF EvaluatePackage
<1> QED
  BY <1>4, <1>5, <1>7, LinkedIsComplete

LEMMA FixtureInvHolds == FixtureInv => PassedIsEvaluated
<1> SUFFICES ASSUME FixtureInv, report = "PASS", outcome # << >>,
                    ~IsBeyondTheValidator(fixture)
             PROVE  /\ outcome[1].registration = "NOT_EVALUATED"
                    /\ IsStillGood(outcome[1]) =>
                         \A result \in outcome[1].results :
                             /\ result.authentication_status = "AUTHENTICATED"
                             /\ result.integrity_status = "VERIFIED"
                             /\ result.provenance_status = "COMPLETE"
  BY DEF PassedIsEvaluated
<1> DEFINE c == outcome[1]
<1>1. /\ fixture \in Fixtures /\ passed_at \in Nat
      /\ PassedForGood(fixture, passed_at) /\ IsCertificationOf(c, fixture)
  BY DEF FixtureInv
<1> HIDE DEF c
<1>2. c.registration = "NOT_EVALUATED"
  BY <1>1, VerifiedIsRegistered DEF PassedForGood, IsCertificationOf
<1>3. ASSUME IsStillGood(c), NEW result \in c.results
      PROVE  /\ result.authentication_status = "AUTHENTICATED"
             /\ result.integrity_status = "VERIFIED"
             /\ result.provenance_status = "COMPLETE"
  <2>1. PICK world \in [Sources -> HostResponses] :
          /\ c.intact = (\A source \in Sources : world[source] = "committed")
          /\ c.results = ResultsOf(fixture, c.at, world)
    BY <1>1 DEF IsCertificationOf
  <2>2. PICK answer \in ModelAnswers :
          result = EvaluatePackage(ReadAt(fixture, c.at), Retrieved(world), answer)
    BY <1>3, <2>1 DEF ResultsOf
  <2>3. \A source \in Sources : Retrieved(world)[source] = "committed"
    BY <1>3, <2>1 DEF IsStillGood, Retrieved
  <2>4. c.at \in Nat
    BY <1>1 DEF IsCertificationOf
  <2> QED
    BY <1>1, <1>3, <2>2, <2>3, <2>4, PassedEvaluation DEF IsStillGood
<1> QED
  BY <1>2, <1>3 DEF c

-----------------------------------------------------------------------------
LEMMA FixtureInvInit == FixtureInit => FixtureInv
BY DEF FixtureInit, FixtureInv

LEMMA FixtureInvNext == FixtureInv /\ [FixtureNext]_fixtureVars => FixtureInv'
<1> SUFFICES ASSUME FixtureInv, [FixtureNext]_fixtureVars
             PROVE  FixtureInv'
  OBVIOUS
<1> USE DEF FixtureInv
<1>0. CASE RejectReferences
  BY <1>0 DEF RejectReferences, IsRequestable
<1>1. ASSUME NEW source \in Sources,
             \/ FetchExact(source)
             \/ FetchFallsBack(source)
             \/ FetchFails(source)
             \/ FetchEscapes(source)
      PROVE  FixtureInv'
  BY <1>1 DEF FetchExact, FetchFallsBack, FetchFails, FetchEscapes, IsNext, IsRequestable
<1>2. CASE Report
  <2>1. WasRequestable(fixture)
    BY <1>2 DEF Report, WasRequestable, IsRequestable
  <2>2. ASSUME PackagePasses(fixture)
        PROVE  PassedForGood(fixture, now)
    BY <2>1, <2>2 DEF PackagePasses, PassedForGood, ManifestPasses
  <2> QED
    BY <1>2, <2>2 DEF Report, Ending, IsRequestable
<1>3. ASSUME NEW source \in Sources, NEW response \in HostResponses,
             HostChanges(source, response)
      PROVE  FixtureInv'
  BY <1>3 DEF HostChanges, validatorVars, IsRequestable
<1>4. CASE TimePasses
  BY <1>4 DEF TimePasses, validatorVars, IsRequestable
<1>5. CASE Certify
  <2> DEFINE c == [registration |-> RegistrationOf(fixture),
                   at           |-> now,
                   intact       |-> \A source \in Sources : ServesExact(source),
                   results      |-> ResultsOf(fixture, now, served)]
  <2>1. outcome' = <<c>> /\ UNCHANGED <<fixture, served, now, validatorVars>>
    BY <1>5 DEF Certify
  <2>2. IsCertificationOf(c, fixture)
    BY DEF IsCertificationOf, ServesExact
  <2> HIDE DEF c
  <2>3. outcome'[1] = c
    BY <2>1
  <2> QED
    BY <2>1, <2>2, <2>3 DEF validatorVars, IsRequestable
<1>6. CASE UNCHANGED fixtureVars
  BY <1>6 DEF fixtureVars, IsRequestable
<1> QED
  BY <1>0, <1>1, <1>2, <1>3, <1>4, <1>5, <1>6 DEF FixtureNext, ValidatorStep

(* PASS keeps its word with the contract, for any set of published         *)
(* packages and hosts that change at any time.                             *)
THEOREM PassedIsEvaluatedCorrect == FixtureSpec => []PassedIsEvaluated
BY FixtureInvInit, FixtureInvNext, FixtureInvHolds, PTL DEF FixtureSpec
=============================================================================
