--------------------------- MODULE FixtureValidator ---------------------------
(***************************************************************************)
(* The published package, from the publisher's gate to the contract.       *)
(* tools/validate_inline_fixture.py fetches the three objects, repeats the *)
(* contract's deterministic checks in its own code and says PASS or FAIL,  *)
(* or ends in a traceback; the package is then registered and certified,   *)
(* while hosts change and time passes.                                     *)
(*                                                                         *)
(* A name, a profile or a reference stands for its class, by what the two  *)
(* sides make of it.  The file has its fields, without placeholders, and   *)
(* its digests are digests: main() answers FAIL of any other at once.      *)
(*                                                                         *)
(* The trust root has registered the published key, as the report asks for *)
(* (trust_root_registration_required), and the nonce has not been used.    *)
(***************************************************************************)
EXTENDS PackageEvaluation, ProvenanceManifest

CONSTANTS
    Fixtures,           \* the packages that may have been published
    HostResponses,      \* what hosts may serve: Responses, and "broken_off"
    ModelAnswers,
    MaxTime             \* bound on the clock

NameFields == {"nonce", "dataset_id", "publisher_identity", "key_id"}

\* An identifier of the contract's pattern, another string of 1 to 256, neither.
NameClasses == {"identifier", "text", "oversized"}

\* One of the contract's profiles, another string of 1 to 256, neither.
ProfileClasses == {"listed", "text", "oversized"}

(* "accepted" by both; the others are not, but for "refused" they pass     *)
(* validate_reference: "not_ascii" cannot be encoded for a request,        *)
(* "control" is an InvalidURL there, "double_slash" is not immutable to    *)
(* the contract.                                                           *)

ReferenceClasses == {"accepted", "not_ascii", "double_slash", "control", "refused"}

\* The demonstration's dataset and license, with records of no length, or others.
Demonstrations == {"right", "no_length", "other"}

ASSUME FixturesAssumption ==
    \A f \in Fixtures :
        /\ f.call \in Submissions
        /\ f.issuer_public_key \in PublicKeys
        /\ f.provenance \in Provenances
        /\ f.names \in [NameFields -> NameClasses]
        /\ f.profile \in ProfileClasses
        /\ f.references \in [Sources -> ReferenceClasses]
        /\ f.demonstration \in Demonstrations
        \* The package abstracts the same provenance manifest.
        /\ IsLinked(f.provenance) <=>
             f.call.package.provenance.linked_to = f.call.publisher_identity

VARIABLES
    fixture,
    served,         \* source -> what its host serves now
    now,
    fetched,        \* the objects the validator has, of their exact bytes
    retrying,       \* the first client failed, and node's fetch is next
    report,         \* "none", then how main() ended
    passed_at,      \* when it printed PASS
    outcome         \* the latest certification: at most one

fixtureVars == <<fixture, served, now, fetched, retrying, report, passed_at, outcome>>

validatorVars == <<fetched, retrying, report, passed_at>>

-----------------------------------------------------------------------------
\* Status 200 and the digest of the package.
ServesExact(source) == served[source] = "committed"

\* The dataset and the license are the demonstration's.
IsDemonstration(f) ==
    /\ f.demonstration = "right"
    /\ f.call.package.dataset.size # "empty"
    /\ f.call.package.license.size # "empty"

\* The references match the validator's pattern.
ReferencesPass(f) == \A source \in Sources : f.references[source] # "refused"

\* The validator's bound on names and on the profile: 1 to 256 characters.
NamesPass(f) ==
    /\ \A field \in NameFields : f.names[field] \in {"identifier", "text"}
    /\ f.profile \in {"listed", "text"}

\* The manifest is canonical, bound to the package, and signed with its key.
ManifestVerifies(f) ==
    LET text == f.call.evidence_manifest
        manifest == text.object
    IN  /\ text.encoding = "canonical"
        /\ Sha256(text) = f.call.evidence_manifest_sha256
        /\ BindsArguments(manifest.unsigned, f.call)
        /\ NamesPass(f)
        /\ WindowIsBounded(manifest.unsigned)
        /\ VerifySecp256k1Sha256(f.issuer_public_key, manifest.signature,
                                 manifest.unsigned)

\* validate_manifest
ManifestPasses(f) ==
    /\ ManifestVerifies(f)
    /\ f.call.evidence_manifest.object.unsigned.issued_at <= now
    /\ now <= f.call.evidence_manifest.object.unsigned.expires_at

\* Everything main() checks after the three objects have been fetched.
PackagePasses(f) ==
    /\ IsDemonstration(f)
    /\ f.call.package.provenance.size = "within_limit"
    /\ f.call.package.provenance.utf8
    /\ ProvenancePasses(f.provenance)
    /\ ManifestPasses(f)

\* len() of the records is asked of anything they may be.
LenRaises(f) ==
    f.call.package.dataset.size # "empty" /\ f.demonstration = "no_length"

\* How main() ends once the three objects are there.
Ending(f) ==
    IF LenRaises(f) THEN "traceback" ELSE IF PackagePasses(f) THEN "PASS" ELSE "FAIL"

\* The contract's own checks of the arguments, before the manifest.
FieldsAreAccepted(f) ==
    /\ \A field \in NameFields : f.names[field] = "identifier"
    /\ f.profile = "listed"
    /\ \A source \in Sources : f.references[source] \in {"accepted", "not_ascii"}

\* register_dataset: "NOT_EVALUATED" registers the package.
RegistrationOf(f) ==
    IF FieldsAreAccepted(f) THEN ParseInlineManifest(f.call) ELSE "refused"

\* What certify_dataset reads when the published key is registered and ACTIVE.
ReadAt(f, time) ==
    [commitment     |-> CommitmentOf(f.call),
     now            |-> time,
     issuer_status  |-> "ACTIVE",
     issuer_id      |-> f.call.publisher_identity,
     public_key     |-> f.issuer_public_key,
     replay_blocked |-> FALSE]

\* A response that breaks off is one more request that raised.
Retrieved(responses) ==
    [source \in Sources |->
       IF responses[source] = "broken_off" THEN "raised" ELSE responses[source]]

ResultsOf(f, time, responses) ==
    IF RegistrationOf(f) # "NOT_EVALUATED" THEN {}
    ELSE {EvaluatePackage(ReadAt(f, time), Retrieved(responses), answer) :
            answer \in ModelAnswers}

-----------------------------------------------------------------------------
FixtureInit ==
    /\ fixture \in Fixtures
    /\ served \in [Sources -> HostResponses]
    /\ now = 0
    /\ fetched = {}
    /\ retrying = FALSE
    /\ report = "none"
    /\ passed_at = 0
    /\ outcome = << >>

\* A reference off the pattern ends the check before anything is fetched.
RejectReferences ==
    /\ report = "none"
    /\ ~ReferencesPass(fixture)
    /\ report' = "FAIL"
    /\ UNCHANGED <<fixture, served, now, fetched, retrying, passed_at, outcome>>

\* The source that main() fetches next; they are fetched in this order.
IsNext(source) ==
    /\ report = "none"
    /\ ReferencesPass(fixture)
    /\ fetched = CASE source = "dataset"    -> {}
                   [] source = "license"    -> {"dataset"}
                   [] source = "provenance" -> {"dataset", "license"}

\* The reference can be put in a request.
IsRequestable(source) == fixture.references[source] \in {"accepted", "double_slash"}

FetchExact(source) ==
    /\ IsNext(source)
    /\ IsRequestable(source)
    /\ ServesExact(source)
    /\ fetched' = fetched \cup {source}
    /\ retrying' = FALSE
    /\ UNCHANGED <<fixture, served, now, report, passed_at, outcome>>

\* Mutant: node's fetch is tried again whenever it fails.
FetchKeepsTrying(source) ==
    /\ IsNext(source)
    /\ IsRequestable(source)
    /\ served[source] = "raised"
    /\ retrying' = ~retrying
    /\ UNCHANGED <<fixture, served, now, fetched, report, passed_at, outcome>>

\* The request raised: once more, through node.
FetchFallsBack(source) ==
    /\ IsNext(source)
    /\ IsRequestable(source)
    /\ served[source] = "raised"
    /\ ~retrying
    /\ retrying' = TRUE
    /\ UNCHANGED <<fixture, served, now, fetched, report, passed_at, outcome>>

\* A response that is not the object, or none: from both clients, or from the
\* first when node is not installed.  A ValueError of the request is a FAIL too.
FetchFails(source) ==
    /\ IsNext(source)
    /\ \/ fixture.references[source] = "not_ascii"
       \/ /\ IsRequestable(source)
          /\ ~ServesExact(source)
          /\ retrying \/ served[source] # "broken_off"
    /\ report' = "FAIL"
    /\ UNCHANGED <<fixture, served, now, fetched, retrying, passed_at, outcome>>

\* An HTTPException of the first client is neither an OSError nor a ValueError.
FetchEscapes(source) ==
    /\ IsNext(source)
    /\ \/ fixture.references[source] = "control"
       \/ /\ IsRequestable(source)
          /\ served[source] = "broken_off"
          /\ ~retrying
    /\ report' = "traceback"
    /\ UNCHANGED <<fixture, served, now, fetched, retrying, passed_at, outcome>>

Report ==
    /\ report = "none"
    /\ fetched = Sources
    /\ report' = Ending(fixture)
    /\ passed_at' = IF Ending(fixture) = "PASS" THEN now ELSE passed_at
    /\ UNCHANGED <<fixture, served, now, fetched, retrying, outcome>>

HostChanges(source, response) ==
    /\ served[source] # response
    /\ served' = [served EXCEPT ![source] = response]
    /\ UNCHANGED <<fixture, now, validatorVars, outcome>>

TimePasses ==
    /\ now < MaxTime
    /\ now' = now + 1
    /\ UNCHANGED <<fixture, served, validatorVars, outcome>>

\* The package is registered and, if it was, evaluated, whatever the report was.
Certify ==
    /\ outcome' =
         <<[registration |-> RegistrationOf(fixture),
            at           |-> now,
            intact       |-> \A source \in Sources : ServesExact(source),
            results      |-> ResultsOf(fixture, now, served)]>>
    /\ UNCHANGED <<fixture, served, now, validatorVars>>

ValidatorStep ==
    \/ RejectReferences
    \/ \E source \in Sources :
         \/ FetchExact(source)
         \/ FetchFallsBack(source)
         \/ FetchFails(source)
         \/ FetchEscapes(source)
    \/ Report

FixtureNext ==
    \/ ValidatorStep
    \/ \E source \in Sources, response \in HostResponses : HostChanges(source, response)
    \/ TimePasses
    \/ Certify

\* A request to a silent host ends after a minute, so the validator runs on.
FixtureSpec ==
    /\ FixtureInit
    /\ [][FixtureNext]_fixtureVars
    /\ WF_fixtureVars(ValidatorStep)

-----------------------------------------------------------------------------
\* What a published package may have that the contract refuses and main() does
\* not look at, or not as closely.
IsBeyondTheValidator(f) ==
    \/ \E field \in NameFields : f.names[field] = "text"
    \/ f.profile = "text"
    \/ \E source \in Sources : f.references[source] = "double_slash"
    \/ f.call.evidence_manifest.object.unsigned.manifest_version = "2.0"
    \/ f.call.package.dataset.size = "oversized"
    \/ f.call.package.license.size = "oversized"
    \/ ~Decodes(f.call.package.license)
    \/ HasControlCharacters(f.provenance)
    \/ f.provenance.created.text = "oversized"     \* a time with enough decimals

\* After the check, the objects are served and the signed window is open.
IsStillGood(c) ==
    /\ c.intact
    /\ passed_at <= c.at
    /\ c.at <= fixture.call.evidence_manifest.object.unsigned.expires_at

(* PASS keeps its word with the contract: a package that passed is         *)
(* registered, and whenever it is evaluated after the check, while its     *)
(* window is open and its hosts serve it, only the model's judgement is    *)
(* left to settle.  The exceptions are the nine of IsBeyondTheValidator.   *)
PassedIsEvaluated ==
    report = "PASS" /\ outcome # << >> /\ ~IsBeyondTheValidator(fixture) =>
        /\ outcome[1].registration = "NOT_EVALUATED"
        /\ IsStillGood(outcome[1]) =>
             \A result \in outcome[1].results :
                 /\ result.authentication_status = "AUTHENTICATED"
                 /\ result.integrity_status = "VERIFIED"
                 /\ result.provenance_status = "COMPLETE"

(* The gate ends, with a report or with a traceback: a host that raises,   *)
(* recovers and raises again is asked at most twice for each object.  It   *)
(* does not always report: FetchEscapes and LenRaises pass by the          *)
(* "except" of main().                                                     *)
ValidatorEnds == <>(report # "none")
=============================================================================
