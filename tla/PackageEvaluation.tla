-------------------------- MODULE PackageEvaluation --------------------------
(***************************************************************************)
(* One evaluation of a committed package: authenticate the stored          *)
(* manifest, fetch the three evidence sources, check the deterministic     *)
(* links, ask the model (_evaluate_package), and the check every result    *)
(* passes before it is stored (_validate_consensus_result).                *)
(*                                                                         *)
(* The outside world is two inputs: what each source serves (served) and   *)
(* what the model answers (answer).                                        *)
(***************************************************************************)
EXTENDS SignedManifest

(* What a host may serve.  "committed" stands for the committed bytes      *)
(* (no bytes at all, when those are committed); the last three are bytes   *)
(* other than the committed ones, told apart by their size.                *)
Responses ==
    {"raised", "not_200", "not_bytes", "committed",
     "other_bytes", "empty", "oversized"}

Sources == {"dataset", "license", "provenance"}

\* The size of a served body.
BodySize(response, committed_size) ==
    IF response = "committed" THEN committed_size
    ELSE IF response \in {"empty", "oversized"} THEN response
    ELSE "within_limit"

\* Mutant: a response is accepted without checking its shape and digest.
FetchAvailable(response, committed_size, allow_empty) ==
    IF response \in {"raised", "not_200"} THEN "UNAVAILABLE" ELSE "VERIFIED"

\* One exact retrieval: availability, then shape, then digest.
FetchVerified(response, committed_size, allow_empty) ==
    IF response \in {"raised", "not_200"} THEN "UNAVAILABLE"
    ELSE IF response = "not_bytes"
            \/ BodySize(response, committed_size) = "oversized"
            \/ (~allow_empty /\ BodySize(response, committed_size) = "empty")
         THEN "INVALID_RESPONSE"
    ELSE IF response # "committed" THEN "DIGEST_MISMATCH"
    ELSE "VERIFIED"

FetchStatus(source, response, package) ==
    CASE source = "dataset"    -> FetchVerified(response, package.dataset.size, TRUE)
      [] source = "license"    -> FetchVerified(response, package.license.size, FALSE)
      [] source = "provenance" -> FetchVerified(response, package.provenance.size, FALSE)

\* The first source, in the code's order, that is not VERIFIED decides.
PackageIntegrity(served, package) ==
    LET status(source) == FetchStatus(source, served[source], package)
    IN  IF status("dataset") # "VERIFIED" THEN status("dataset")
        ELSE IF status("license") # "VERIFIED" THEN status("license")
        ELSE status("provenance")

\* The deterministic link between the provenance manifest and the package.
ManifestIsLinked(commitment) ==
    commitment.package.provenance.linked_to = commitment.publisher_identity

\* Fetched license and provenance bytes are text.
Decodes(source) == source.utf8

\* The prompt assembled from the commitment and the two texts is short enough.
PromptFits(package) == package.prompt_fits

-----------------------------------------------------------------------------
(* The model's answer: a verdict object, anything else it returned, or an  *)
(* exception from the call.                                                *)
Answers == Verdicts \cup {"malformed", "raised"}

ParseModelVerdict(answer) == IF answer \in Verdicts THEN answer ELSE NoVerdict

LicenseLevel(verdict) ==
    CASE verdict = "CERTIFIED"     -> "COMPATIBLE"
      [] verdict = "NOT_CERTIFIED" -> "INCOMPATIBLE"
      [] OTHER                     -> "INCONCLUSIVE"

\* The judgement of a package whose exact bytes were authenticated and fetched.
JudgeEvidence(commitment, answer) ==
    LET package == commitment.package
        verdict == ParseModelVerdict(answer)
    IN  IF ~Decodes(package.license)
        THEN InconclusiveResult("VERIFIED", "AUTHENTICATED", "INCONCLUSIVE",
                                "INCONCLUSIVE")
        ELSE IF ~Decodes(package.provenance)
        THEN InconclusiveResult("VERIFIED", "AUTHENTICATED", "NOT_EVALUATED",
                                "INCONCLUSIVE")
        ELSE IF ~ManifestIsLinked(commitment)
        THEN InconclusiveResult("VERIFIED", "AUTHENTICATED", "NOT_EVALUATED",
                                "INCOMPLETE")
        ELSE IF ~PromptFits(package) \/ answer = "raised" \/ verdict = NoVerdict
        THEN InconclusiveResult("VERIFIED", "AUTHENTICATED", "INCONCLUSIVE",
                                "COMPLETE")
        ELSE Result(verdict, "VERIFIED", "AUTHENTICATED", LicenseLevel(verdict),
                    "COMPLETE")

\* The whole evaluation.  Nothing is fetched unless the manifest authenticates.
EvaluatePackage(snapshot, served, answer) ==
    LET authentication == AuthenticateStoredManifest(snapshot)
        integrity      == PackageIntegrity(served, snapshot.commitment.package)
    IN  IF authentication # "AUTHENTICATED"
        THEN InconclusiveResult("VERIFIED", authentication, "NOT_EVALUATED",
                                "NOT_EVALUATED")
        ELSE IF integrity # "VERIFIED"
        THEN InconclusiveResult(integrity, "AUTHENTICATED", "NOT_EVALUATED",
                                "NOT_EVALUATED")
        ELSE JudgeEvidence(snapshot.commitment, answer)

-----------------------------------------------------------------------------
\* Mutant: the clause of CERTIFIED, pasted for NOT_CERTIFIED.
ValidIfCompatible(result) ==
    /\ result \in Results
    /\ result.verdict \in Conclusive => result.license_status = "COMPATIBLE"

\* The results that may be stored: _validate_consensus_result is not None.
ValidConsensusResult(result) ==
    /\ result \in Results
    /\ result.verdict \in Conclusive =>
         /\ result.integrity_status = "VERIFIED"
         /\ result.authentication_status = "AUTHENTICATED"
         /\ result.license_status =
              IF result.verdict = "CERTIFIED" THEN "COMPATIBLE" ELSE "INCOMPATIBLE"
         /\ result.provenance_status = "COMPLETE"
    /\ result.verdict = "INCONCLUSIVE" =>
         ~ /\ result.integrity_status = "VERIFIED"
           /\ result.authentication_status = "AUTHENTICATED"
           /\ result.provenance_status = "COMPLETE"
           /\ result.license_status # "INCONCLUSIVE"
=============================================================================
