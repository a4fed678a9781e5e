--------------------------- MODULE RefinementProofs ---------------------------
(***************************************************************************)
(* What implements what, for every instance: the contract implements the   *)
(* abstract life cycle, CertificateLifecycle, and the contract with its    *)
(* consensus rounds inside, CertifiedRounds, implements the contract.  The *)
(* initial state is the abstract one, and every step is an abstract step   *)
(* or leaves the abstract state alone.                                     *)
(***************************************************************************)
EXTENDS DatasetBondProofs, CertifiedRounds

LEMMA LifecycleInit == Init => Lifecycle!Init
<1> SUFFICES ASSUME Init
             PROVE  Lifecycle!Init
    OBVIOUS
<1>1. DOMAIN certificates = {} /\ DOMAIN used_nonces = {}
  BY DEF Init
<1>2. LifecycleOf = << >>
  BY <1>1 DEF LifecycleOf
<1> QED
  BY <1>1, <1>2 DEF Lifecycle!Init

LEMMA RegisterIsRegister ==
    ASSUME TypeOK, NEW sender \in Accounts, NEW call \in Calls,
           NoCallInFlight, RegisterDataset(sender, call)
    PROVE  Lifecycle!Next
<1> DEFINE d == call.dataset_id
           n == call.nonce
<1>1. /\ call \in Submissions
      /\ d \in DatasetIds
      /\ d \notin DOMAIN certificates
      /\ DOMAIN certificates' = DOMAIN certificates \cup {d}
      /\ \A e \in DOMAIN certificates : certificates'[e] = certificates[e]
      /\ used_nonces' = used_nonces
  BY RegisterDatasetEffect
<1>2. n \in Nonces
  BY <1>1 DEF Submissions
<1>3. /\ certificates'[d].status = "REGISTERED"
      /\ certificates'[d].attempts = 0
      /\ certificates'[d].commitment.nonce = n
  <2>1. CommitmentOf(call).nonce = n
    BY DEF CommitmentOf
  <2>2. /\ certificates'[d].status = "REGISTERED"
        /\ certificates'[d].attempts = 0
        /\ certificates'[d].commitment = CommitmentOf(call)
    BY RegisteredFields
  <2> QED
    BY <2>1, <2>2
<1>4. LifecycleOf' =
        [e \in DOMAIN LifecycleOf \cup {d} |->
           IF e = d
           THEN [phase |-> "REGISTERED", nonce |-> n, attempts |-> 0]
           ELSE LifecycleOf[e]]
  BY <1>1, <1>3 DEF LifecycleOf
<1>5. Lifecycle!Register(d, n)
  BY <1>1, <1>4 DEF Lifecycle!Register, LifecycleOf
<1> QED
  BY <1>1, <1>2, <1>5 DEF Lifecycle!Next

LEMMA CommitIsEvaluation ==
    ASSUME TypeOK, SnapshotIsCurrent, NEW s \in in_flight, NEW o \in Observations,
           CertifyCommit(s, EvaluatePackage(s, o.served, o.answer))
    PROVE  Lifecycle!Next
<1> DEFINE d == s.commitment.dataset_id
           c == certificates[d]
           result == EvaluatePackage(s, o.served, o.answer)
<1>1. /\ d \in DOMAIN certificates
      /\ d \in DatasetIds
      /\ result \in Results
      /\ DOMAIN certificates' = DOMAIN certificates
      /\ \A e \in DOMAIN certificates : e # d => certificates'[e] = certificates[e]
      /\ used_nonces' = IF result.verdict # "INCONCLUSIVE"
                        THEN Put(used_nonces, s.commitment.nonce, d)
                        ELSE used_nonces
  BY CertifyCommitEffect
<1>2. /\ certificates'[d].status = result.verdict
      /\ certificates'[d].attempts = c.attempts + 1
      /\ certificates'[d].commitment = c.commitment
  BY CommittedFields
<1>3. /\ ~Concluded(c)
      /\ c.attempts < MAX_CERTIFICATION_ATTEMPTS
      /\ s.commitment = c.commitment
      /\ c \in Certificates
  BY <1>1, CurrentMeans, StoredTyped
<1>4. c.status \in {"REGISTERED", "INCONCLUSIVE"}
  BY <1>3 DEF Concluded, Certificates, CertificateStatus
<1>5. Lifecycle!IsOpen(d)
  BY <1>1, <1>3, <1>4 DEF Lifecycle!IsOpen, LifecycleOf
<1>6. LifecycleOf' =
        [LifecycleOf EXCEPT ![d].phase = result.verdict,
                            ![d].attempts = LifecycleOf[d].attempts + 1]
  <2> HIDE DEF result
  <2> DEFINE after == [LifecycleOf EXCEPT
                         ![d].phase = result.verdict,
                         ![d].attempts = LifecycleOf[d].attempts + 1]
  <2>1. DOMAIN after = DOMAIN certificates /\ DOMAIN LifecycleOf' = DOMAIN certificates
    BY <1>1 DEF LifecycleOf
  <2>2. ASSUME NEW e \in DOMAIN certificates
        PROVE  LifecycleOf'[e] = after[e]
    BY <1>1, <1>2 DEF LifecycleOf
  <2> QED
    BY <2>1, <2>2, <1>1 DEF LifecycleOf
<1>7. CASE result.verdict = "INCONCLUSIVE"
  <2>1. used_nonces' = used_nonces
    BY <1>1, <1>7
  <2>2. Lifecycle!LeaveOpen(d)
    BY <1>5, <1>6, <1>7, <2>1 DEF Lifecycle!LeaveOpen
  <2> QED
    BY <1>1, <2>2 DEF Lifecycle!Next
<1>8. CASE result.verdict # "INCONCLUSIVE"
  <2>1. result.verdict \in {"CERTIFIED", "NOT_CERTIFIED"}
    BY <1>1, <1>8 DEF Results, Verdicts
  <2>2. s.commitment.nonce \notin DOMAIN used_nonces
    BY <1>8, FinalVerdictMeans
  <2>3. DOMAIN used_nonces' = DOMAIN used_nonces \cup {s.commitment.nonce}
    BY <1>1, <1>8 DEF Put
  <2>4. LifecycleOf[d].nonce = s.commitment.nonce
    BY <1>1, <1>3 DEF LifecycleOf
  <2>5. Lifecycle!Conclude(d, result.verdict)
    BY <1>5, <1>6, <2>2, <2>3, <2>4 DEF Lifecycle!Conclude
  <2> QED
    BY <1>1, <2>1, <2>5 DEF Lifecycle!Next
<1> QED
  BY <1>7, <1>8

LEMMA RevokeIsRevoke ==
    ASSUME TypeOK, NEW sender, NEW d \in DatasetIds, RevokeCertificate(sender, d)
    PROVE  Lifecycle!Next
<1>1. /\ d \in DOMAIN certificates
      /\ certificates[d].status = "CERTIFIED"
      /\ DOMAIN certificates' = DOMAIN certificates
      /\ \A e \in DOMAIN certificates : e # d => certificates'[e] = certificates[e]
      /\ used_nonces' = used_nonces
  BY RevokeCertificateEffect
<1>2. /\ certificates'[d].status = "REVOKED"
      /\ certificates'[d].attempts = certificates[d].attempts
      /\ certificates'[d].commitment = certificates[d].commitment
  BY RevokedFields
<1>3. LifecycleOf' = [LifecycleOf EXCEPT ![d].phase = "REVOKED"]
  BY <1>1, <1>2 DEF LifecycleOf
<1>4. Lifecycle!Revoke(d)
  BY <1>1, <1>3 DEF Lifecycle!Revoke, LifecycleOf
<1> QED
  BY <1>4 DEF Lifecycle!Next

LEMMA LifecycleNext ==
    IInv /\ [Next]_vars => [Lifecycle!Next]_<<LifecycleOf, DOMAIN used_nonces>>
<1> SUFFICES ASSUME IInv, [Next]_vars
             PROVE  [Lifecycle!Next]_<<LifecycleOf, DOMAIN used_nonces>>
    OBVIOUS
<1> USE DEF IInv
<1>1. CASE UNCHANGED certificateVars
  BY <1>1 DEF certificateVars, LifecycleOf
<1> QED
  BY <1>1, RegisterIsRegister, CommitIsEvaluation, RevokeIsRevoke, CertificateStep

(* Every run of the contract is a run of the abstract life cycle.          *)
THEOREM LifecycleRefined == Spec => RefinesLifecycle
<1>1. Init => Lifecycle!Init
  BY LifecycleInit
<1>2. IInv /\ [Next]_vars => [Lifecycle!Next]_<<LifecycleOf, DOMAIN used_nonces>>
  BY LifecycleNext
<1> QED
  BY <1>1, <1>2, Invariance, PTL DEF Spec, RefinesLifecycle, Lifecycle!Spec

-----------------------------------------------------------------------------
(* The contract with its rounds inside.  RoundProofs is about a round of   *)
(* its own; here it is instantiated for the round inside a call.  First,   *)
(* the three copies of PackageEvaluation (the contract's, Round's and      *)
(* Proved's) and the two of CertificationRound mean the same.              *)

Proved == INSTANCE RoundProofs
              WITH snapshot <- RoundSnapshot, RoundSnapshots <- Snapshots

LEMMA SameSets ==
    /\ Proved!Results = Results
    /\ Proved!Responses = Responses
    /\ Proved!Answers = Answers
    /\ Proved!Sources = Sources
    /\ Proved!Proposals = Round!Proposals
    /\ Proved!Snapshots = Snapshots
BY DEF Proved!Snapshots, Snapshots, Proved!Commitments, Commitments,
       Proved!Packages, Packages, Proved!Sizes, Sizes, Proved!Digests, Digests,
       Proved!Texts, Texts, Proved!Manifests, Manifests, Proved!UnsignedManifests,
       UnsignedManifests, Proved!Signatures, Signatures, Proved!IssuerStatus,
       IssuerStatus, Proved!NoIssuerStatus, NoIssuerStatus, Proved!Results,
       Results, Proved!Verdicts, Verdicts, Proved!IntegrityStatus,
       IntegrityStatus, Proved!AuthenticationStatus, AuthenticationStatus,
       Proved!LicenseStatus, LicenseStatus, Proved!ProvenanceStatus,
       ProvenanceStatus, Proved!Responses, Responses, Proved!Answers, Answers,
       Proved!Sources, Sources, Proved!Proposals, Round!Proposals,
       Proved!Malformed, Round!Malformed, Proved!UnevaluatedResult,
       Round!UnevaluatedResult, Proved!NoVerdict, Round!NoVerdict, Proved!Result,
       Round!Result, Round!Results, Round!Verdicts, Round!IntegrityStatus,
       Round!AuthenticationStatus, Round!LicenseStatus, Round!ProvenanceStatus

LEMMA SameAuthentication == \A s :
    /\ Proved!AuthenticateStoredManifest(s) = AuthenticateStoredManifest(s)
    /\ Round!AuthenticateStoredManifest(s) = AuthenticateStoredManifest(s)
BY DEF Proved!AuthenticateStoredManifest, AuthenticateStoredManifest,
       Round!AuthenticateStoredManifest, Proved!DigestMatches, DigestMatches,
       Round!DigestMatches, Proved!Sha256, Sha256, Round!Sha256,
       Proved!CanonicalJson, CanonicalJson, Round!CanonicalJson,
       Proved!StoredManifest, StoredManifest, Round!StoredManifest, Proved!Sealed,
       Sealed, Round!Sealed, Proved!StoredUnsigned, StoredUnsigned,
       Round!StoredUnsigned, Proved!NoIssuerStatus, NoIssuerStatus,
       Round!NoIssuerStatus, Proved!VerifySecp256k1Sha256, VerifySecp256k1Sha256,
       Round!VerifySecp256k1Sha256

LEMMA SameIntegrity == \A w, p :
    /\ Proved!PackageIntegrity(w, p) = PackageIntegrity(w, p)
    /\ Round!PackageIntegrity(w, p) = PackageIntegrity(w, p)
<1>1. \A r, z, e : /\ Proved!FetchVerified(r, z, e) = FetchVerified(r, z, e)
                   /\ Round!FetchVerified(r, z, e) = FetchVerified(r, z, e)
  BY DEF Proved!FetchVerified, FetchVerified, Round!FetchVerified,
         Proved!BodySize, BodySize, Round!BodySize
<1>2. \A s, r, p : /\ Proved!FetchStatus(s, r, p) = FetchStatus(s, r, p)
                   /\ Round!FetchStatus(s, r, p) = FetchStatus(s, r, p)
  BY <1>1 DEF Proved!FetchStatus, FetchStatus, Round!FetchStatus
<1> QED
  BY <1>2 DEF Proved!PackageIntegrity, PackageIntegrity, Round!PackageIntegrity

LEMMA SameInconclusive == \A i, a, l, p :
    /\ Proved!InconclusiveResult(i, a, l, p) = InconclusiveResult(i, a, l, p)
    /\ Round!InconclusiveResult(i, a, l, p) = InconclusiveResult(i, a, l, p)
BY DEF Proved!InconclusiveResult, InconclusiveResult, Round!InconclusiveResult,
       Proved!Result, Result, Round!Result

LEMMA SameJudgement == \A c, a :
    /\ Proved!JudgeEvidence(c, a) = JudgeEvidence(c, a)
    /\ Round!JudgeEvidence(c, a) = JudgeEvidence(c, a)
<1> TAKE c, a
<1>1. \A x : /\ Proved!ParseModelVerdict(x) = ParseModelVerdict(x)
             /\ Round!ParseModelVerdict(x) = ParseModelVerdict(x)
             /\ Proved!LicenseLevel(x) = LicenseLevel(x)
             /\ Round!LicenseLevel(x) = LicenseLevel(x)
  BY DEF Proved!ParseModelVerdict, ParseModelVerdict, Round!ParseModelVerdict,
         Proved!LicenseLevel, LicenseLevel, Round!LicenseLevel, Proved!NoVerdict,
         NoVerdict, Round!NoVerdict, Proved!Verdicts, Verdicts, Round!Verdicts
<1>2. \A v, i, t, l, p :
        /\ Proved!Result(v, i, t, l, p) = Result(v, i, t, l, p)
        /\ Round!Result(v, i, t, l, p) = Result(v, i, t, l, p)
  BY DEF Proved!Result, Result, Round!Result
<1>3. \A x : /\ Proved!Decodes(x) = Decodes(x) /\ Round!Decodes(x) = Decodes(x)
             /\ Proved!PromptFits(x) = PromptFits(x)
             /\ Round!PromptFits(x) = PromptFits(x)
             /\ Proved!ManifestIsLinked(x) = ManifestIsLinked(x)
             /\ Round!ManifestIsLinked(x) = ManifestIsLinked(x)
  BY DEF Proved!Decodes, Decodes, Round!Decodes, Proved!PromptFits, PromptFits,
         Round!PromptFits, Proved!ManifestIsLinked, ManifestIsLinked,
         Round!ManifestIsLinked
<1>4. Proved!NoVerdict = NoVerdict /\ Round!NoVerdict = NoVerdict
  BY DEF Proved!NoVerdict, NoVerdict, Round!NoVerdict
<1>5. Proved!JudgeEvidence(c, a) = JudgeEvidence(c, a)
  BY <1>1, <1>2, <1>3, <1>4, SameInconclusive DEF Proved!JudgeEvidence, JudgeEvidence
<1>6. Round!JudgeEvidence(c, a) = JudgeEvidence(c, a)
  BY <1>1, <1>2, <1>3, <1>4, SameInconclusive DEF Round!JudgeEvidence, JudgeEvidence
<1> QED
  BY <1>5, <1>6

LEMMA SameEvaluation == \A s, w, a :
    /\ Proved!EvaluatePackage(s, w, a) = EvaluatePackage(s, w, a)
    /\ Round!EvaluatePackage(s, w, a) = EvaluatePackage(s, w, a)
BY SameAuthentication, SameIntegrity, SameInconclusive, SameJudgement
   DEF Proved!EvaluatePackage, EvaluatePackage, Round!EvaluatePackage

\* The assumptions RoundProofs rests on hold of the rounds inside calls.
LEMMA ProvedAssumptions ==
    /\ Proved!NodesAssumption
    /\ Proved!QuorumAssumption
    /\ Proved!RoundInputsAssumption
    /\ Proved!AbsentIdentifiersAssumption
    /\ Proved!TimesAssumption
<1>1. \A S : Proved!IsFiniteSet(S) <=> IsFiniteSet(S)
  BY DEF Proved!IsFiniteSet, IsFiniteSet
<1>2. \A S : Proved!Cardinality(S) = Cardinality(S)
  BY DEF Proved!Cardinality, Cardinality, Proved!IsFiniteSet, IsFiniteSet
<1>3. Proved!NodesAssumption
  BY CallNodesAssumption
<1>4. Proved!QuorumAssumption
  BY <1>1, <1>2, CallQuorumAssumption
<1>5. Proved!RoundInputsAssumption
  BY CallInputsAssumption, SameSets
<1>6. Proved!AbsentIdentifiersAssumption /\ Proved!TimesAssumption
  BY AbsentIdentifiersAssumption, TimesAssumption
<1> QED
  BY <1>3, <1>4, <1>5, <1>6

\* RoundProofs: a step keeps the invariant, and what is written is evaluated.
LEMMA RoundStep ==
    Proved!RoundInv /\ [Proved!RoundNext]_(Proved!roundVars) => Proved!RoundInv'
BY ProvedAssumptions, Proved!RoundInvNext

LEMMA WrittenEvaluation ==
    ASSUME Proved!RoundInv, outcome = "written"
    PROVE  \E o \in Observations :
             proposal[1].result = EvaluatePackage(RoundSnapshot, o.served, o.answer)
<1>1. PICK world \in [Sources -> WebResponses], answer \in ModelAnswers :
        proposal[1].result = EvaluatePackage(RoundSnapshot, world, answer)
  BY Proved!WrittenIsAnEvaluation, ProvedAssumptions, SameEvaluation, SameSets
<1> DEFINE o == [served |-> world, answer |-> answer]
<1>2. o \in Observations
  BY RoundObservationsAssumption
<1> QED
  BY <1>1, <1>2

LEMMA SameValidity == \A r :
    /\ Proved!ValidConsensusResult(r) <=> ValidConsensusResult(r)
    /\ Round!ValidConsensusResult(r) <=> ValidConsensusResult(r)
BY DEF Proved!ValidConsensusResult, ValidConsensusResult,
       Round!ValidConsensusResult, Proved!Results, Results, Round!Results,
       Proved!Verdicts, Verdicts, Round!Verdicts, Proved!IntegrityStatus,
       IntegrityStatus, Round!IntegrityStatus, Proved!AuthenticationStatus,
       AuthenticationStatus, Round!AuthenticationStatus, Proved!LicenseStatus,
       LicenseStatus, Round!LicenseStatus, Proved!ProvenanceStatus,
       ProvenanceStatus, Round!ProvenanceStatus, Proved!Conclusive, Conclusive,
       Round!Conclusive

LEMMA SameRoundState ==
    /\ Round!Nodes = Proved!Nodes
    /\ Round!Honest = Proved!Honest
    /\ Round!Agreeing = Proved!Agreeing
    /\ Round!Proposed <=> Proved!Proposed
    /\ Round!IsAcceptable <=> Proved!IsAcceptable
    /\ Round!IsAuthentic <=> Proved!IsAuthentic
    /\ \A n : /\ Round!IsEvaluating(n) <=> Proved!IsEvaluating(n)
              /\ Round!HasEvidence(n) <=> Proved!HasEvidence(n)
              /\ Round!FetchedCommitted(n) <=> Proved!FetchedCommitted(n)
              /\ \A a : Round!OwnResult(n, a) = Proved!OwnResult(n, a)
    /\ \A source : Round!Before(source) = Proved!Before(source)
<1>1. /\ Round!IsAcceptable <=> Proved!IsAcceptable
      /\ Round!IsAuthentic <=> Proved!IsAuthentic
      /\ Round!Sources = Proved!Sources
  BY SameValidity, SameAuthentication
     DEF Proved!IsAcceptable, Round!IsAcceptable, Proved!IsAuthentic,
         Round!IsAuthentic, Proved!Sources, Round!Sources
<1>2. \A n : Round!ServedTo(n) = Proved!ServedTo(n)
  BY <1>1 DEF Proved!ServedTo, Round!ServedTo
<1> QED
  BY <1>1, <1>2, SameEvaluation
     DEF Proved!Nodes, Round!Nodes, Proved!Honest, Round!Honest, Proved!Agreeing,
         Round!Agreeing, Proved!Proposed, Round!Proposed, Proved!IsEvaluating,
         Round!IsEvaluating, Proved!HasEvidence, Round!HasEvidence,
         Proved!FetchedCommitted, Round!FetchedCommitted, Proved!OwnResult,
         Round!OwnResult, Proved!Before, Round!Before

\* The steps of the round inside a call are those RoundProofs is about.
LEMMA FetchIsFetch ==
    ASSUME NEW n, NEW source, Round!Fetch(n, source)
    PROVE  Proved!Fetch(n, source)
BY SameRoundState DEF Proved!Fetch, Round!Fetch, Proved!Put, Round!Put

LEMMA VoteIsVote ==
    ASSUME NEW v, NEW agrees, Round!Vote(v, agrees)
    PROVE  Proved!Vote(v, agrees)
BY SameRoundState DEF Proved!Vote, Round!Vote, Proved!Put, Round!Put

LEMMA LeaderStepIsRound ==
    ASSUME Round!LeaderStep
    PROVE  Proved!LeaderStep
<1>1. Round!LeaderReturns => Proved!LeaderReturns
  BY SameRoundState DEF Proved!LeaderReturns, Round!LeaderReturns
<1>2. Round!LeaderMisbehaves => Proved!LeaderMisbehaves
  BY SameRoundState DEF Proved!LeaderMisbehaves, Round!LeaderMisbehaves
<1> QED
  BY <1>1, <1>2, FetchIsFetch
     DEF Proved!LeaderStep, Round!LeaderStep, Proved!Sources, Round!Sources

LEMMA ValidatorStepIsRound ==
    ASSUME NEW v \in Validators, Round!ValidatorStep(v)
    PROVE  Proved!ValidatorStep(v)
<1>1. Round!ValidatorRefuses(v) => Proved!ValidatorRefuses(v)
  BY SameRoundState, VoteIsVote
     DEF Proved!ValidatorRefuses, Round!ValidatorRefuses
<1>2. Round!ValidatorCompares(v) => Proved!ValidatorCompares(v)
  BY SameRoundState, VoteIsVote
     DEF Proved!ValidatorCompares, Round!ValidatorCompares
<1>3. Round!FaultyVotes(v) => Proved!FaultyVotes(v)
  BY VoteIsVote DEF Proved!FaultyVotes, Round!FaultyVotes
<1> QED
  BY <1>1, <1>2, <1>3, FetchIsFetch
     DEF Proved!ValidatorStep, Round!ValidatorStep, Proved!Sources, Round!Sources

LEMMA DecideIsRound == Round!Decide => Proved!Decide
<1>1. \A S : Proved!Cardinality(S) = Round!Cardinality(S)
  BY DEF Proved!Cardinality, Round!Cardinality, Proved!IsFiniteSet,
         Round!IsFiniteSet
<1> QED
  BY <1>1, SameRoundState DEF Proved!Decide, Round!Decide

-----------------------------------------------------------------------------
\* A call is in flight exactly while a round runs, and the round is about it.
CallInv ==
    /\ IInv
    /\ served \in [Sources -> WebResponses]
    /\ outcome = "idle" => in_flight = {} /\ NothingSeen
    /\ outcome # "idle" => in_flight = {RoundSnapshot} /\ Proved!RoundInv

LEMMA OtherStepKeepsRound ==
    ASSUME OtherStep
    PROVE  UNCHANGED <<in_flight, served, seen, proposal, votes, outcome>>
BY DEF OtherStep, worldVars, AdministerRegistry, TimePasses, SubmitDataset,
       RegisterDataset, RevokeCertificate

\* Every step of the calls and their rounds is a step of the contract, or none.
LEMMA CallIsContract ==
    ASSUME CallInv, [CallNext]_callVars
    PROVE  [Next]_vars
<1>1. CASE OtherStep
  BY <1>1 DEF OtherStep, Next
<1>2. CASE BeginRound
  BY <1>2 DEF BeginRound, Next
<1>3. CASE HostsChange
  BY <1>3 DEF HostsChange
<1>4. CASE RunLeader
  BY <1>4 DEF RunLeader
<1>5. ASSUME NEW v \in Validators, RunValidator(v)
      PROVE  UNCHANGED vars
  BY <1>5 DEF RunValidator
<1>6. CASE DecideRound
  BY <1>6 DEF DecideRound
<1>7. CASE EndRound
  <2>1. CASE outcome = "written" /\ CertifyCommit(RoundSnapshot, proposal[1].result)
    <3>1. PICK o \in Observations :
            proposal[1].result = EvaluatePackage(RoundSnapshot, o.served, o.answer)
      BY <2>1, WrittenEvaluation DEF CallInv
    <3>2. RoundSnapshot \in in_flight
      BY <2>1 DEF CallInv
    <3>3. CertifyCommit(RoundSnapshot,
                        EvaluatePackage(RoundSnapshot, o.served, o.answer))
      BY <2>1, <3>1
    <3> QED
      BY <3>2, <3>3 DEF EndCall, Next
  <2>2. CASE outcome = "failed" /\ ConsensusFails(RoundSnapshot)
    <3>1. RoundSnapshot \in in_flight
      BY <2>2 DEF CallInv
    <3> QED
      BY <2>2, <3>1 DEF EndCall, Next
  <2> QED
    BY <1>7, <2>1, <2>2 DEF EndRound
<1>8. CASE UNCHANGED callVars
  BY <1>8 DEF callVars
<1> QED
  BY <1>1, <1>2, <1>3, <1>4, <1>5, <1>6, <1>7, <1>8 DEF CallNext

\* A step of the running round keeps what is known of it.
LEMMA RoundStepKeepsInv ==
    ASSUME CallInv, outcome # "idle", UNCHANGED in_flight, outcome' # "idle",
           [Proved!RoundNext]_(Proved!roundVars)
    PROVE  in_flight' = {RoundSnapshot'} /\ Proved!RoundInv'
<1>1. RoundSnapshot' = RoundSnapshot
  BY DEF RoundSnapshot
<1> QED
  BY <1>1, RoundStep DEF CallInv

\* A round starts with nothing seen, on a snapshot of storage.
LEMMA RoundBegins ==
    ASSUME TypeOK', served' \in [Sources -> WebResponses], NothingSeen',
           in_flight' = {RoundSnapshot'}, outcome' = "running"
    PROVE  Proved!RoundInv'
<1>1. RoundSnapshot' \in Proved!Snapshots
  BY SameSets DEF TypeOK
<1>2. Proved!RoundTypeOK'
  BY <1>1, SameSets, SameRoundState DEF Proved!RoundTypeOK, NothingSeen
<1>3. Proved!VotesAreEarned' /\ Proved!DecidedOnAllVotes'
  BY DEF Proved!VotesAreEarned, Proved!DecidedOnAllVotes, Proved!Agreeing,
         NothingSeen
<1> QED
  BY <1>2, <1>3 DEF Proved!RoundInv

LEMMA CallInvNext == CallInv /\ [CallNext]_callVars => CallInv'
<1> SUFFICES ASSUME CallInv, [CallNext]_callVars
             PROVE  CallInv'
    OBVIOUS
<1>1. IInv'
  BY CallIsContract, IInvNext DEF CallInv
<1>2. CASE OtherStep \/ UNCHANGED callVars
  <2>1. UNCHANGED <<in_flight, served, seen, proposal, votes, outcome>>
    BY <1>2, OtherStepKeepsRound DEF callVars, vars, worldVars
  <2>2. CASE outcome = "idle"
    BY <1>1, <2>1, <2>2 DEF CallInv, NothingSeen
  <2>3. CASE outcome # "idle"
    <3>1. UNCHANGED Proved!roundVars
      BY <2>1 DEF Proved!roundVars, RoundSnapshot
    <3> QED
      BY <1>1, <2>1, <2>3, <3>1, RoundStepKeepsInv DEF CallInv
  <2> QED
    BY <2>2, <2>3
<1>3. CASE BeginRound
  <2>1. PICK d \in DatasetIds : CertifyBegin(d)
    BY <1>3 DEF BeginRound
  <2>2. /\ in_flight = {} /\ in_flight' = {SnapshotOf(certificates[d])}
        /\ outcome' = "running"
        /\ UNCHANGED <<served, seen, proposal, votes>>
    BY <1>3, <2>1 DEF BeginRound, CertifyBegin, NoCallInFlight
  <2>3. in_flight' = {RoundSnapshot'}
    BY <2>2 DEF RoundSnapshot
  <2>4. NothingSeen'
    BY <2>2 DEF CallInv, NothingSeen
  <2>5. Proved!RoundInv'
    BY <1>1, <2>2, <2>3, <2>4, RoundBegins DEF IInv, CallInv
  <2> QED
    BY <1>1, <2>2, <2>3, <2>5 DEF CallInv
<1>4. CASE HostsChange
  <2>1. /\ UNCHANGED <<in_flight, seen, proposal, votes, outcome>>
        /\ served' \in [Sources -> WebResponses]
    BY <1>4 DEF HostsChange, vars, CallInv
  <2>2. CASE outcome = "idle"
    BY <1>1, <2>1, <2>2 DEF CallInv, NothingSeen
  <2>3. CASE outcome # "idle"
    <3>1. RoundSnapshot' = RoundSnapshot
      BY <2>1 DEF RoundSnapshot
    <3>2. /\ Proved!RoundInv
          /\ Proved!RoundTypeOK
          /\ Proved!DecidedOnAllVotes
      BY <2>3 DEF CallInv, Proved!RoundInv
    <3>3. Proved!RoundTypeOK'
      BY <2>1, <3>1, <3>2, SameSets DEF Proved!RoundTypeOK
    <3>4. Proved!DecidedOnAllVotes'
      BY <2>1, <3>2 DEF Proved!DecidedOnAllVotes, Proved!Agreeing
    <3>5. Proved!RoundInv'
      BY <2>1, <3>1, <3>2, <3>3, <3>4, ProvedAssumptions, Proved!SameViewKeepsInv
    <3> QED
      BY <1>1, <2>1, <2>3, <3>1, <3>5 DEF CallInv
  <2> QED
    BY <2>2, <2>3
<1>5. ASSUME outcome # "idle", UNCHANGED vars, outcome' # "idle",
             Proved!RoundNext, UNCHANGED served
      PROVE  CallInv'
  <2>1. UNCHANGED in_flight
    BY <1>5 DEF vars
  <2> QED
    BY <1>1, <1>5, <2>1, RoundStepKeepsInv DEF CallInv
<1>6. CASE RunLeader
  <2>1. /\ outcome = "running" /\ UNCHANGED vars
        /\ Round!LeaderStep
        /\ Proved!RoundNext
    BY <1>6, LeaderStepIsRound DEF RunLeader, Proved!RoundNext
  <2>2. UNCHANGED <<outcome, served>>
    BY <2>1
       DEF Round!LeaderStep, Round!Fetch, Round!LeaderReturns,
           Round!LeaderMisbehaves
  <2> QED
    BY <1>5, <2>1, <2>2
<1>7. ASSUME NEW v \in Validators, RunValidator(v)
      PROVE  CallInv'
  <2>1. /\ outcome = "running" /\ UNCHANGED vars
        /\ Round!ValidatorStep(v)
        /\ Proved!RoundNext
    BY <1>7, ValidatorStepIsRound DEF RunValidator, Proved!RoundNext
  <2>2. UNCHANGED <<outcome, served>>
    BY <2>1
       DEF Round!ValidatorStep, Round!Fetch, Round!ValidatorRefuses,
           Round!ValidatorCompares, Round!FaultyVotes, Round!Vote
  <2> QED
    BY <1>5, <2>1, <2>2
<1>8. CASE DecideRound
  <2>1. /\ UNCHANGED vars
        /\ Round!Decide
        /\ Proved!RoundNext
    BY <1>8, DecideIsRound DEF DecideRound, Proved!RoundNext
  <2>2. outcome = "running" /\ outcome' # "idle" /\ UNCHANGED served
    BY <2>1 DEF Round!Decide
  <2> QED
    BY <1>5, <2>1, <2>2
<1>9. CASE EndRound
  <2>1. /\ outcome \in {"written", "failed"}
        /\ in_flight' = in_flight \ {RoundSnapshot}
        /\ outcome' = "idle" /\ ForgetsRound /\ UNCHANGED served
    BY <1>9 DEF EndRound, CertifyCommit, ConsensusFails
  <2>2. in_flight' = {} /\ NothingSeen'
    BY <2>1 DEF CallInv, ForgetsRound, NothingSeen
  <2> QED
    BY <1>1, <2>1, <2>2 DEF CallInv
<1> QED
  BY <1>2, <1>3, <1>4, <1>6, <1>7, <1>8, <1>9 DEF CallNext

LEMMA CallInvInit == CallInit => CallInv
  BY IInvInit DEF CallInit, CallInv, Init

LEMMA CallInvariance == CallSpec => []CallInv
  BY CallInvInit, CallInvNext, PTL DEF CallSpec

(* The contract with its rounds inside implements the contract that is     *)
(* given honest results, for every number of nodes and every quorum that   *)
(* the faulty ones alone cannot reach.                                     *)
THEOREM ContractRefined == CallSpec => RefinesContract
<1>1. CallInit => Init
  BY DEF CallInit
<1>2. CallInv /\ [CallNext]_callVars => [Next]_vars
  BY CallIsContract
<1> QED
  BY <1>1, <1>2, CallInvariance, PTL DEF CallSpec, RefinesContract, Spec

(* So what is proved of the contract holds with certify_dataset opened up, *)
(* whatever leaders propose and hosts serve: one verdict for a nonce, a    *)
(* ledger that is exactly the verdicts, a valid key behind each of them,   *)
(* and a record and levels that agree with the status.                     *)
THEOREM CallsKeepInvariants ==
    CallSpec => [](/\ NonceSingleUse
                   /\ NonceLedgerIsExact
                   /\ ConcludedWasAuthentic
                   /\ RecordMatchesCertificate
                   /\ LevelsExplainStatus)
  BY ContractRefined, NonceSingleUseCorrect, NonceLedgerCorrect, ConcludedWasAuthenticCorrect,
     RecordMatchesCorrect, LevelsExplainCorrect, PTL DEF RefinesContract

(* And it implements the abstract life cycle: through the contract.        *)
THEOREM CallsRefineLifecycle == CallSpec => RefinesLifecycle
  BY ContractRefined, LifecycleRefined, PTL DEF RefinesContract

\* Some honest validator stands behind a final verdict that a round writes.
LEMMA WrittenVerdictWasFetched ==
    ASSUME Proved!RoundInv, outcome = "written",
           proposal[1].result.verdict \in Conclusive
    PROVE  \E v \in Round!Honest \cap Round!Agreeing : Round!FetchedCommitted(v)
<1>1. PICK v \in Validators : v \in Proved!Honest \cap Proved!Agreeing
  BY Proved!QuorumHasHonest, ProvedAssumptions DEF Proved!WitnessedBy
<1>2. proposal[1].result.verdict \in Proved!Conclusive
  BY DEF Conclusive, Verdicts, Proved!Conclusive, Proved!Verdicts
<1>3. Proved!FetchedCommitted(v)
  BY <1>1, <1>2, Proved!AgreedVerdictWasFetched, ProvedAssumptions
<1> QED
  BY <1>1, <1>3, SameRoundState

LEMMA NextConcludesOnFetchedEvidence ==
    CallInv /\ [CallNext]_callVars => ConcludesOnFetchedEvidence
<1> SUFFICES ASSUME CallInv, [CallNext]_callVars,
                    NEW d \in DOMAIN certificates,
                    ~Concluded(certificates[d]), Concluded(certificates'[d])
             PROVE  \E v \in Round!Honest \cap Round!Agreeing :
                      Round!FetchedCommitted(v)
    BY DEF ConcludesOnFetchedEvidence
<1>1. IInv /\ TypeOK /\ SnapshotIsCurrent
  BY DEF CallInv, IInv
<1>2. certificates' # certificates
  OBVIOUS
<1>3. CASE OtherStep
  <2>1. ASSUME NEW sender \in Accounts, NEW call \in Calls,
               NoCallInFlight, RegisterDataset(sender, call)
        PROVE  FALSE
    <3>1. certificates'[d] = certificates[d]
      BY <1>1, <2>1, RegisterDatasetEffect
    <3> QED
      BY <3>1
  <2>2. ASSUME NEW sender \in Accounts, NEW e \in DatasetIds,
               RevokeCertificate(sender, e)
        PROVE  FALSE
    <3>1. /\ certificates[e].status = "CERTIFIED"
          /\ d # e => certificates'[d] = certificates[d]
      BY <1>1, <2>2, RevokeCertificateEffect
    <3> QED
      BY <3>1 DEF Concluded
  <2> QED
    BY <1>2, <1>3, <2>1, <2>2
       DEF OtherStep, AdministerRegistry, TimePasses, SubmitDataset, certificateVars
<1>4. CASE EndRound
  <2>1. outcome = "written" /\ CertifyCommit(RoundSnapshot, proposal[1].result)
    BY <1>2, <1>4 DEF EndRound, ConsensusFails, certificateVars
  <2>2. RoundSnapshot \in in_flight /\ Proved!RoundInv
    BY <2>1 DEF CallInv
  <2>3. /\ proposal[1].result \in Results
        /\ d = RoundSnapshot.commitment.dataset_id
        /\ certificates'[d] = Evaluated(certificates[d], proposal[1].result,
                                        RoundSnapshot.now)
    BY <1>1, <2>1, <2>2, CertifyCommitEffect
  <2>4. certificates'[d].status = proposal[1].result.verdict
    BY <1>1, <2>3, StoredTyped DEF Evaluated, Certificates
  <2>5. proposal[1].result.verdict \in Conclusive
    BY <2>3, <2>4 DEF Concluded, Conclusive, Results, Verdicts
  <2> QED
    BY <2>1, <2>2, <2>5, WrittenVerdictWasFetched
<1> QED
  BY <1>2, <1>3, <1>4
     DEF CallNext, BeginRound, CertifyBegin, HostsChange, RunLeader, RunValidator,
         DecideRound, callVars, vars, certificateVars

(* A verdict enters storage only in a step in which an honest validator of *)
(* its own round has agreed, holding the committed bytes of all sources.   *)
THEOREM VerdictOnFetchedEvidenceCorrect == CallSpec => VerdictOnFetchedEvidence
<1>1. CallInv /\ [CallNext]_callVars => [ConcludesOnFetchedEvidence]_callVars
  BY NextConcludesOnFetchedEvidence
<1> QED
  BY <1>1, CallInvariance, PTL DEF CallSpec, VerdictOnFetchedEvidence
=============================================================================
