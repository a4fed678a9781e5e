----------------------------- MODULE RoundProofs -----------------------------
(***************************************************************************)
(* Proofs about CertificationRound, for every set of validators, every     *)
(* quorum that the faulty ones alone cannot reach, and everything that     *)
(* hosts, the model and faulty nodes may do.                               *)
(***************************************************************************)
EXTENDS CertificationRound, FiniteSetTheorems, TLAPS

-----------------------------------------------------------------------------
(* One evaluation: of every snapshot, everything the hosts may serve and   *)
(* every answer of the model.                                              *)

\* The model's verdict words are the verdicts; anything else is no verdict.
LEMMA JudgementIsValid ==
    ASSUME NEW commitment, NEW answer
    PROVE  ValidConsensusResult(JudgeEvidence(commitment, answer))
BY DEF JudgeEvidence, ParseModelVerdict, LicenseLevel, ValidConsensusResult,
       InconclusiveResult, Result, Results, Verdicts, Conclusive, NoVerdict,
       IntegrityStatus, AuthenticationStatus, LicenseStatus, ProvenanceStatus

\* A failed fetch is reported as one of the three failures.
LEMMA IntegrityIsAStatus ==
    ASSUME NEW world, NEW package
    PROVE  PackageIntegrity(world, package) \in IntegrityStatus
BY DEF PackageIntegrity, FetchStatus, FetchVerified, IntegrityStatus

LEMMA AuthenticationIsAStatus ==
    ASSUME NEW state
    PROVE  AuthenticateStoredManifest(state) \in AuthenticationStatus
BY DEF AuthenticateStoredManifest, AuthenticationStatus

(* Whatever the hosts serve and the model answers, an honest evaluation    *)
(* passes _validate_consensus_result: MALFORMED_CONSENSUS_RESULT can only  *)
(* come from a leader that did not run _evaluate_package.                  *)
THEOREM EvaluationIsValid ==
    ASSUME NEW state, NEW world, NEW answer
    PROVE  ValidConsensusResult(EvaluatePackage(state, world, answer))
<1> DEFINE authentication == AuthenticateStoredManifest(state)
           integrity == PackageIntegrity(world, state.commitment.package)
<1>1. authentication \in AuthenticationStatus /\ integrity \in IntegrityStatus
  BY IntegrityIsAStatus, AuthenticationIsAStatus
<1>2. EvaluatePackage(state, world, answer) =
        IF authentication # "AUTHENTICATED"
        THEN InconclusiveResult("VERIFIED", authentication, "NOT_EVALUATED",
                                "NOT_EVALUATED")
        ELSE IF integrity # "VERIFIED"
        THEN InconclusiveResult(integrity, "AUTHENTICATED", "NOT_EVALUATED",
                                "NOT_EVALUATED")
        ELSE JudgeEvidence(state.commitment, answer)
  BY DEF EvaluatePackage
<1> HIDE DEF authentication, integrity
<1>3. CASE authentication # "AUTHENTICATED"
  BY <1>1, <1>2, <1>3
     DEF ValidConsensusResult, InconclusiveResult, Result, Results, Verdicts,
         Conclusive, IntegrityStatus, LicenseStatus, ProvenanceStatus
<1>4. CASE authentication = "AUTHENTICATED" /\ integrity # "VERIFIED"
  BY <1>1, <1>2, <1>4
     DEF ValidConsensusResult, InconclusiveResult, Result, Results, Verdicts,
         Conclusive, AuthenticationStatus, LicenseStatus, ProvenanceStatus
<1>5. CASE authentication = "AUTHENTICATED" /\ integrity = "VERIFIED"
  BY <1>2, <1>5, JudgementIsValid
<1> QED
  BY <1>3, <1>4, <1>5

\* A final verdict presupposes an authenticated manifest.
LEMMA FinalVerdictIsAuthenticated ==
    ASSUME NEW state, NEW world, NEW answer,
           EvaluatePackage(state, world, answer).verdict # "INCONCLUSIVE"
    PROVE  AuthenticateStoredManifest(state) = "AUTHENTICATED"
BY DEF EvaluatePackage, InconclusiveResult, Result

\* What a final verdict says of the evidence it was reached on.
LEMMA FinalVerdictEvidence ==
    ASSUME NEW state, NEW world, NEW answer,
           EvaluatePackage(state, world, answer).verdict # "INCONCLUSIVE"
    PROVE  /\ AuthenticateStoredManifest(state) = "AUTHENTICATED"
           /\ \A source \in Sources : world[source] = "committed"
           /\ ManifestIsLinked(state.commitment)
<1> DEFINE package == state.commitment.package
<1>1. AuthenticateStoredManifest(state) = "AUTHENTICATED"
  BY FinalVerdictIsAuthenticated
<1>2. PackageIntegrity(world, package) = "VERIFIED"
  BY DEF EvaluatePackage, InconclusiveResult, Result
<1>3. EvaluatePackage(state, world, answer)
        = JudgeEvidence(state.commitment, answer)
  BY <1>1, <1>2 DEF EvaluatePackage
<1>4. ManifestIsLinked(state.commitment)
  BY <1>3 DEF JudgeEvidence, InconclusiveResult, Result
<1>5. \A source \in Sources :
        FetchStatus(source, world[source], package) = "VERIFIED"
  BY <1>2 DEF PackageIntegrity, Sources
<1>6. \A source \in Sources : world[source] = "committed"
  BY <1>5 DEF FetchStatus, FetchVerified, Sources
<1> QED
  BY <1>1, <1>4, <1>6

-----------------------------------------------------------------------------
(* The round. *)

\* An honest validator votes TRUE only for what it evaluated itself, on all
\* the evidence.
VotesAreEarned ==
    \A v \in Honest \cap Agreeing :
        /\ Proposed
        /\ IsAcceptable
        /\ HasEvidence(v)
        /\ \E answer \in ModelAnswers : proposal[1].result = OwnResult(v, answer)

\* A round is decided on all the votes, and written by a quorum of them.
DecidedOnAllVotes ==
    /\ outcome # "running" => DOMAIN votes = Validators
    /\ outcome = "written" => Cardinality(Agreeing) >= Quorum

RoundInv == RoundTypeOK /\ VotesAreEarned /\ DecidedOnAllVotes

-----------------------------------------------------------------------------
LEMMA OwnResultTyped ==
    ASSUME NEW n, NEW answer
    PROVE  OwnResult(n, answer) \in Results
BY EvaluationIsValid DEF OwnResult, ValidConsensusResult

LEMMA RoundInvInit == RoundInit => RoundInv
BY DEF RoundInit, RoundInv, RoundTypeOK, VotesAreEarned, DecidedOnAllVotes,
       Agreeing, Nodes

\* What a vote does to the votes.
LEMMA VoteEffect ==
    ASSUME RoundTypeOK, NEW v \in Validators, NEW agrees \in BOOLEAN, Vote(v, agrees)
    PROVE  /\ Proposed
           /\ v \notin DOMAIN votes
           /\ DOMAIN votes' = DOMAIN votes \cup {v}
           /\ votes'[v] = agrees
           /\ \A w \in DOMAIN votes : votes'[w] = votes[w]
           /\ Agreeing' = IF agrees THEN Agreeing \cup {v} ELSE Agreeing
           /\ UNCHANGED <<snapshot, served, seen, proposal, outcome>>
<1>1. /\ Proposed
      /\ v \notin DOMAIN votes
      /\ DOMAIN votes' = DOMAIN votes \cup {v}
      /\ votes'[v] = agrees
      /\ \A w \in DOMAIN votes : votes'[w] = votes[w]
      /\ UNCHANGED <<snapshot, served, seen, proposal, outcome>>
  BY DEF Vote, Put
<1>2. Agreeing' = IF agrees THEN Agreeing \cup {v} ELSE Agreeing
  BY <1>1 DEF Agreeing
<1> QED
  BY <1>1, <1>2

LEMMA VoteKeepsInv ==
    ASSUME RoundInv, NEW v \in Validators, NEW agrees \in BOOLEAN, Vote(v, agrees),
           agrees /\ v \in Honest =>
             /\ IsAcceptable
             /\ HasEvidence(v)
             /\ \E answer \in ModelAnswers : proposal[1].result = OwnResult(v, answer)
    PROVE  RoundInv'
<1>1. /\ Proposed
      /\ v \notin DOMAIN votes
      /\ DOMAIN votes' = DOMAIN votes \cup {v}
      /\ votes'[v] = agrees
      /\ \A w \in DOMAIN votes : votes'[w] = votes[w]
      /\ Agreeing' = IF agrees THEN Agreeing \cup {v} ELSE Agreeing
      /\ snapshot' = snapshot /\ served' = served /\ seen' = seen
      /\ proposal' = proposal /\ outcome' = outcome
  BY VoteEffect DEF RoundInv
<1>2. RoundTypeOK'
  BY <1>1 DEF RoundInv, RoundTypeOK
<1>3. \A w, answer : OwnResult(w, answer)' = OwnResult(w, answer)
  BY <1>1 DEF OwnResult, ServedTo
<1>4. VotesAreEarned'
  <2>1. /\ Proposed' /\ (IsAcceptable' <=> IsAcceptable)
        /\ \A w : HasEvidence(w)' <=> HasEvidence(w)
    BY <1>1 DEF Proposed, IsAcceptable, HasEvidence, IsAuthentic
  <2> SUFFICES ASSUME NEW w \in Honest \cap Agreeing'
               PROVE  /\ IsAcceptable
                      /\ HasEvidence(w)
                      /\ \E answer \in ModelAnswers :
                           proposal[1].result = OwnResult(w, answer)
    BY <1>1, <1>3, <2>1 DEF VotesAreEarned
  <2>2. CASE w \in Agreeing
    BY <2>2 DEF RoundInv, VotesAreEarned
  <2>3. CASE w \notin Agreeing
    <3>1. w = v /\ agrees
      BY <1>1, <2>3
    <3> QED
      BY <3>1
  <2> QED
    BY <2>2, <2>3
<1>5. DecidedOnAllVotes'
  BY <1>1 DEF RoundInv, RoundTypeOK, DecidedOnAllVotes
<1> QED
  BY <1>2, <1>4, <1>5 DEF RoundInv

\* Before a proposal nobody honest agrees, so making one disturbs no vote.
LEMMA ProposeKeepsInv ==
    ASSUME RoundInv, NEW p \in Proposals, ~Proposed, proposal' = <<p>>,
           UNCHANGED <<snapshot, served, seen, votes, outcome>>
    PROVE  RoundInv'
<1>1. Agreeing' = Agreeing
  BY DEF Agreeing
<1>2. RoundTypeOK'
  BY DEF RoundInv, RoundTypeOK
<1>3. VotesAreEarned'
  BY <1>1 DEF RoundInv, VotesAreEarned, HasEvidence, IsAuthentic
<1>4. DecidedOnAllVotes'
  BY <1>1 DEF RoundInv, DecidedOnAllVotes
<1> QED
  BY <1>2, <1>3, <1>4 DEF RoundInv

\* An evaluating validator has not voted, so its requests disturb no vote.
LEMMA FetchKeepsInv ==
    ASSUME RoundInv, NEW n \in Nodes, NEW source \in Sources, Fetch(n, source)
    PROVE  RoundInv'
<1>1. /\ IsEvaluating(n)
      /\ seen' = [seen EXCEPT ![n] = Put(seen[n], source, served[source])]
      /\ snapshot' = snapshot /\ served' = served /\ proposal' = proposal
      /\ votes' = votes /\ outcome' = outcome
  BY DEF Fetch
<1>2. RoundTypeOK'
  <2>1. /\ DOMAIN seen' = Nodes
        /\ seen'[n] = Put(seen[n], source, served[source])
        /\ \A m \in Nodes : m # n => seen'[m] = seen[m]
    BY <1>1 DEF RoundInv, RoundTypeOK
  <2>2. /\ DOMAIN seen'[n] \subseteq Sources
        /\ \A s \in DOMAIN seen'[n] : seen'[n][s] \in WebResponses
    BY <2>1 DEF RoundInv, RoundTypeOK, Put
  <2> QED
    BY <1>1, <2>1, <2>2 DEF RoundInv, RoundTypeOK
<1>3. Agreeing' = Agreeing
  BY <1>1 DEF Agreeing
<1>4. n \notin Honest \cap Agreeing
  BY <1>1, NodesAssumption
     DEF IsEvaluating, Agreeing, Honest, RoundInv, VotesAreEarned
<1>5. \A v \in Honest \cap Agreeing : seen'[v] = seen[v]
  BY <1>1, <1>4 DEF RoundInv, RoundTypeOK, Nodes, Honest
<1>6. \A v \in Honest \cap Agreeing : \A answer :
        OwnResult(v, answer)' = OwnResult(v, answer)
  BY <1>1, <1>5 DEF OwnResult, ServedTo
<1>7. VotesAreEarned'
  BY <1>1, <1>3, <1>5, <1>6
     DEF RoundInv, VotesAreEarned, Proposed, IsAcceptable, HasEvidence, IsAuthentic
<1>8. DecidedOnAllVotes'
  BY <1>1, <1>3 DEF RoundInv, DecidedOnAllVotes
<1> QED
  BY <1>2, <1>7, <1>8 DEF RoundInv

LEMMA SameViewKeepsInv ==
    ASSUME RoundInv, UNCHANGED <<snapshot, seen, proposal, votes>>,
           RoundTypeOK', DecidedOnAllVotes'
    PROVE  RoundInv'
<1>1. \A v, answer : OwnResult(v, answer)' = OwnResult(v, answer)
  BY DEF OwnResult, ServedTo
<1>2. VotesAreEarned'
  BY <1>1 DEF RoundInv, VotesAreEarned, Agreeing, Proposed, IsAcceptable,
              HasEvidence, IsAuthentic
<1> QED
  BY <1>2 DEF RoundInv

LEMMA RoundInvNext == RoundInv /\ [RoundNext]_roundVars => RoundInv'
<1> SUFFICES ASSUME RoundInv, [RoundNext]_roundVars
             PROVE  RoundInv'
    OBVIOUS
<1>1. ASSUME NEW source \in Sources, NEW response \in WebResponses,
             HostChanges(source, response)
      PROVE  RoundInv'
  <2>1. RoundTypeOK' /\ DecidedOnAllVotes'
    BY <1>1 DEF HostChanges, RoundInv, RoundTypeOK, DecidedOnAllVotes, Agreeing
  <2> QED
    BY <1>1, <2>1, SameViewKeepsInv DEF HostChanges
<1>2. CASE LeaderStep
  <2>1. ASSUME NEW source \in Sources, Fetch(Leader, source)
        PROVE  RoundInv'
    BY <2>1, FetchKeepsInv DEF Nodes
  <2>2. CASE LeaderReturns
    <3>1. PICK answer \in ModelAnswers :
            proposal' = <<[returned |-> TRUE, result |-> OwnResult(Leader, answer)]>>
      BY <2>2 DEF LeaderReturns
    <3>2. [returned |-> TRUE, result |-> OwnResult(Leader, answer)] \in Proposals
      BY OwnResultTyped DEF Proposals
    <3>3. ~Proposed /\ UNCHANGED <<snapshot, served, seen, votes, outcome>>
      BY <2>2 DEF LeaderReturns, IsEvaluating
    <3> QED
      BY <3>1, <3>2, <3>3, ProposeKeepsInv
  <2>3. CASE LeaderMisbehaves
    BY <2>3, ProposeKeepsInv, RoundInputsAssumption DEF LeaderMisbehaves
  <2> QED
    BY <1>2, <2>1, <2>2, <2>3 DEF LeaderStep
<1>3. ASSUME NEW v \in Validators, ValidatorStep(v)
      PROVE  RoundInv'
  <2>1. ASSUME NEW source \in Sources, Fetch(v, source)
        PROVE  RoundInv'
    BY <2>1, FetchKeepsInv DEF Nodes
  <2>2. CASE ValidatorRefuses(v)
    BY <2>2, VoteKeepsInv DEF ValidatorRefuses
  <2>3. CASE ValidatorCompares(v)
    <3>1. PICK answer \in ModelAnswers :
            Vote(v, OwnResult(v, answer) = proposal[1].result)
      BY <2>3 DEF ValidatorCompares
    <3>2. IsAcceptable /\ HasEvidence(v)
      BY <2>3, NodesAssumption DEF ValidatorCompares, IsEvaluating
    <3> QED
      BY <3>1, <3>2, VoteKeepsInv
  <2>4. CASE FaultyVotes(v)
    BY <2>4, VoteKeepsInv DEF FaultyVotes, Honest
  <2> QED
    BY <1>3, <2>1, <2>2, <2>3, <2>4 DEF ValidatorStep
<1>4. CASE Decide
  <2>1. RoundTypeOK' /\ DecidedOnAllVotes'
    BY <1>4 DEF Decide, RoundInv, RoundTypeOK, DecidedOnAllVotes, Agreeing
  <2> QED
    BY <1>4, <2>1, SameViewKeepsInv DEF Decide
<1>5. CASE UNCHANGED roundVars
  <2>1. RoundTypeOK' /\ DecidedOnAllVotes'
    BY <1>5 DEF roundVars, RoundInv, RoundTypeOK, DecidedOnAllVotes, Agreeing
  <2> QED
    BY <1>5, <2>1, SameViewKeepsInv DEF roundVars
<1> QED
  BY <1>1, <1>2, <1>3, <1>4, <1>5 DEF RoundNext

LEMMA RoundInvariance == RoundSpec => []RoundInv
  BY RoundInvInit, RoundInvNext, PTL DEF RoundSpec

-----------------------------------------------------------------------------
(* Every reachable state of a round is typed: in particular a node makes   *)
(* one request to each source, and a validator votes once.                 *)
THEOREM RoundTypeCorrect == RoundSpec => []RoundTypeOK
<1>1. RoundInv => RoundTypeOK
  BY DEF RoundInv
<1> QED
  BY <1>1, RoundInvariance, PTL

\* The agreeing quorum is more than the faulty validators.
LEMMA QuorumHasHonest ==
    ASSUME RoundInv, outcome = "written"
    PROVE  \E v \in Validators : WitnessedBy(v)
<1>1. IsFiniteSet(Faulty \cap Validators)
  BY QuorumAssumption, FS_Subset
<1>2. Cardinality(Faulty \cap Validators) \in Nat
  BY <1>1, FS_CardinalityType
<1>3. PICK v \in Agreeing : v \notin Faulty
  <2> SUFFICES ASSUME Agreeing \subseteq Faulty
               PROVE  FALSE
      OBVIOUS
  <2>1. Agreeing \subseteq Faulty \cap Validators
    BY DEF RoundInv, RoundTypeOK, Agreeing
  <2>2. /\ Cardinality(Agreeing) \in Nat
        /\ Cardinality(Agreeing) <= Cardinality(Faulty \cap Validators)
    BY <1>1, <2>1, FS_Subset, FS_CardinalityType
  <2>3. Cardinality(Agreeing) >= Quorum
    BY DEF RoundInv, DecidedOnAllVotes
  <2> QED
    BY <1>2, <2>2, <2>3, QuorumAssumption
<1>4. v \in Honest \cap Agreeing
  BY <1>3 DEF RoundInv, RoundTypeOK, Agreeing, Honest
<1> QED
  BY <1>4 DEF RoundInv, VotesAreEarned, WitnessedBy, Honest

(* What a round writes is an honest validator's own evaluation of the      *)
(* snapshot, whatever the leader proposed: DatasetBond may assume it.      *)
THEOREM WrittenIsWitnessedCorrect == RoundSpec => []WrittenIsWitnessed
<1>1. RoundInv => WrittenIsWitnessed
  BY QuorumHasHonest DEF WrittenIsWitnessed
<1> QED
  BY <1>1, RoundInvariance, PTL

LEMMA AgreedVerdictWasFetched ==
    ASSUME RoundInv, NEW v \in Honest \cap Agreeing,
           proposal[1].result.verdict \in Conclusive
    PROVE  /\ IsAuthentic
           /\ ManifestIsLinked(snapshot.commitment)
           /\ FetchedCommitted(v)
<1>1. PICK answer \in ModelAnswers : proposal[1].result = OwnResult(v, answer)
  BY DEF RoundInv, VotesAreEarned
<1>2. EvaluatePackage(snapshot, ServedTo(v), answer).verdict # "INCONCLUSIVE"
  BY <1>1 DEF OwnResult, Conclusive
<1>3. /\ IsAuthentic
      /\ \A s \in Sources : ServedTo(v)[s] = "committed"
      /\ ManifestIsLinked(snapshot.commitment)
  BY <1>2, FinalVerdictEvidence DEF IsAuthentic
<1> QED
  BY <1>3 DEF ServedTo, FetchedCommitted

(* No verdict is written on faith: every honest validator behind it was    *)
(* served the committed bytes of all three sources.                        *)
THEOREM VerdictWasFetchedCorrect == RoundSpec => []VerdictWasFetched
<1>1. RoundInv => VerdictWasFetched
  BY QuorumHasHonest, AgreedVerdictWasFetched DEF VerdictWasFetched, WitnessedBy
<1> QED
  BY <1>1, RoundInvariance, PTL

\* Whatever a node was served, it is what all three hosts may serve at once.
LEMMA WrittenIsAnEvaluation ==
    ASSUME RoundInv, outcome = "written"
    PROVE  \E world \in [Sources -> WebResponses], answer \in ModelAnswers :
             proposal[1].result = EvaluatePackage(snapshot, world, answer)
<1>1. PICK v \in Validators, answer \in ModelAnswers :
        /\ proposal[1].result = EvaluatePackage(snapshot, ServedTo(v), answer)
        /\ HasEvidence(v)
  BY QuorumHasHonest DEF WitnessedBy, RoundInv, VotesAreEarned, OwnResult
<1>2. CASE IsAuthentic
  <2>1. DOMAIN seen[v] = Sources
    BY <1>1, <1>2 DEF HasEvidence
  <2>2. ServedTo(v) \in [Sources -> WebResponses]
    BY <2>1 DEF ServedTo, RoundInv, RoundTypeOK, Nodes
  <2> QED
    BY <1>1, <2>2
<1>3. CASE ~IsAuthentic
  <2>1. EvaluatePackage(snapshot, ServedTo(v), answer)
          = EvaluatePackage(snapshot, served, answer)
    BY <1>3 DEF EvaluatePackage, IsAuthentic
  <2>2. served \in [Sources -> WebResponses]
    BY DEF RoundInv, RoundTypeOK
  <2> QED
    BY <1>1, <2>1, <2>2
<1> QED
  BY <1>2, <1>3

(* DatasetBond lets a round end with any EvaluatePackage(snapshot, served, *)
(* answer) of its Observations: that is all a round can do, on what hosts  *)
(* may serve and the model may answer.                                     *)
THEOREM RoundGivesAnEvaluation ==
    RoundSpec =>
      [](outcome = "written" =>
           \E world \in [Sources -> WebResponses], answer \in ModelAnswers :
             proposal[1].result = EvaluatePackage(snapshot, world, answer))
<1> DEFINE Evaluations ==
             outcome = "written" =>
               \E world \in [Sources -> WebResponses], answer \in ModelAnswers :
                 proposal[1].result = EvaluatePackage(snapshot, world, answer)
<1>1. RoundInv => Evaluations
  BY WrittenIsAnEvaluation
<1> HIDE DEF Evaluations
<1>2. RoundSpec => []Evaluations
  BY <1>1, RoundInvariance, PTL
<1> QED
  BY <1>2 DEF Evaluations
=============================================================================
