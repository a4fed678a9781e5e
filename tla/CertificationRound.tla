-------------------------- MODULE CertificationRound --------------------------
(***************************************************************************)
(* The consensus round inside one certify_dataset call: gl.vm.run_nondet   *)
(* with leader_fn and validator_fn, and the check of its result.  The      *)
(* leader and every validator evaluate the same snapshot, each fetching    *)
(* the three sources for itself, one request after another, while the      *)
(* hosts may change what they serve; the leader proposes its result, and a *)
(* validator agrees when its own result is equal.                          *)
(*                                                                         *)
(* External: GenVM collects one vote of every validator, counting one that *)
(* never answers as FALSE, and accepts the proposal of the leader when a   *)
(* quorum agrees.  Some nodes may be faulty: a faulty leader proposes      *)
(* anything or raises, a faulty validator votes as it likes.  A second     *)
(* leader after a failed round is a new round.                             *)
(***************************************************************************)
EXTENDS PackageEvaluation, Sequences, FiniteSets

CONSTANTS
    Leader, Validators,
    Faulty,             \* the nodes that need not follow the code
    Quorum,             \* agreeing votes that accept a proposal
    RoundSnapshots,     \* what the call may have read before the round
    WebResponses,       \* what hosts may serve
    ModelAnswers,       \* what the model may answer to a node
    Forgeries           \* what a faulty leader may propose

Malformed == UnevaluatedResult      \* calldata that is no bounded result

Proposals == [returned : BOOLEAN, result : Results \cup {Malformed}]

ASSUME NodesAssumption ==
    Leader \notin Validators /\ Faulty \subseteq Validators \cup {Leader}

ASSUME QuorumAssumption ==
    /\ Quorum \in Nat
    /\ IsFiniteSet(Validators)
    /\ Cardinality(Faulty \cap Validators) < Quorum
    /\ Quorum <= Cardinality(Validators)

ASSUME RoundInputsAssumption ==
    /\ RoundSnapshots \subseteq Snapshots
    /\ WebResponses \subseteq Responses
    /\ ModelAnswers \subseteq Answers
    /\ Forgeries \subseteq Proposals

VARIABLES
    snapshot,   \* what the call read from storage, the same for every node
    served,     \* source -> what its host serves now
    seen,       \* node -> (source -> the response it got), for its requests so far
    proposal,   \* the result of leader_fn: a sequence of at most one
    votes,      \* validator -> what validator_fn returned, for those done
    outcome     \* "running", then "written" or "failed"

roundVars == <<snapshot, served, seen, proposal, votes, outcome>>

-----------------------------------------------------------------------------
Nodes == Validators \cup {Leader}
Honest == Validators \ Faulty

IsAuthentic == AuthenticateStoredManifest(snapshot) = "AUTHENTICATED"

Proposed == proposal # << >>
IsAcceptable == proposal[1].returned /\ ValidConsensusResult(proposal[1].result)

\* The node follows the code, and is inside _evaluate_package.
IsEvaluating(n) ==
    /\ n \notin Faulty
    /\ IF n = Leader THEN ~Proposed
       ELSE Proposed /\ IsAcceptable /\ n \notin DOMAIN votes

\* The sources that _evaluate_package requests before this one.
Before(source) ==
    CASE source = "dataset"    -> {}
      [] source = "license"    -> {"dataset"}
      [] source = "provenance" -> {"dataset", "license"}

HasEvidence(n) == ~IsAuthentic \/ DOMAIN seen[n] = Sources

ServedTo(n) ==
    [s \in Sources |-> IF s \in DOMAIN seen[n] THEN seen[n][s] ELSE "raised"]

OwnResult(n, answer) == EvaluatePackage(snapshot, ServedTo(n), answer)

Agreeing == {v \in DOMAIN votes : votes[v]}

-----------------------------------------------------------------------------
RoundInit ==
    /\ snapshot \in RoundSnapshots
    /\ served \in [Sources -> WebResponses]
    /\ seen = [n \in Nodes |-> << >>]
    /\ proposal = << >>
    /\ votes = << >>
    /\ outcome = "running"

\* A host changes what it serves.
HostChanges(source, response) ==
    /\ outcome = "running"
    /\ served[source] # response
    /\ served' = [served EXCEPT ![source] = response]
    /\ UNCHANGED <<snapshot, seen, proposal, votes, outcome>>

\* One _fetch_verified request.  All three are made, whatever the first gave.
Fetch(n, source) ==
    /\ IsEvaluating(n)
    /\ IsAuthentic
    /\ source \notin DOMAIN seen[n]
    /\ Before(source) \subseteq DOMAIN seen[n]
    /\ seen' = [seen EXCEPT ![n] = Put(seen[n], source, served[source])]
    /\ UNCHANGED <<snapshot, served, proposal, votes, outcome>>

\* leader_fn returns.
LeaderReturns ==
    /\ IsEvaluating(Leader)
    /\ HasEvidence(Leader)
    /\ \E answer \in ModelAnswers :
         proposal' = <<[returned |-> TRUE, result |-> OwnResult(Leader, answer)]>>
    /\ UNCHANGED <<snapshot, served, seen, votes, outcome>>

LeaderMisbehaves ==
    /\ Leader \in Faulty
    /\ ~Proposed
    /\ \E forgery \in Forgeries : proposal' = <<forgery>>
    /\ UNCHANGED <<snapshot, served, seen, votes, outcome>>

Vote(v, agrees) ==
    /\ Proposed
    /\ v \notin DOMAIN votes
    /\ votes' = Put(votes, v, agrees)
    /\ UNCHANGED <<snapshot, served, seen, proposal, outcome>>

\* Mutant: a leader that raised is not refused, and no vote is ever cast.
ValidatorRefusesNonsense(v) ==
    Proposed /\ proposal[1].returned /\ ~IsAcceptable /\ v \in Honest /\ Vote(v, FALSE)

\* validator_fn when leader_fn raised or returned no valid result.
ValidatorRefuses(v) == Proposed /\ ~IsAcceptable /\ v \in Honest /\ Vote(v, FALSE)

\* Mutant: a valid proposal is agreed to without evaluating the package.
ValidatorTrusts(v) == IsEvaluating(v) /\ Vote(v, TRUE)

\* validator_fn to its end: own == leader.
ValidatorCompares(v) ==
    /\ IsEvaluating(v)
    /\ HasEvidence(v)
    /\ \E answer \in ModelAnswers :
         Vote(v, OwnResult(v, answer) = proposal[1].result)

FaultyVotes(v) == v \in Faulty /\ \E agrees \in BOOLEAN : Vote(v, agrees)

\* run_nondet returns or raises; what it returns is checked once more.
Decide ==
    /\ outcome = "running"
    /\ DOMAIN votes = Validators
    /\ outcome' = IF Cardinality(Agreeing) >= Quorum /\ IsAcceptable
                  THEN "written" ELSE "failed"
    /\ UNCHANGED <<snapshot, served, seen, proposal, votes>>

LeaderStep ==
    \/ \E source \in Sources : Fetch(Leader, source)
    \/ LeaderReturns
    \/ LeaderMisbehaves

ValidatorStep(v) ==
    \/ \E source \in Sources : Fetch(v, source)
    \/ ValidatorRefuses(v)
    \/ ValidatorCompares(v)
    \/ FaultyVotes(v)

RoundNext ==
    \/ \E source \in Sources, response \in WebResponses :
           HostChanges(source, response)
    \/ LeaderStep
    \/ \E v \in Validators : ValidatorStep(v)
    \/ Decide

\* leader_fn and validator_fn are bounded code, and GenVM lets every node run
\* (or stops waiting for it, which FaultyVotes covers).
RoundFairness ==
    /\ WF_roundVars(LeaderStep)
    /\ \A v \in Validators : WF_roundVars(ValidatorStep(v))
    /\ WF_roundVars(Decide)

RoundSpec == RoundInit /\ [][RoundNext]_roundVars /\ RoundFairness

-----------------------------------------------------------------------------
RoundTypeOK ==
    /\ snapshot \in RoundSnapshots
    /\ served \in [Sources -> WebResponses]
    /\ DOMAIN seen = Nodes
    /\ \A n \in Nodes : /\ DOMAIN seen[n] \subseteq Sources
                        /\ \A s \in DOMAIN seen[n] : seen[n][s] \in WebResponses
    /\ proposal \in Seq(Proposals) /\ Len(proposal) <= 1
    /\ DOMAIN votes \subseteq Validators
    /\ \A v \in DOMAIN votes : votes[v] \in BOOLEAN
    /\ outcome \in {"running", "written", "failed"}

\* Some honest validator agreed, having evaluated the package to this result.
WitnessedBy(v) ==
    /\ v \in Honest \cap Agreeing
    /\ \E answer \in ModelAnswers : proposal[1].result = OwnResult(v, answer)

(* What is written is an honest evaluation of the snapshot, by a validator *)
(* that fetched in this round, whatever the leader proposed and however    *)
(* the hosts changed: the assumption under which DatasetBond commits.      *)
WrittenIsWitnessed ==
    outcome = "written" => \E v \in Validators : WitnessedBy(v)

\* The node was served the committed bytes of all three sources.
FetchedCommitted(n) == \A s \in Sources : s \in DOMAIN seen[n] /\ seen[n][s] = "committed"

(* No verdict on faith: behind a CERTIFIED or NOT_CERTIFIED result the     *)
(* manifest is authentic, and every honest validator that agreed was       *)
(* served exactly the committed bytes of every source and found the        *)
(* publisher linked.                                                       *)
VerdictWasFetched ==
    outcome = "written" /\ proposal[1].result.verdict \in Conclusive =>
        /\ IsAuthentic
        /\ ManifestIsLinked(snapshot.commitment)
        /\ \A v \in Honest \cap Agreeing : FetchedCommitted(v)

(* integrity_status says whether exact response bytes were available and   *)
(* matched their digest (docs/STATE-MACHINE.md:21).  The code stores       *)
(* VERIFIED for a manifest that fails authentication, fetching nothing.    *)
VerifiedMeansFetched ==
    outcome = "written" /\ proposal[1].result.integrity_status = "VERIFIED" =>
        \A v \in Honest \cap Agreeing : FetchedCommitted(v)

(* Every round ends, in a result or a failure: a leader that raises or     *)
(* proposes nonsense, and hosts that never settle, do not hold the call.   *)
RoundEnds == <>(outcome # "running")

\* Nobody is faulty, no host changes, and the model answers all nodes alike.
WorldIsStable ==
    /\ Faulty = {}
    /\ \A r, q \in WebResponses : r = q
    /\ \A a, b \in ModelAnswers : a = b

(* In a stable world validators never disagree by accident: whatever the   *)
(* package and its manifest are like, the round writes a result.           *)
StableWorldAgrees == WorldIsStable => <>(outcome = "written")
=============================================================================
