---------------------------- MODULE CertifiedRounds ----------------------------
(***************************************************************************)
(* The contract and its consensus rounds together: certify_dataset as it   *)
(* runs.  A call reads storage and starts a round (CertifyBegin); leader   *)
(* and validators evaluate what was read while hosts change and time       *)
(* passes (CertificationRound, action by action); the round's outcome ends *)
(* the call, with the leader's proposal written or nothing (CertifyCommit, *)
(* ConsensusFails).                                                        *)
(*                                                                         *)
(* DatasetBond lets a call end with any honest evaluation of its snapshot, *)
(* or with a failure.  Here it ends as its round did, and RefinesContract  *)
(* says that this is the contract DatasetBond describes.                   *)
(***************************************************************************)
EXTENDS DatasetBond

CONSTANTS Leader, Validators, Faulty, Quorum, WebResponses, ModelAnswers, Forgeries

VARIABLES
    served, seen, proposal, votes,  \* as in CertificationRound
    outcome                         \* "idle" when no round is running

\* The snapshot the running round is about.
RoundSnapshot == CHOOSE s \in in_flight : TRUE

Round == INSTANCE CertificationRound
             WITH snapshot <- RoundSnapshot, RoundSnapshots <- Snapshots

ASSUME CallNodesAssumption ==
    Leader \notin Validators /\ Faulty \subseteq Validators \cup {Leader}

ASSUME CallQuorumAssumption ==
    /\ Quorum \in Nat
    /\ IsFiniteSet(Validators)
    /\ Cardinality(Faulty \cap Validators) < Quorum
    /\ Quorum <= Cardinality(Validators)

ASSUME CallInputsAssumption ==
    /\ WebResponses \subseteq Responses
    /\ ModelAnswers \subseteq Answers
    /\ Forgeries \subseteq Round!Proposals

\* The contract is given whatever its rounds may observe.
ASSUME RoundObservationsAssumption ==
    [served : [Sources -> WebResponses], answer : ModelAnswers] \subseteq Observations

worldVars == <<served, seen, proposal, votes, outcome>>
callVars == <<vars, worldVars>>

-----------------------------------------------------------------------------
\* The nodes hold nothing of a round, before it or after it.
NothingSeen ==
    /\ seen = [n \in Round!Nodes |-> << >>]
    /\ proposal = << >>
    /\ votes = << >>

ForgetsRound ==
    /\ seen' = [n \in Round!Nodes |-> << >>]
    /\ proposal' = << >>
    /\ votes' = << >>

CallInit ==
    /\ Init
    /\ NothingSeen
    /\ served \in [Sources -> WebResponses]
    /\ outcome = "idle"

\* Every transaction but certify_dataset, and the clock.
OtherStep ==
    /\ \/ AdministerRegistry
       \/ TimePasses
       \/ SubmitDataset
       \/ \E sender \in Accounts, d \in DatasetIds : RevokeCertificate(sender, d)
    /\ UNCHANGED worldVars

\* certify_dataset up to gl.vm.run_nondet, which starts the round.
BeginRound ==
    /\ \E d \in DatasetIds : CertifyBegin(d)
    /\ outcome' = "running"
    /\ UNCHANGED <<served, seen, proposal, votes>>

\* A host changes what it serves, whether or not a round is running.
HostsChange ==
    \E source \in Sources, response \in WebResponses :
        /\ served[source] # response
        /\ served' = [served EXCEPT ![source] = response]
        /\ UNCHANGED <<vars, seen, proposal, votes, outcome>>

RunLeader == outcome = "running" /\ UNCHANGED vars /\ Round!LeaderStep

RunValidator(v) == outcome = "running" /\ UNCHANGED vars /\ Round!ValidatorStep(v)

DecideRound == UNCHANGED vars /\ Round!Decide

\* Mutant: what the leader proposed is written before the vote is in.
EndBeforeVote ==
    /\ outcome = "running"
    /\ Round!Proposed
    /\ Round!IsAcceptable
    /\ CertifyCommit(RoundSnapshot, proposal[1].result)
    /\ outcome' = "idle"
    /\ ForgetsRound
    /\ UNCHANGED served

\* Mutant: a round that failed leaves the call open.
EndWritten ==
    /\ outcome = "written"
    /\ CertifyCommit(RoundSnapshot, proposal[1].result)
    /\ outcome' = "idle"
    /\ ForgetsRound
    /\ UNCHANGED served

\* certify_dataset after gl.vm.run_nondet has returned or raised.
EndRound ==
    /\ \/ outcome = "written" /\ CertifyCommit(RoundSnapshot, proposal[1].result)
       \/ outcome = "failed"  /\ ConsensusFails(RoundSnapshot)
    /\ outcome' = "idle"
    /\ ForgetsRound
    /\ UNCHANGED served

CallNext ==
    \/ OtherStep
    \/ BeginRound
    \/ HostsChange
    \/ RunLeader
    \/ \E v \in Validators : RunValidator(v)
    \/ DecideRound
    \/ EndRound

\* Nodes run the code given to them, and GenVM ends the transaction.
CallFairness ==
    /\ WF_callVars(RunLeader)
    /\ \A v \in Validators : WF_callVars(RunValidator(v))
    /\ WF_callVars(DecideRound)
    /\ WF_callVars(EndRound)

CallSpec == CallInit /\ [][CallNext]_callVars /\ CallFairness

-----------------------------------------------------------------------------
(* The contract with its rounds inside implements the contract that is     *)
(* given honest results: no round, whatever its faulty nodes do, gives a   *)
(* call an ending that DatasetBond does not allow.                         *)
RefinesContract == Spec

ConcludesOnFetchedEvidence ==
    \A d \in DOMAIN certificates :
        ~Concluded(certificates[d]) /\ Concluded(certificates'[d]) =>
            \E v \in Round!Honest \cap Round!Agreeing : Round!FetchedCommitted(v)

(* A verdict enters storage only in a step in which some honest validator  *)
(* of its own round has agreed, and holds the committed bytes of all three *)
(* sources.                                                                *)
VerdictOnFetchedEvidence == [][ConcludesOnFetchedEvidence]_callVars

(* No certify_dataset call holds the contract for ever, whatever leaders   *)
(* propose and however hosts and the clock go on.                          *)
CallEnds == in_flight # {} ~> in_flight = {}
=============================================================================
