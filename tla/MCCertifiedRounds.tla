--------------------------- MODULE MCCertifiedRounds ---------------------------
(***************************************************************************)
(* One dataset, one key, and rounds of a leader and two validators, of     *)
(* which one node is faulty.                                               *)
(***************************************************************************)
EXTENDS CertifiedRounds, MCManifests

CONSTANTS d1, n1, k1, p1, root, leader, v1, v2

OneCall == {CallWith(SignedBy(p1, UnsignedFor(d1, n1, k1, 0)))}

OneRequest == {[issuer_id |-> i1, key_id |-> k1, public_key |-> p1]}

\* Whatever a node of a round may be served and answered.
RoundObservations == [served : [Sources -> WebResponses], answer : ModelAnswers]

Certified == Result("CERTIFIED", "VERIFIED", "AUTHENTICATED", "COMPATIBLE", "COMPLETE")

Unavailable ==
    InconclusiveResult("UNAVAILABLE", "AUTHENTICATED", "NOT_EVALUATED", "NOT_EVALUATED")

\* A leader that certifies on faith, and one that claims it could not fetch.
TwoForgeries ==
    {[returned |-> TRUE, result |-> Certified],
     [returned |-> TRUE, result |-> Unavailable]}
=============================================================================
