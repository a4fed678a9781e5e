---------------------------- MODULE MCConsumerGate ----------------------------
(***************************************************************************)
(* One client that asks for research use, and two datasets: one signed for *)
(* research, the other for training.  The key may be revoked, evaluations  *)
(* may be inconclusive, and the submitter may revoke what was certified.   *)
(***************************************************************************)
EXTENDS ConsumerGate, MCManifests, TLC

CONSTANTS d1, d2, n1, n2, k1, p1, root, training, client

GateCalls ==
    {CallWith(SignedBy(p1, UnsignedFor(d1, n1, k1, 0))),
     CallWith(SignedBy(p1, [UnsignedFor(d2, n2, k1, 0)
                               EXCEPT !.usage_profile = training]))}

GateRequests == {[issuer_id |-> i1, key_id |-> k1, public_key |-> p1]}

GateObservations ==
    {[served |-> [s \in Sources |-> "committed"], answer |-> a] : a \in Verdicts}

WantsResearch == [c \in Consumers |-> research]
=============================================================================
