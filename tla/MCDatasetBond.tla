---------------------------- MODULE MCDatasetBond ----------------------------
(***************************************************************************)
(* DatasetBond on small instances.  Two sets of calls:                     *)
(*   replay    two datasets that share a nonce, one key, and one call for  *)
(*             each authentication outcome a single key can give;          *)
(*   rotation  two datasets that share a nonce, and two keys that are      *)
(*             registered, revoked and rotated around their certification; *)
(*             one call for each way a manifest fails to authenticate.     *)
(***************************************************************************)
EXTENDS DatasetBondRefinement, MCManifests, TLC

CONSTANTS d1, d2, n1, n2, i2, k1, k2, p1, p2, root, alice

\* Signed as version 2.0, which == 2 in Python and is not 2 in canonical JSON.
SpelledAsFloat(unsigned) == [unsigned EXCEPT !.manifest_version = "2.0"]

ReplayCalls ==
    {CallWith(SignedBy(p1, UnsignedFor(d1, n1, k1, 0))),
     CallWith(SignedBy(p1, UnsignedFor(d2, n1, k1, 1))),
     CallWith(SignedBy(p2, UnsignedFor(d2, n2, k1, 1))),
     CallWith(SignedBy(p1, SpelledAsFloat(UnsignedFor(d2, n2, k1, 0)))),
     \* an argument that the signed manifest does not bind: rejected
     [CallWith(SignedBy(p1, UnsignedFor(d1, n1, k1, 0))) EXCEPT !.nonce = n2]}

RotationCalls ==
    {CallWith(SignedBy(p1, UnsignedFor(d1, n1, k1, 0))),
     CallWith(SignedBy(p2, UnsignedFor(d1, n1, k2, 1))),
     CallWith(SignedBy(p1, UnsignedFor(d2, n1, k1, 1))),
     CallWith(SignedBy(p1, UnsignedFor(d2, n1, k2, 1))),
     CallWith(SignedBy(p1, SpelledAsFloat(UnsignedFor(d2, n2, k1, 0))))}

FloatVersionCalls ==
    {CallWith(SignedBy(p1, SpelledAsFloat(UnsignedFor(d1, n1, k1, 0))))}

OneKeyRequest == {[issuer_id |-> i1, key_id |-> k1, public_key |-> p1]}

\* k2 may be registered afresh for either issuer, or as the successor of k1.
RotationRequests ==
    OneKeyRequest
    \cup {[issuer_id |-> i, key_id |-> k2, public_key |-> p2] : i \in {i1, i2}}

AllServed == [s \in Sources |-> "committed"]

\* Each verdict of the model, a source that is down and one that changed.
MCObservations ==
    {[served |-> AllServed, answer |-> a] : a \in Verdicts}
    \cup {[served |-> [AllServed EXCEPT !["dataset"] = "not_200"],
           answer |-> "CERTIFIED"],
          [served |-> [AllServed EXCEPT !["provenance"] = "other_bytes"],
           answer |-> "CERTIFIED"]}

\* Authority alone decides: whatever authenticates is certified.
RotationObservations == {[served |-> AllServed, answer |-> "CERTIFIED"]}

\* Accounts differ only in who deployed and who submitted.
AccountSymmetry == Permutations(Accounts)
=============================================================================
