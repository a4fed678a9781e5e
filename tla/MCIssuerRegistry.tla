--------------------------- MODULE MCIssuerRegistry ---------------------------
(***************************************************************************)
(* The registry alone, with three keys and two issuers: rotation chains of *)
(* length three, forks that must not happen, and key ids reused after a    *)
(* revocation.                                                             *)
(***************************************************************************)
EXTENDS IssuerRegistry, TLC

CONSTANTS i1, i2, k1, k2, k3, p1, root, alice

\* Any key id and any public key may be asked for by any issuer.
AllRequests ==
    {[issuer_id |-> i, key_id |-> k, public_key |-> p] :
        i \in IssuerIds, k \in KeyIds, p \in PublicKeys}

RegistrySymmetry ==
    Permutations(Accounts) \cup Permutations(KeyIds) \cup Permutations(IssuerIds)
=============================================================================
