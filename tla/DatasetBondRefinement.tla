------------------------ MODULE DatasetBondRefinement ------------------------
(***************************************************************************)
(* DatasetBond implements CertificateLifecycle: forget everything of a     *)
(* certificate but its status, nonce and attempt count, and everything of  *)
(* the nonce ledger but which nonces are in it.                            *)
(***************************************************************************)
EXTENDS DatasetBond

LifecycleOf ==
    [d \in DOMAIN certificates |->
        [phase    |-> certificates[d].status,
         nonce    |-> certificates[d].commitment.nonce,
         attempts |-> certificates[d].attempts]]

Lifecycle == INSTANCE CertificateLifecycle
                 WITH lifecycle <- LifecycleOf, spent <- DOMAIN used_nonces

(* Every run of the contract is a run of the abstract life cycle: each of  *)
(* register_dataset, certify_dataset and revoke_certificate takes exactly  *)
(* one abstract step, and everything else takes none.                      *)
RefinesLifecycle == Lifecycle!Spec
=============================================================================
