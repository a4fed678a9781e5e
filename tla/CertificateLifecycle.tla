------------------------- MODULE CertificateLifecycle -------------------------
(***************************************************************************)
(* What the contract promises about certificates, and nothing of how:      *)
(* a dataset is registered once with a nonce; it is evaluated at most a    *)
(* bounded number of times; an inconclusive evaluation may be retried; a   *)
(* verdict is final and spends the nonce for every dataset; a CERTIFIED    *)
(* verdict may be revoked, once.  Keys, time, evidence, the model and the  *)
(* consensus round are absent.                                             *)
(***************************************************************************)
EXTENDS Naturals

CONSTANTS DatasetIds, Nonces, MAX_CERTIFICATION_ATTEMPTS

VARIABLES
    lifecycle,      \* dataset_id -> [phase, nonce, attempts]
    spent           \* the nonces of final verdicts

IsOpen(d) ==
    /\ d \in DOMAIN lifecycle
    /\ lifecycle[d].phase \in {"REGISTERED", "INCONCLUSIVE"}
    /\ lifecycle[d].attempts < MAX_CERTIFICATION_ATTEMPTS

Init ==
    /\ lifecycle = << >>
    /\ spent = {}

Register(d, n) ==
    /\ d \notin DOMAIN lifecycle
    /\ lifecycle' = [e \in DOMAIN lifecycle \cup {d} |->
                       IF e = d
                       THEN [phase |-> "REGISTERED", nonce |-> n, attempts |-> 0]
                       ELSE lifecycle[e]]
    /\ UNCHANGED spent

LeaveOpen(d) ==
    /\ IsOpen(d)
    /\ lifecycle' = [lifecycle EXCEPT ![d].phase = "INCONCLUSIVE",
                                      ![d].attempts = lifecycle[d].attempts + 1]
    /\ UNCHANGED spent

Conclude(d, verdict) ==
    /\ IsOpen(d)
    /\ lifecycle[d].nonce \notin spent
    /\ lifecycle' = [lifecycle EXCEPT ![d].phase = verdict,
                                      ![d].attempts = lifecycle[d].attempts + 1]
    /\ spent' = spent \cup {lifecycle[d].nonce}

Revoke(d) ==
    /\ d \in DOMAIN lifecycle
    /\ lifecycle[d].phase = "CERTIFIED"
    /\ lifecycle' = [lifecycle EXCEPT ![d].phase = "REVOKED"]
    /\ UNCHANGED spent

Next ==
    \E d \in DatasetIds :
        \/ \E n \in Nonces : Register(d, n)
        \/ LeaveOpen(d)
        \/ \E verdict \in {"CERTIFIED", "NOT_CERTIFIED"} : Conclude(d, verdict)
        \/ Revoke(d)

Spec == Init /\ [][Next]_<<lifecycle, spent>>
=============================================================================
