----------------------------- MODULE ConsumerGate -----------------------------
(***************************************************************************)
(* Clients of the contract: they read it through its views and decide      *)
(* with the consumer gate (examples/integration.py, accept_certificate).   *)
(*                                                                         *)
(* A view reads one state of the contract and changes nothing.  The client *)
(* keeps what it read and uses it later: between the listing and the read, *)
(* and between the read and the decision, the contract goes on.            *)
(***************************************************************************)
EXTENDS DatasetBond

CONSTANTS
    Consumers,
    ExpectedProfile     \* consumer -> the profile it asks the gate for

ASSUME ExpectedProfileAssumption == ExpectedProfile \in [Consumers -> Profiles]

VARIABLES
    listed,     \* consumer -> the certificate ids it was last given
    held,       \* consumer -> the certificate it last read: at most one
    decision    \* consumer -> what the gate said of that certificate

consumerVars == <<listed, held, decision>>
gateVars == <<vars, consumerVars>>

-----------------------------------------------------------------------------
(* The views. *)

GetCertificateIds == certificate_ids

GetCertificateCount == Len(certificate_ids)

\* Fails for a listed id without a certificate.
GetCertificates ==
    [d \in {certificate_ids[i] : i \in DOMAIN certificate_ids} |-> certificates[d]]

IsFound(d) == d \in DOMAIN certificates     \* else CERTIFICATE_NOT_FOUND

GetCertificate(d) == certificates[d]

-----------------------------------------------------------------------------
\* Mutant: the verdict is taken for the status, which revocation changes.
AcceptByVerdict(certificate, expected_profile) ==
    /\ certificate.result = Result("CERTIFIED", "VERIFIED", "AUTHENTICATED",
                                   "COMPATIBLE", "COMPLETE")
    /\ certificate.commitment.usage_profile = expected_profile
    /\ certificate.certification_record # << >>

\* Mutant: the word for good bytes, pasted for the license level.
AcceptVerifiedLicense(certificate, expected_profile) ==
    /\ certificate.status = "CERTIFIED"
    /\ certificate.result = Result("CERTIFIED", "VERIFIED", "AUTHENTICATED",
                                   "VERIFIED", "COMPLETE")
    /\ certificate.commitment.usage_profile = expected_profile
    /\ certificate.certification_record # << >>

\* The gate: every level by itself, the profile, and that there is a record.
AcceptCertificate(certificate, expected_profile) ==
    /\ certificate.status = "CERTIFIED"
    /\ certificate.result = Result("CERTIFIED", "VERIFIED", "AUTHENTICATED",
                                   "COMPATIBLE", "COMPLETE")
    /\ certificate.commitment.usage_profile = expected_profile
    /\ certificate.certification_record # << >>

-----------------------------------------------------------------------------
GateInit ==
    /\ Init
    /\ listed = [c \in Consumers |-> << >>]
    /\ held = [c \in Consumers |-> << >>]
    /\ decision = [c \in Consumers |-> "none"]

ContractStep == Next /\ UNCHANGED consumerVars

\* The client asks for the ids.
ListCertificates(c) ==
    /\ listed[c] # GetCertificateIds
    /\ listed' = [listed EXCEPT ![c] = GetCertificateIds]
    /\ UNCHANGED <<vars, held, decision>>

\* The client reads a certificate it was once given the id of.
ReadCertificate(c, d) ==
    /\ \E i \in DOMAIN listed[c] : listed[c][i] = d
    /\ IsFound(d)
    /\ held' = [held EXCEPT ![c] = <<[certificate |-> GetCertificate(d),
                                      read_at     |-> now]>>]
    /\ decision' = [decision EXCEPT ![c] = "none"]
    /\ UNCHANGED <<vars, listed>>

\* The client puts what it holds to the gate.
Decide(c) ==
    /\ held[c] # << >>
    /\ decision[c] = "none"
    /\ decision' =
         [decision EXCEPT ![c] =
            IF AcceptCertificate(held[c][1].certificate, ExpectedProfile[c])
            THEN "accepted" ELSE "refused"]
    /\ UNCHANGED <<vars, listed, held>>

ConsumerStep(c) ==
    \/ ListCertificates(c)
    \/ \E d \in DatasetIds : ReadCertificate(c, d)
    \/ Decide(c)

GateNext == ContractStep \/ \E c \in Consumers : ConsumerStep(c)

GateSpec == GateInit /\ [][GateNext]_gateVars

-----------------------------------------------------------------------------
\* What a certificate may have become since it was copy.
IsLaterThan(new, copy) ==
    /\ new.commitment = copy.commitment
    /\ copy.attempts <= new.attempts
    /\ Concluded(copy) =>
         \/ new = copy
         \/ /\ copy.status = "CERTIFIED"
            /\ new = [copy EXCEPT !.status = "REVOKED",
                                  !.revoked_at = new.revoked_at]

(* What a client was given stays true for ever as history, however old:    *)
(* every listed id can be read and keeps its place, and a certificate that *)
(* was read is the stored one or an earlier stage of it.                   *)
HeldIsHistory ==
    \A c \in Consumers :
        /\ Len(listed[c]) <= GetCertificateCount
        /\ \A i \in DOMAIN listed[c] :
             /\ listed[c][i] = GetCertificateIds[i]
             /\ listed[c][i] \in DOMAIN GetCertificates
        /\ held[c] # << >> =>
             LET copy == held[c][1].certificate
                 d == copy.commitment.dataset_id
             IN  IsFound(d) /\ IsLaterThan(GetCertificate(d), copy)

(* Acceptance is never by mistake: what a client accepted, at whatever age *)
(* of its copy, is stored as CERTIFIED for the profile it asked for, on a  *)
(* signature by a key of the publisher; at most it was revoked since, and  *)
(* then not before the copy was read.                                      *)
AcceptedWasCertified ==
    \A c \in Consumers : decision[c] = "accepted" =>
        LET copy == held[c][1].certificate
            stored == GetCertificate(copy.commitment.dataset_id)
            key == issuer_keys[stored.commitment.key_id]
        IN  /\ stored.commitment.usage_profile = ExpectedProfile[c]
            /\ stored.result.verdict = "CERTIFIED"
            /\ \/ stored.status = "CERTIFIED"
               \/ stored.status = "REVOKED" /\ held[c][1].read_at <= stored.revoked_at
            /\ key.issuer_id = stored.commitment.publisher_identity
            /\ VerifySecp256k1Sha256(key.public_key, stored.commitment.signature,
                                     StoredUnsigned(stored.commitment))

(* The gate refuses nothing it should accept: its checks of the levels and *)
(* of the record never fail for a live CERTIFIED certificate, so a refused *)
(* copy was not CERTIFIED when it was read, or is for another profile.     *)
RefusedForAReason ==
    \A c \in Consumers : decision[c] = "refused" =>
        LET copy == held[c][1].certificate IN
        copy.status = "CERTIFIED" =>
            copy.commitment.usage_profile # ExpectedProfile[c]
=============================================================================
