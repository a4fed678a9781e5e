------------------------- MODULE MCCertificationRound -------------------------
(***************************************************************************)
(* One consensus round with three validators.  The snapshots give every    *)
(* way an evaluation can end; the forgeries are a leader that raises, one  *)
(* that returns nonsense, two lies and one result that contradicts itself. *)
(***************************************************************************)
EXTENDS CertificationRound, MCManifests

CONSTANTS d1, n1, i2, k1, p1, p2, leader, v1, v2, v3

\* The snapshot of a registered manifest over a package, made with key signer.
SnapshotWith(package, signer) ==
    [commitment     |-> CommitmentOf(CallWith(SignedBy(signer,
                          [UnsignedFor(d1, n1, k1, 0) EXCEPT !.package = package]))),
     now            |-> 1,
     issuer_status  |-> "ACTIVE",
     issuer_id      |-> i1,
     public_key     |-> p1,
     replay_blocked |-> FALSE]

AuthenticSnapshot == SnapshotWith(SoundPackage, p1)
ForgedSnapshot == SnapshotWith(SoundPackage, p2)

UnsoundPackages ==
    {[SoundPackage EXCEPT !.provenance.linked_to = i2],
     [SoundPackage EXCEPT !.license.utf8 = FALSE],
     [SoundPackage EXCEPT !.provenance.utf8 = FALSE],
     [SoundPackage EXCEPT !.dataset.size = "empty"],
     [SoundPackage EXCEPT !.dataset.size = "oversized"],
     [SoundPackage EXCEPT !.license.size = "empty"],
     [SoundPackage EXCEPT !.prompt_fits = FALSE]}

TwoSnapshots == {AuthenticSnapshot, ForgedSnapshot}

AllSnapshots ==
    TwoSnapshots \cup {SnapshotWith(package, p1) : package \in UnsoundPackages}
    \cup {[AuthenticSnapshot EXCEPT !.replay_blocked = TRUE],
          [AuthenticSnapshot EXCEPT !.now = 2],
          [AuthenticSnapshot EXCEPT !.issuer_status = "ROTATED"]}

Certified == Result("CERTIFIED", "VERIFIED", "AUTHENTICATED", "COMPATIBLE", "COMPLETE")

MCForgeries ==
    {[returned |-> FALSE, result |-> Malformed],
     [returned |-> TRUE,  result |-> Malformed],
     [returned |-> TRUE,  result |-> Certified],
     [returned |-> TRUE,  result |-> InconclusiveResult("UNAVAILABLE",
          "AUTHENTICATED", "NOT_EVALUATED", "NOT_EVALUATED")],
     [returned |-> TRUE,  result |-> [Certified EXCEPT !.license_status = "INCOMPATIBLE"]]}
=============================================================================
