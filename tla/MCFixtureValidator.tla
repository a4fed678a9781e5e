-------------------------- MODULE MCFixtureValidator --------------------------
(***************************************************************************)
(* A package in good order, and packages that differ from it in one        *)
(* respect that one of the two checks, or both, might look at.             *)
(***************************************************************************)
EXTENDS FixtureValidator, MCManifests

CONSTANTS d1, n1, k1, p1, p2

GoodProvenance ==
    [form |-> "object", keys |-> "exact", broken |-> {},
     source |-> "plain", version |-> "plain",
     created |-> [text |-> "plain", iso |-> "aware"],
     transformations |-> [is_list |-> TRUE, items |-> <<"plain">>]]

OtherProvenances ==
    {[GoodProvenance EXCEPT !.form = f] : f \in {"no_object", "repeats_key"}}
      \cup {[GoodProvenance EXCEPT !.keys = "more"]}
      \cup {[GoodProvenance EXCEPT !.broken = {f}] : f \in {"license_sha256", "publisher"}}
      \cup {[GoodProvenance EXCEPT !.source = x] : x \in ManifestTexts \ {"plain"}}
      \cup {[GoodProvenance EXCEPT !.created = [text |-> x, iso |-> "aware"]] :
              x \in {"long", "oversized", "control"}}
      \cup {[GoodProvenance EXCEPT !.created.iso = "naive"]}
      \cup {[GoodProvenance EXCEPT !.transformations.items = t] :
              t \in {<< >>, <<"plain", "oversized">>, <<"long">>,
                     <<"plain", "plain">>, <<"plain", "plain", "plain">>}}

\* The package whose provenance manifest is this one.
PackageOf(provenance) ==
    [SoundPackage EXCEPT !.provenance.linked_to =
       IF IsLinked(provenance) THEN i1 ELSE NoIssuer]

OtherPackages ==
    {[SoundPackage EXCEPT !.dataset.size = x] : x \in {"empty", "oversized"}}
      \cup {[SoundPackage EXCEPT !.license = [size |-> x, utf8 |-> y]] :
              x \in {"within_limit", "oversized"}, y \in BOOLEAN}

Unsigned(package) == [UnsignedFor(d1, n1, k1, 0) EXCEPT !.package = package]

GoodUnsigned == Unsigned(SoundPackage)

FixtureWith(unsigned, signer, provenance) ==
    [call              |-> CallWith(SignedBy(signer, unsigned)),
     issuer_public_key |-> p1,
     provenance        |-> provenance,
     names             |-> [field \in NameFields |-> "identifier"],
     profile           |-> "listed",
     references        |-> [source \in Sources |-> "accepted"],
     demonstration     |-> "right"]

GoodFixture == FixtureWith(GoodUnsigned, p1, GoodProvenance)

\* The classes of what the model does not spell, and the demonstration.
OtherFields ==
    {[GoodFixture EXCEPT !.names[x] = "text"] : x \in {"nonce", "publisher_identity"}}
      \cup {[GoodFixture EXCEPT !.names["dataset_id"] = "oversized"]}
      \cup {[GoodFixture EXCEPT !.profile = x] : x \in {"text", "oversized"}}
      \cup {[GoodFixture EXCEPT !.references["license"] = x] :
              x \in ReferenceClasses \ {"accepted"}}
      \cup {[GoodFixture EXCEPT !.demonstration = x] : x \in {"no_length", "other"}}

OnePackageEach ==
    OtherFields
      \cup {FixtureWith(Unsigned(PackageOf(p)), p1, p) : p \in OtherProvenances}
      \cup {FixtureWith(Unsigned(p), p1, GoodProvenance) : p \in OtherPackages}
      \cup {FixtureWith(GoodUnsigned, signer, GoodProvenance) : signer \in {p1, p2}}
      \cup {FixtureWith([GoodUnsigned EXCEPT !.manifest_version = "2.0"], p1,
                        GoodProvenance)}
      \cup {FixtureWith([GoodUnsigned EXCEPT !.issued_at = 1, !.expires_at = 2], p1,
                        GoodProvenance)}
=============================================================================
