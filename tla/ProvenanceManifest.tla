-------------------------- MODULE ProvenanceManifest --------------------------
(***************************************************************************)
(* The provenance manifest of a package, field by field, and the two       *)
(* checks of it: the contract's link before any model judgement            *)
(* (_manifest_is_linked) and the fixture validator's (validate_provenance).*)
(* PackageEvaluation knows only the publisher it is linked to.             *)
(*                                                                         *)
(* A text of the manifest stands for its class: "plain" up to 256          *)
(* characters, "long" up to 512, "oversized", "control" with a control     *)
(* character, "empty", and "not_text" for any other JSON value.            *)
(***************************************************************************)
EXTENDS Sequences, Integers

CONSTANTS MAX_TRANSFORMATIONS

ASSUME TransformationsAssumption == MAX_TRANSFORMATIONS \in Nat

LinkFields ==
    {"dataset_reference", "dataset_sha256", "license_reference", "license_sha256",
     "publisher"}

ManifestTexts == {"plain", "long", "oversized", "control", "empty", "not_text"}

(* form      what the bytes parse to; "repeats_key" is an object with one  *)
(*           key twice                                                     *)
(* keys      the nine fields, or one more                                  *)
(* broken    the links that are missing or name something else             *)
(* created   the text of created_at and what fromisoformat makes of it:    *)
(*           nothing of no text, but a time of any number of decimals      *)

Provenances ==
    [form            : {"object", "no_object", "not_json", "repeats_key"},
     keys            : {"exact", "more"},
     broken          : SUBSET LinkFields,
     source          : ManifestTexts,
     version         : ManifestTexts,
     created         : {c \in [text : ManifestTexts, iso : {"aware", "naive", "invalid"}] :
                          c.text \in {"empty", "not_text"} => c.iso = "invalid"},
     transformations : [is_list : BOOLEAN, items : Seq(ManifestTexts)]]

ItemsOf(provenance) ==
    {provenance.transformations.items[i] : i \in DOMAIN provenance.transformations.items}

\* The contract's bound on a text: a string of 1 to 512 without control characters.
IsManifestText(text) == text \in {"plain", "long"}

\* The other fields may be there: get() does not look for them.
IsLinked(provenance) ==
    /\ provenance.form = "object"
    /\ provenance.broken = {}
    /\ IsManifestText(provenance.source)
    /\ IsManifestText(provenance.version)
    /\ IsManifestText(provenance.created.text)
    /\ provenance.created.iso = "aware"
    /\ provenance.transformations.is_list
    /\ Len(provenance.transformations.items) <= MAX_TRANSFORMATIONS
    /\ \A text \in ItemsOf(provenance) : IsManifestText(text)

\* Mutant: the upper bound of a text is forgotten.
IsUnboundedText(text) == text \in {"plain", "long", "oversized", "control"}

\* The validator's bound: 1 to 256 characters, of any kind.
IsFixtureText(text) == text \in {"plain", "control"}

ProvenancePasses(provenance) ==
    /\ provenance.form = "object"
    /\ provenance.keys = "exact"
    /\ provenance.broken = {}
    /\ IsFixtureText(provenance.source)
    /\ IsFixtureText(provenance.version)
    /\ provenance.created.text # "not_text"
    /\ provenance.created.iso = "aware"
    /\ provenance.transformations.is_list
    /\ Len(provenance.transformations.items) \in 1..MAX_TRANSFORMATIONS
    /\ \A text \in ItemsOf(provenance) : IsFixtureText(text)

HasControlCharacters(provenance) ==
    \/ "control" \in {provenance.source, provenance.version, provenance.created.text}
    \/ "control" \in ItemsOf(provenance)
=============================================================================
