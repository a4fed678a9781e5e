------------------------------- MODULE MCHelpers -------------------------------
(***************************************************************************)
(* The five helpers that depend on nothing else in the contract, in one    *)
(* instance.  A behaviour is a behaviour of one of them: the other four    *)
(* stay where the Idle predicates put them.                                  *)
(***************************************************************************)
EXTENDS MCFieldValidation, EvidenceReference, TransactionTimestamp, Secp256k1,
        PromptFences

LOCAL INSTANCE SequencesExt

-----------------------------------------------------------------------------
(* References: every path of up to five segments under the two GitHub      *)
(* hosts and one unknown host, every path of up to three under the other   *)
(* authorities, and one reference with each blemish.                       *)

LongAuthorities == {"raw", "github", "name"}

ShortAuthorities ==
    {"arweave", "cid.ipfs", "name.ipfs", "ipfs", "user@host", ""}

PathSegments == {"", "name", "blob", "commit", "ipfs", "cid"}

Paths(segments, length) == UNION {[1..n -> segments] : n \in 0..length}

Under(authorities, paths) ==
    {[blemish |-> "none", segments |-> <<a>> \o p] : a \in authorities, p \in paths}

RawFile == <<"raw", "name", "name", "commit", "name">>

AllReferences ==
    Under(LongAuthorities, Paths(PathSegments, 5))
      \cup Under(ShortAuthorities, Paths(PathSegments \cup {"txid"}, 3))
      \cup {[blemish |-> b, segments |-> RawFile] : b \in Blemishes}

-----------------------------------------------------------------------------
(* The clock: days of three seconds and seconds of three ticks, so that    *)
(* offsets and fractions cross the second, the day and the epoch.          *)

TwoSecondsEitherWay == {-2, -1, 0, 1, 2}

BeforeTheEpoch == -7

-----------------------------------------------------------------------------
(* The verifier: the curve over the field of 43 elements, whose group has  *)
(* the prime order 31.  Coordinates between 31 and 42 exceed the order, as *)
(* some of secp256k1 do.                                                   *)

BasePoint == <<2, 12>>

\* The base point itself, its opposite and two other points; then a point off
\* the curve, and the base point with a coordinate above the field.
SomeKeys == {<<2, 12>>, <<2, 31>>, <<20, 40>>, <<32, 3>>, <<0, 0>>, <<45, 12>>}

SomeDigests == {0, 1, 17, 40}

ScalarsPastTheOrder == 0..32

-----------------------------------------------------------------------------
(* The prompt: every text of up to five pieces, enough for a fence inside  *)
(* another and for one that begins with a "<" too many, as the license and *)
(* as the manifest, beside a text in which a fence of each kind occurs;    *)
(* every reference of up to three pieces, and all three of at most one.    *)

FourFences == LicenseFence \o ManifestEnd \o LicenseEnd \o ManifestFence

Pieces ==
    {<<"<">>, <<"<", "<", "<">>, <<">", ">", ">">>, <<"E">>, <<"L">>, <<"M">>, LicenseFence}

TextsOf(length) == {FlattenSeq(pieces) : pieces \in UNION {[1..n -> Pieces] : n \in 0..length}}

Packages(licenses, manifests, refs1, refs2, refs3) ==
    [license : licenses, manifest : manifests, dataset_reference : refs1,
     license_reference : refs2, provenance_reference : refs3]

Plain == {<<"x">>}

ShortEvidence ==
    Packages(TextsOf(5), {FourFences}, Plain, Plain, Plain)
      \cup Packages({FourFences}, TextsOf(5), Plain, Plain, Plain)
      \cup Packages(Plain, {FourFences}, Plain, TextsOf(3), Plain)
      \cup Packages(Plain, {FourFences}, TextsOf(1), TextsOf(1), TextsOf(1))

-----------------------------------------------------------------------------
VARIABLE helper     \* the one that this behaviour is of

helpersVars ==
    <<helper, validationVars, referenceVars, clockVars, verifierVars, promptVars>>

IdleField == field = "sha256" /\ value = NotText /\ status = "unchecked"

IdleReference ==
    /\ reference = [blemish |-> "none", segments |-> RawFile]
    /\ verdicts = [fixture |-> "unchecked", contract |-> "unchecked"]

IdleClock == instant = 0 /\ reading = << >> /\ level = "NOT_EVALUATED"

\* A verification that was answered: r = 0 is out of range.
IdleVerifier ==
    /\ public_key = BasePoint /\ r = 0 /\ s = 0 /\ message_number = 0
    /\ first = NotStarted /\ second = NotStarted
    /\ verdict = "rejected"

IdlePrompt ==
    /\ evidence \in Packages({FourFences}, {FourFences}, Plain, Plain, Plain)
    /\ prompt = << >>

HelpersInit ==
    \/ /\ helper = "field" /\ FieldInit
       /\ IdleReference /\ IdleClock /\ IdleVerifier /\ IdlePrompt
    \/ /\ helper = "reference" /\ ReferenceInit
       /\ IdleField /\ IdleClock /\ IdleVerifier /\ IdlePrompt
    \/ /\ helper = "clock" /\ ClockInit
       /\ IdleField /\ IdleReference /\ IdleVerifier /\ IdlePrompt
    \/ /\ helper = "verifier" /\ VerifierInit
       /\ IdleField /\ IdleReference /\ IdleClock /\ IdlePrompt
    \/ /\ helper = "prompt" /\ PromptInit
       /\ IdleField /\ IdleReference /\ IdleClock /\ IdleVerifier

HelpersNext ==
    \/ /\ helper = "field" /\ Validate
       /\ UNCHANGED <<helper, referenceVars, clockVars, verifierVars, promptVars>>
    \/ /\ helper = "reference" /\ ReferenceNext
       /\ UNCHANGED <<helper, validationVars, clockVars, verifierVars, promptVars>>
    \/ /\ helper = "clock" /\ ClockNext
       /\ UNCHANGED <<helper, validationVars, referenceVars, verifierVars, promptVars>>
    \/ /\ helper = "verifier" /\ VerifierNext
       /\ UNCHANGED <<helper, validationVars, referenceVars, clockVars, promptVars>>
    \/ /\ helper = "prompt" /\ Build
       /\ UNCHANGED <<helper, validationVars, referenceVars, clockVars, verifierVars>>

\* Only the verifier has a loop, and the fairness that its loop runs.
HelpersSpec ==
    HelpersInit /\ [][HelpersNext]_helpersVars /\ WF_verifierVars(VerifierNext)
=============================================================================
