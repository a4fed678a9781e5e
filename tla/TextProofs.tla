------------------------------- MODULE TextProofs -------------------------------
(***************************************************************************)
(* Texts of any length: the arguments that the recognisers accept, the     *)
(* references, and the evidence in the prompt.                             *)
(*                                                                         *)
(* Of the arguments and the references: an answer is an answer about the   *)
(* value it is stored beside (StatusInv, VerdictsInv); what is left are    *)
(* lemmas about the operators.                                             *)
(*                                                                         *)
(* Of the prompt: what a replacement leaves was copied, run by run, from   *)
(* places where the replaced word does not stand (ReplaceKeeps), so no     *)
(* fence is left and none is made (NeutralText); and a fence has no line   *)
(* feed in it, so an occurrence in the prompt lies within one reference    *)
(* (Seam), within one text or within one fence (FencePlaces); it is that   *)
(* fence, because a fence has three "<" in front and none behind           *)
(* (WithinFence).  The recursion of                                        *)
(* Replace runs from the end of the text: its induction is over the        *)
(* distance to it, with the lemmas on natural numbers from                 *)
(* ArithmeticProofs.                                                       *)
(***************************************************************************)
EXTENDS FieldValidation, EvidenceReference, PromptFences, ArithmeticProofs,
        SequenceTheorems

StatusInv ==
    /\ field \in Fields
    /\ value \in Values
    /\ status \in {"unchecked", "accepted", "refused"}
    /\ status = "accepted" => IsAccepted(field, value)
    /\ status = "refused" => ~IsAccepted(field, value)

LEMMA StatusInvariant == FieldSpec => []StatusInv
<1>1. FieldInit => StatusInv
  BY DEF FieldInit, StatusInv
<1>2. StatusInv /\ [Validate]_validationVars => StatusInv'
  <2> SUFFICES ASSUME StatusInv, [Validate]_validationVars PROVE StatusInv'
    OBVIOUS
  <2>1. CASE Validate
    <3>1. UNCHANGED <<field, value>>
      BY <2>1 DEF Validate
    <3>2. CASE IsAccepted(field, value)
      BY <2>1, <3>1, <3>2 DEF Validate, StatusInv
    <3>3. CASE ~IsAccepted(field, value)
      BY <2>1, <3>1, <3>3 DEF Validate, StatusInv
    <3> QED
      BY <3>2, <3>3
  <2>2. CASE UNCHANGED validationVars
    BY <2>2 DEF StatusInv, validationVars
  <2> QED
    BY <2>1, <2>2
<1> QED
  BY <1>1, <1>2, PTL DEF FieldSpec

-----------------------------------------------------------------------------
(* What BeforeDollar holds: the text, or all of it but a last line feed. *)
LEMMA BeforeDollarIs ==
    ASSUME NEW v \in Seq(Characters), NEW text \in BeforeDollar(v), text # v
    PROVE  /\ v[Len(v)] = "LF"
           /\ text = SubSeq(v, 1, Len(v) - 1)
           /\ Len(text) = Len(v) - 1
           /\ text \in Seq(Characters)
<1>1. v # << >> /\ v[Len(v)] = "LF" /\ text = SubSeq(v, 1, Len(v) - 1)
  BY DEF BeforeDollar
<1>2. Len(v) \in Nat /\ 1 <= Len(v)
  BY <1>1
<1>3. /\ 1 \in Int /\ Len(v) - 1 \in Int
      /\ \A i \in 1..Len(v) - 1 : v[i] \in Characters
  BY <1>2
<1>4. /\ SubSeq(v, 1, Len(v) - 1) \in Seq(Characters)
      /\ Len(SubSeq(v, 1, Len(v) - 1)) =
           IF 1 <= Len(v) - 1 THEN Len(v) - 1 - 1 + 1 ELSE 0
  BY <1>3, SubSeqProperties
<1>5. ASSUME NEW n \in Nat, 1 <= n
      PROVE  (IF 1 <= n - 1 THEN n - 1 - 1 + 1 ELSE 0) = n - 1
  <2>1. CASE 1 <= n - 1
    BY <2>1
  <2>2. CASE ~(1 <= n - 1)
    BY <1>5, <2>2
  <2> QED
    BY <2>1, <2>2
<1>6. Len(SubSeq(v, 1, Len(v) - 1)) = Len(v) - 1
  BY <1>2, <1>4, <1>5, Zenon
<1> QED
  BY <1>1, <1>4, <1>6, Zenon

LEMMA ItselfIsBeforeDollar == ASSUME NEW v PROVE v \in BeforeDollar(v)
  BY DEF BeforeDollar

(* A text of the full width leaves no room for a line feed. *)
LEMMA FixedWidth ==
    ASSUME NEW v \in Seq(Characters), NEW width \in Nat \ {0},
           RequireText(v, width),
           NEW text \in BeforeDollar(v), IsLowerHex(text, width)
    PROVE  IsLowerHex(v, width)
<1>1. Len(v) \in Nat /\ Len(v) <= width /\ Len(text) = width
  BY DEF RequireText, IsLowerHex
<1>2. text = v
  BY <1>1, BeforeDollarIs
<1> QED
  BY <1>2

(* Documented values hold no control character and are within their limit. *)
LEMMA DocumentedTexts ==
    ASSUME NEW f \in Fields, NEW v \in Seq(Characters), IsDocumented(f, v)
    PROVE  /\ v # NotText /\ v # << >> /\ "NUL" \notin CharactersOf(v)
           /\ f = "identifier" => Len(v) <= MAX_ID_LEN
           /\ f # "identifier" => Len(v) = Width(f)
<1>1. CASE f = "identifier"
  BY <1>1, LimitsAssumption DEF IsDocumented, IsIdentifier
<1>2. CASE f # "identifier"
  <2>1. Width(f) \in Nat \ {0}
    BY <1>2, LimitsAssumption DEF Width, Fields
  <2>2. Len(v) = Width(f) /\ CharactersOf(v) \subseteq {"a", "0"} /\ v # NotText
    BY <1>2 DEF IsDocumented, IsLowerHex
  <2>3. v # << >>
    BY <2>1, <2>2
  <2> QED
    BY <1>2, <2>2, <2>3
<1> QED
  BY <1>1, <1>2

-----------------------------------------------------------------------------
(* An accepted digest or public key is the documented one, for any limits  *)
(* and values (_validate_sha256, _validate_public_key).                    *)
THEOREM FixedWidthIsExactCorrect == FieldSpec => []FixedWidthIsExact
<1>1. StatusInv => FixedWidthIsExact
  <2> SUFFICES ASSUME StatusInv, status = "accepted", field \in {"sha256", "public_key"}
               PROVE  IsDocumented(field, value)
    BY DEF FixedWidthIsExact
  <2>1. IsAccepted(field, value) /\ value \in Values /\ field \in Fields
    BY DEF StatusInv
  <2>2. CASE field = "sha256"
    <3>1. ValidateSha256(value)
      BY <2>1, <2>2 DEF IsAccepted
    <3>2. PICK text \in BeforeDollar(value) : IsLowerHex(text, MAX_DIGEST_LEN)
      BY <3>1 DEF ValidateSha256
    <3>3. value # NotText /\ value \in Seq(Characters)
      BY <2>1, <3>1, ValuesAssumption DEF ValidateSha256, RequireText
    <3>4. IsLowerHex(value, MAX_DIGEST_LEN)
      BY <3>1, <3>2, <3>3, FixedWidth, LimitsAssumption DEF ValidateSha256
    <3> QED
      BY <2>2, <3>3, <3>4 DEF IsDocumented, Width
  <2>3. CASE field = "public_key"
    <3>1. ValidatePublicKey(value)
      BY <2>1, <2>3 DEF IsAccepted
    <3>2. PICK text \in BeforeDollar(value) : IsLowerHex(text, MAX_PUBLIC_KEY_HEX_LEN)
      BY <3>1 DEF ValidatePublicKey
    <3>3. value # NotText /\ value \in Seq(Characters)
      BY <2>1, <3>1, ValuesAssumption DEF ValidatePublicKey, RequireText
    <3>4. IsLowerHex(value, MAX_PUBLIC_KEY_HEX_LEN)
      BY <3>1, <3>2, <3>3, FixedWidth, LimitsAssumption DEF ValidatePublicKey
    <3> QED
      BY <2>3, <3>3, <3>4 DEF IsDocumented, Width
  <2> QED
    BY <2>2, <2>3
<1> QED
  BY <1>1, StatusInvariant, PTL

(* Nothing that the documents admit is refused: limits and patterns agree  *)
(* up to the longest text (_validate_identifier, _validate_sha256,         *)
(* _validate_public_key, _parse_inline_manifest).                          *)
THEOREM DocumentedIsAcceptedCorrect == FieldSpec => []DocumentedIsAccepted
<1>1. StatusInv => DocumentedIsAccepted
  <2> SUFFICES ASSUME StatusInv, status = "refused", IsDocumented(field, value)
               PROVE  FALSE
    BY DEF DocumentedIsAccepted
  <2>1. ~IsAccepted(field, value) /\ value \in Values /\ field \in Fields
    BY DEF StatusInv
  <2>2. value # NotText /\ value \in Seq(Characters)
    BY <2>1, ValuesAssumption DEF IsDocumented
  <2>3. value \in BeforeDollar(value)
    BY ItselfIsBeforeDollar
  <2>4. /\ value # << >> /\ "NUL" \notin CharactersOf(value)
        /\ field = "identifier" => Len(value) <= MAX_ID_LEN
        /\ field # "identifier" => Len(value) = Width(field)
    BY <2>1, <2>2, DocumentedTexts
  <2>5. CASE field = "identifier"
    BY <2>1, <2>2, <2>3, <2>4, <2>5
    DEF IsAccepted, ValidateIdentifier, RequireText, IsDocumented
  <2>6. CASE field = "sha256"
    <3>1. Len(value) <= MAX_DIGEST_LEN
      BY <2>4, <2>6, LimitsAssumption DEF Width
    <3> QED
      BY <2>1, <2>2, <2>3, <2>4, <2>6, <3>1
      DEF IsAccepted, ValidateSha256, RequireText, IsDocumented, Width
  <2>7. CASE field = "public_key"
    <3>1. Len(value) <= MAX_PUBLIC_KEY_HEX_LEN
      BY <2>4, <2>7, LimitsAssumption DEF Width
    <3> QED
      BY <2>1, <2>2, <2>3, <2>4, <2>7, <3>1
      DEF IsAccepted, ValidatePublicKey, RequireText, IsDocumented, Width
  <2>8. CASE field = "signature"
    BY <2>1, <2>2, <2>3, <2>8
    DEF IsAccepted, ValidateManifestSignature, IsDocumented, Width
  <2> QED
    BY <2>1, <2>5, <2>6, <2>7, <2>8 DEF Fields
<1> QED
  BY <1>1, StatusInvariant, PTL

-----------------------------------------------------------------------------
(* References: each verdict is about the reference it is stored beside.    *)

VerdictsInv ==
    /\ reference \in References
    /\ verdicts \in [fixture : {"unchecked", "pass", "fail"},
                     contract : {"unchecked", "accepted", "refused"}]
    /\ verdicts.contract = "accepted" => ValidateReference(reference)
    /\ verdicts.contract = "refused" => ~ValidateReference(reference)
    /\ verdicts.fixture = "pass" => FixtureReferencePasses(reference)

LEMMA VerdictsInvariance == ReferenceSpec => []VerdictsInv
<1>1. ReferenceInit => VerdictsInv
  BY DEF ReferenceInit, VerdictsInv
<1>2. VerdictsInv /\ [ReferenceNext]_referenceVars => VerdictsInv'
  <2> SUFFICES ASSUME VerdictsInv, [ReferenceNext]_referenceVars
               PROVE  VerdictsInv'
    OBVIOUS
  <2>1. CASE CheckFixture
    BY <2>1 DEF CheckFixture, VerdictsInv
  <2>2. CASE Register
    BY <2>2 DEF Register, VerdictsInv
  <2>3. CASE UNCHANGED referenceVars
    BY <2>3 DEF referenceVars, VerdictsInv
  <2> QED
    BY <2>1, <2>2, <2>3 DEF ReferenceNext
<1> QED
  BY <1>1, <1>2, PTL DEF ReferenceSpec

\* The parts are the segments after the first.
LEMMA PartsAreSegments ==
    ASSUME NEW ref \in References
    PROVE  /\ ref.segments \in Seq(STRING)
           /\ Len(ref.segments) \in Nat /\ Len(ref.segments) > 0
           /\ DOMAIN ref.segments = 1..Len(ref.segments)
           /\ Len(Parts(ref)) = Len(ref.segments) - 1
           /\ \A i \in 1..Len(ref.segments) - 1 : Parts(ref)[i] = ref.segments[i + 1]
BY ReferencesAssumption, HeadTailProperties, EmptySeq DEF Parts

\* A single segment is pinned only by the name of its host.
LEMMA LoneSegment ==
    ASSUME NEW ref \in References, Len(ref.segments) = 1, IsImmutableReference(ref)
    PROVE  Authority(ref) = "cid.ipfs"
<1>1. ~IsKnownHost(ref) /\ IpfsPlaces(ref) = {}
  BY DEF IsKnownHost, IsUnder, IpfsPlaces
<1> QED
  BY <1>1 DEF IsImmutableReference

\* Under a host the code knows, only that host's own form is pinned.
LEMMA KnownHostIsPinned ==
    ASSUME NEW ref \in References, IsImmutableReference(ref),
           Authority(ref) \in {"raw", "github", "arweave"}
    PROVE  IsGithubPinned(ref) \/ IsArweavePinned(ref)
<1>1. Len(ref.segments) > 1
  <2>1. Len(ref.segments) \in Nat /\ Len(ref.segments) > 0
    BY PartsAreSegments
  <2>2. Len(ref.segments) # 1
    BY LoneSegment
  <2> DEFINE length == Len(ref.segments)
  <2> HIDE DEF length
  <2>3. length \in Nat /\ length > 0 /\ length # 1 => length > 1
    OBVIOUS
  <2> QED
    BY <2>1, <2>2, <2>3 DEF length
<1>2. IsKnownHost(ref)
  BY <1>1 DEF IsKnownHost, IsUnder
<1> QED
  BY <1>2 DEF IsImmutableReference

(* Under a host that the code knows, no accepted reference follows a       *)
(* branch or a tag, for references of any length and any names in them.    *)
THEOREM KnownHostsArePinnedCorrect == ReferenceSpec => []KnownHostsArePinned
<1>1. VerdictsInv => KnownHostsArePinned
  <2> SUFFICES ASSUME VerdictsInv, verdicts.contract = "accepted"
               PROVE  KnownHostsArePinned
    BY DEF KnownHostsArePinned
  <2> DEFINE seg == reference.segments
             StandsFrom(i, what) == i \in DOMAIN seg /\ seg[i] = what
  <2>1. reference \in References /\ IsImmutableReference(reference)
    BY DEF VerdictsInv, ValidateReference
  <2>2. /\ DOMAIN seg = 1..Len(seg) /\ Len(seg) \in Nat /\ Len(seg) > 0
        /\ Len(Parts(reference)) = Len(seg) - 1
        /\ \A i \in 1..Len(seg) - 1 : Parts(reference)[i] = seg[i + 1]
    BY <2>1, PartsAreSegments
  <2>3. seg[1] \in {"raw", "github", "arweave"} =>
          IsGithubPinned(reference) \/ IsArweavePinned(reference)
    BY <2>1, KnownHostIsPinned DEF Authority
  <2>4. \A what : \A i \in 1..Len(seg) - 1 :
           Parts(reference)[i] = what => StandsFrom(i + 1, what)
    BY <2>2
  <2>5. seg[1] = "raw" => StandsFrom(4, "commit")
    <3> SUFFICES ASSUME seg[1] = "raw"
                 PROVE  StandsFrom(4, "commit")
      OBVIOUS
    <3>1. Len(Parts(reference)) >= 4 /\ Parts(reference)[3] = "commit"
      BY <2>3 DEF IsGithubPinned, IsArweavePinned, IsUnder, Authority
    <3>2. 3 \in 1..Len(seg) - 1
      BY <2>2, <3>1
    <3> HIDE DEF StandsFrom
    <3>3. StandsFrom(3 + 1, "commit")
      BY <2>4, <3>1, <3>2
    <3> QED
      BY <3>3
  <2>6. seg[1] = "github" => StandsFrom(4, "blob") /\ StandsFrom(5, "commit")
    <3> SUFFICES ASSUME seg[1] = "github"
                 PROVE  StandsFrom(4, "blob") /\ StandsFrom(5, "commit")
      OBVIOUS
    <3>1. /\ Len(Parts(reference)) >= 5
          /\ Parts(reference)[3] = "blob" /\ Parts(reference)[4] = "commit"
      BY <2>3 DEF IsGithubPinned, IsArweavePinned, IsUnder, Authority
    <3>2. 3 \in 1..Len(seg) - 1 /\ 4 \in 1..Len(seg) - 1
      BY <2>2, <3>1
    <3> HIDE DEF StandsFrom
    <3>3. StandsFrom(3 + 1, "blob") /\ StandsFrom(4 + 1, "commit")
      BY <2>4, <3>1, <3>2
    <3> QED
      BY <3>3
  <2>7. seg[1] = "arweave" => StandsFrom(2, "txid") /\ Len(seg) = 2
    <3> SUFFICES ASSUME seg[1] = "arweave"
                 PROVE  StandsFrom(2, "txid") /\ Len(seg) = 2
      OBVIOUS
    <3>1. Parts(reference) = <<"txid">>
      BY <2>3 DEF IsGithubPinned, IsArweavePinned, IsUnder, Authority
    <3>2. Len(Parts(reference)) = 1 /\ Parts(reference)[1] = "txid"
      BY <3>1
    <3>3. 1 \in 1..Len(seg) - 1 /\ Len(seg) = 2
      <4> DEFINE c == Len(seg)
      <4>1. c \in Nat /\ c - 1 = 1
        BY <2>2, <3>2
      <4> HIDE DEF c
      <4>2. 1 \in 1..c - 1 /\ c = 2
        BY <4>1
      <4> QED
        BY <4>2 DEF c
    <3> HIDE DEF StandsFrom
    <3>4. StandsFrom(1 + 1, "txid")
      BY <2>4, <3>2, <3>3
    <3> QED
      BY <3>3, <3>4
  <2> QED
    BY <2>5, <2>6, <2>7 DEF KnownHostsArePinned
<1> QED
  BY <1>1, VerdictsInvariance, PTL

\* The part after the commit is the fifth segment.
LEMMA FourthPart ==
    ASSUME NEW ref \in References, Len(Parts(ref)) >= 4
    PROVE  Parts(ref)[4] = ref.segments[5]
<1> DEFINE seg == ref.segments
<1>1. /\ Len(seg) \in Nat
      /\ Len(Parts(ref)) = Len(seg) - 1
      /\ \A i \in 1..Len(seg) - 1 : Parts(ref)[i] = seg[i + 1]
  BY PartsAreSegments
<1>2. 4 \in 1..Len(seg) - 1
  BY <1>1
<1> QED
  BY <1>1, <1>2

(* What the fixture validator passes, register_dataset accepts, but for    *)
(* "//" after the commit and control characters.                           *)
THEOREM PassedIsAcceptedCorrect == ReferenceSpec => []PassedIsAccepted
<1>1. VerdictsInv => PassedIsAccepted
  <2> SUFFICES ASSUME VerdictsInv, verdicts.fixture = "pass",
                      reference.blemish # "control", reference.segments[5] # ""
               PROVE  ValidateReference(reference)
    BY DEF PassedIsAccepted, VerdictsInv
  <2>1. reference.blemish = "none" /\ IsRawCommitReference(reference)
    BY DEF VerdictsInv, FixtureReferencePasses
  <2>2. /\ IsUnder("raw", reference)
        /\ Len(Parts(reference)) >= 4
        /\ Parts(reference)[3] = "commit"
    BY <2>1 DEF IsRawCommitReference
  <2>3. Parts(reference)[4] # ""
    <3> DEFINE fifth == reference.segments[5]
    <3>1. fifth # ""
      OBVIOUS
    <3> HIDE DEF fifth
    <3>2. Parts(reference)[4] = reference.segments[5]
      BY <2>2, FourthPart DEF VerdictsInv
    <3>3. Parts(reference)[4] = fifth
      BY <3>2 DEF fifth
    <3> QED
      BY <3>1, <3>3
  <2>4. IsImmutableReference(reference)
    BY <2>2, <2>3 DEF IsImmutableReference, IsKnownHost, IsGithubPinned
  <2>5. ValidateHttpsLocator(reference)
    BY <2>1, <2>2 DEF ValidateHttpsLocator, IsUnder
  <2> QED
    BY <2>4, <2>5 DEF ValidateReference
<1> QED
  BY <1>1, VerdictsInvariance, PTL

-----------------------------------------------------------------------------
(* The forms of the documents, by what stands at their places. *)
LEMMA TwoSegments ==
    ASSUME NEW seg, NEW a, NEW b, seg = <<a, b>>
    PROVE  Len(seg) = 2 /\ seg[1] = a /\ seg[2] = b /\ Tail(seg) = <<b>>
  OBVIOUS

LEMMA ThreeSegments ==
    ASSUME NEW seg, NEW a, NEW b, NEW c, seg = <<a, b, c>>
    PROVE  Len(seg) = 3 /\ seg[1] = a /\ seg[2] = b /\ seg[3] = c
  OBVIOUS

LEMMA FourSegments ==
    ASSUME NEW seg, NEW a, NEW b, NEW c, NEW d, seg = <<a, b, c, d>>
    PROVE  Len(seg) = 4 /\ seg[1] = a /\ seg[2] = b /\ seg[3] = c
  OBVIOUS

LEMMA FiveSegments ==
    ASSUME NEW seg, NEW a, NEW b, NEW c, NEW d, NEW e, seg = <<a, b, c, d, e>>
    PROVE  Len(seg) = 5 /\ seg[1] = a /\ seg[4] = d /\ seg[5] = e
  OBVIOUS

LEMMA SixSegments ==
    ASSUME NEW seg, NEW a, NEW b, NEW c, NEW d, NEW e, NEW f,
           seg = <<a, b, c, d, e, f>>
    PROVE  Len(seg) = 6 /\ seg[1] = a /\ seg[4] = d /\ seg[5] = e /\ seg[6] = f
  OBVIOUS

\* A file of a commit on raw.githubusercontent.com.
LEMMA RawForm ==
    ASSUME NEW ref \in References,
           NEW raw, NEW name, NEW commit, NEW file, 
           ref.segments = <<raw, name, name, commit, file>>
    PROVE  /\ Authority(ref) = raw /\ Len(ref.segments) > 1 /\ Len(Parts(ref)) >= 4
           /\ Parts(ref)[3] = commit /\ Parts(ref)[4] = file
<1>1. /\ Len(ref.segments) = 5
      /\ ref.segments[1] = raw /\ ref.segments[4] = commit /\ ref.segments[5] = file
  BY FiveSegments
<1>2. /\ Len(Parts(ref)) = 5 - 1
      /\ \A i \in 1..5 - 1 : Parts(ref)[i] = ref.segments[i + 1]
  BY <1>1, PartsAreSegments
<1>3. Parts(ref)[3] = ref.segments[3 + 1] /\ Parts(ref)[4] = ref.segments[4 + 1]
  BY <1>2
<1> QED
  BY <1>1, <1>2, <1>3 DEF Authority

LEMMA RawIsPinned ==
    ASSUME NEW ref \in References, IsUnder("raw", ref), Len(Parts(ref)) >= 4,
           Parts(ref)[3] = "commit", Parts(ref)[4] # ""
    PROVE  IsImmutableReference(ref)
<1>1. IsGithubPinned(ref) /\ IsKnownHost(ref)
  BY Zenon DEF IsGithubPinned, IsKnownHost
<1> QED
  BY <1>1, Zenon DEF IsImmutableReference

\* A file of a commit on github.com.
LEMMA GithubForm ==
    ASSUME NEW ref \in References,
           NEW github, NEW name, NEW blob, NEW commit, NEW file,
           ref.segments = <<github, name, name, blob, commit, file>>
    PROVE  /\ Authority(ref) = github /\ Len(ref.segments) > 1 /\ Len(Parts(ref)) >= 5
           /\ Parts(ref)[3] = blob /\ Parts(ref)[4] = commit /\ Parts(ref)[5] = file
<1>1. /\ Len(ref.segments) = 6 /\ ref.segments[1] = github
      /\ ref.segments[4] = blob /\ ref.segments[5] = commit /\ ref.segments[6] = file
  BY SixSegments
<1>2. /\ Len(Parts(ref)) = 6 - 1
      /\ \A i \in 1..6 - 1 : Parts(ref)[i] = ref.segments[i + 1]
  BY <1>1, PartsAreSegments
<1>3. /\ Parts(ref)[3] = ref.segments[3 + 1] /\ Parts(ref)[4] = ref.segments[4 + 1]
      /\ Parts(ref)[5] = ref.segments[5 + 1]
  BY <1>2
<1> QED
  BY <1>1, <1>2, <1>3 DEF Authority

LEMMA GithubIsPinned ==
    ASSUME NEW ref \in References, IsUnder("github", ref), Len(Parts(ref)) >= 5,
           Parts(ref)[3] = "blob", Parts(ref)[4] = "commit", Parts(ref)[5] # ""
    PROVE  IsImmutableReference(ref)
<1>1. IsGithubPinned(ref) /\ IsKnownHost(ref)
  BY Zenon DEF IsGithubPinned, IsKnownHost
<1> QED
  BY <1>1, Zenon DEF IsImmutableReference

\* An Arweave transaction.
LEMMA ArweaveIsPinned ==
    ASSUME NEW ref \in References, ref.segments[1] = "arweave", Len(ref.segments) = 2,
           Tail(ref.segments) = <<"txid">>
    PROVE  Authority(ref) = "arweave" /\ IsImmutableReference(ref)
BY DEF Authority, IsUnder, IsArweavePinned, IsKnownHost, IsImmutableReference, Parts

\* A CID in a gateway's path.
LEMMA PathIsPinned ==
    ASSUME NEW ref \in References, ref.segments[1] = "name",
           ref.segments[2] = "ipfs", ref.segments[3] = "cid",
           Len(ref.segments) \in {3, 4}
    PROVE  Authority(ref) = "name" /\ IsImmutableReference(ref)
<1>1. Authority(ref) = "name" /\ ~IsKnownHost(ref)
  BY DEF Authority, IsKnownHost, IsUnder
<1>2. 2 \in IpfsPlaces(ref)
  BY DEF IpfsPlaces
<1>3. \A j \in IpfsPlaces(ref) : 2 <= j
  BY DEF IpfsPlaces
<1>4. IsIpfsPathPinned(ref)
  BY <1>2, <1>3 DEF IsIpfsPathPinned
<1> QED
  BY <1>1, <1>2, <1>4 DEF IsImmutableReference

\* A CID in a gateway's name.
LEMMA NameIsPinned ==
    ASSUME NEW ref \in References, ref.segments[1] = "cid.ipfs",
           Len(ref.segments) \in {1, 2}
    PROVE  Authority(ref) = "cid.ipfs" /\ IsImmutableReference(ref)
<1>1. Authority(ref) = "cid.ipfs" /\ ~IsKnownHost(ref)
  BY DEF Authority, IsKnownHost, IsUnder
<1>2. ASSUME NEW i \in IpfsPlaces(ref)
      PROVE  FALSE
  <2>1. i \in 1..Len(ref.segments) - 1 /\ ref.segments[i] = "ipfs"
    BY DEF IpfsPlaces
  <2> DEFINE length == Len(ref.segments)
  <2> HIDE DEF length
  <2>2. length \in {1, 2} /\ i \in 1..length - 1 => i = 1
    OBVIOUS
  <2> QED
    BY <2>1, <2>2 DEF length
<1> QED
  BY <1>1, <1>2 DEF IsImmutableReference

(* The documented forms are all accepted: of every set of references, a    *)
(* file of a commit on either GitHub host, an Arweave transaction, and a   *)
(* CID in a gateway's path or its name.                                    *)
THEOREM DocumentedFormIsAcceptedCorrect == ReferenceSpec => []DocumentedFormIsAccepted
<1> DEFINE seg == reference.segments
           IsPinnedByName ==
             IsImmutableReference(reference)
               /\ Authority(reference) \in {"raw", "github", "arweave", "name", "cid.ipfs"}
<1>1. ASSUME VerdictsInv, verdicts.contract = "refused", reference.blemish = "none",
             IsPinnedByName
      PROVE  FALSE
  BY <1>1 DEF VerdictsInv, ValidateReference, ValidateHttpsLocator
<1>2. ASSUME VerdictsInv, NEW file \in {"name", "blob"},
             seg = <<"raw", "name", "name", "commit", file>>
      PROVE  IsPinnedByName
  <2>1. /\ Authority(reference) = "raw" /\ Len(seg) > 1 /\ Len(Parts(reference)) >= 4
        /\ Parts(reference)[3] = "commit" /\ Parts(reference)[4] = file
    BY <1>2, RawForm DEF VerdictsInv
  <2>2. file # ""
    OBVIOUS
  <2>3. IsUnder("raw", reference) /\ Parts(reference)[4] # ""
    BY <2>1, <2>2, Zenon DEF IsUnder
  <2> QED
    BY <1>2, <2>1, <2>3, RawIsPinned, Zenon DEF VerdictsInv
<1>3. ASSUME VerdictsInv, NEW file \in {"name", "blob"},
             seg = <<"github", "name", "name", "blob", "commit", file>>
      PROVE  IsPinnedByName
  <2>1. /\ Authority(reference) = "github" /\ Len(seg) > 1 /\ Len(Parts(reference)) >= 5
        /\ Parts(reference)[3] = "blob" /\ Parts(reference)[4] = "commit"
        /\ Parts(reference)[5] = file
    BY <1>3, GithubForm DEF VerdictsInv
  <2>2. file # ""
    OBVIOUS
  <2>3. IsUnder("github", reference) /\ Parts(reference)[5] # ""
    BY <2>1, <2>2, Zenon DEF IsUnder
  <2> QED
    BY <1>3, <2>1, <2>3, GithubIsPinned, Zenon DEF VerdictsInv
<1>4. ASSUME VerdictsInv, seg = <<"arweave", "txid">>
      PROVE  IsPinnedByName
  <2>1. /\ reference.segments[1] = "arweave" /\ Len(reference.segments) = 2
        /\ Tail(reference.segments) = <<"txid">>
    BY <1>4, TwoSegments
  <2>2. reference \in References
    BY <1>4 DEF VerdictsInv
  <2>3. Authority(reference) = "arweave" /\ IsImmutableReference(reference)
    BY <2>1, <2>2, ArweaveIsPinned
  <2> QED
    BY <2>3
<1>5. ASSUME VerdictsInv, NEW file \in {"name", "blob"},
             seg \in {<<"name", "ipfs", "cid">>, <<"name", "ipfs", "cid", file>>}
      PROVE  IsPinnedByName
  <2>1. /\ reference.segments[1] = "name" /\ reference.segments[2] = "ipfs"
        /\ reference.segments[3] = "cid" /\ Len(reference.segments) \in {3, 4}
    BY <1>5, ThreeSegments, FourSegments
  <2>2. reference \in References
    BY <1>5 DEF VerdictsInv
  <2>3. Authority(reference) = "name" /\ IsImmutableReference(reference)
    BY <2>1, <2>2, PathIsPinned
  <2> QED
    BY <2>3
<1>6. ASSUME VerdictsInv, NEW file \in {"name", "blob"},
             seg \in {<<"cid.ipfs", file>>, <<"cid.ipfs">>}
      PROVE  IsPinnedByName
  <2>1. reference.segments[1] = "cid.ipfs" /\ Len(reference.segments) \in {1, 2}
    BY <1>6, TwoSegments
  <2>2. reference \in References
    BY <1>6 DEF VerdictsInv
  <2>3. Authority(reference) = "cid.ipfs" /\ IsImmutableReference(reference)
    BY <2>1, <2>2, NameIsPinned
  <2> QED
    BY <2>3
<1>7. VerdictsInv => DocumentedFormIsAccepted
  <2> HIDE DEF IsPinnedByName, seg
  <2> QED
    BY <1>1, <1>2, <1>3, <1>4, <1>5, <1>6, Zenon DEF DocumentedFormIsAccepted, seg
<1> QED
  BY <1>7, VerdictsInvariance, PTL
-----------------------------------------------------------------------------
(* Fences. *)

Tokens == Words \cup {"[...]"}

\* One occurrence, token by token.
LEMMA IsAtMeans ==
    ASSUME NEW text \in Seq(Tokens), NEW word \in Seq(Tokens), NEW i \in Nat \ {0}
    PROVE  IsAt(text, word, i) <=>
             /\ i + Len(word) - 1 <= Len(text)
             /\ \A k \in 1..Len(word) : text[i + k - 1] = word[k]
<1> DEFINE w == Len(word)
           n == Len(text)
           last == i + w - 1
           piece == SubSeq(text, i, last)
<1>1. w \in Nat /\ n \in Nat /\ last \in Int
  OBVIOUS
<1> SUFFICES ASSUME last <= n
             PROVE  piece = word <=> \A k \in 1..w : text[i + k - 1] = word[k]
  BY DEF IsAt
<1> HIDE DEF w, n
<1>2. \A j \in i..last : text[j] \in Tokens
  <2>1. \A j \in 1..n : text[j] \in Tokens
    BY ElementOfSeq DEF n
  <2> QED
    BY <1>1, <2>1
<1>3. /\ piece \in Seq(Tokens)
      /\ Len(piece) = w
      /\ \A k \in 1..w : piece[k] = text[i + k - 1]
  <2>1. /\ piece \in Seq(Tokens)
        /\ Len(piece) = IF i <= last THEN last - i + 1 ELSE 0
        /\ \A k \in 1..last - i + 1 : piece[k] = text[i + k - 1]
    BY <1>1, <1>2, SubSeqProperties
  <2> HIDE DEF piece
  <2> QED
    BY <1>1, <2>1
<1> HIDE DEF piece, last
<1>4. ASSUME \A k \in 1..w : text[i + k - 1] = word[k]
      PROVE  piece = word
  BY <1>3, <1>4, SeqEqual DEF w
<1> QED
  BY <1>3, <1>4

LEMMA Prepend ==
    ASSUME NEW x \in Tokens, NEW u \in Seq(Tokens)
    PROVE  /\ <<x>> \o u \in Seq(Tokens)
           /\ Len(<<x>> \o u) = Len(u) + 1
           /\ (<<x>> \o u)[1] = x
           /\ \A k \in 1..Len(u) : (<<x>> \o u)[k + 1] = u[k]
<1> DEFINE one == <<x>>
           v == one \o u
<1>1. one \in Seq(Tokens) /\ Len(one) = 1 /\ one[1] = x /\ Len(u) \in Nat
  OBVIOUS
<1> HIDE DEF one
<1>2. /\ v \in Seq(Tokens)
      /\ Len(v) = Len(one) + Len(u)
      /\ \A i \in 1..Len(one) + Len(u) :
           v[i] = IF i <= Len(one) THEN one[i] ELSE u[i - Len(one)]
  BY <1>1, ConcatProperties
<1> HIDE DEF v
<1>3. \A k \in 1..Len(u) : v[k + 1] = u[k]
  <2> TAKE k \in 1..Len(u)
  <2>1. k + 1 \in 1..Len(one) + Len(u) /\ ~(k + 1 <= Len(one)) /\ (k + 1) - Len(one) = k
    BY <1>1
  <2> QED
    BY <1>2, <2>1
<1>4. v[1] = x
  BY <1>1, <1>2
<1> QED
  BY <1>1, <1>2, <1>3, <1>4 DEF v, one

\* What str.replace makes of the text from each place on.
IsScan(f, text, word) ==
    f = [i \in 1..Len(text) + 1 |->
           IF i > Len(text) THEN << >>
           ELSE IF IsAt(text, word, i) THEN <<"[...]">> \o f[i + Len(word)]
           ELSE <<text[i]>> \o f[i + 1]]

\* The same, from place m on.
IsScanFrom(f, text, word, m) ==
    /\ f = [i \in m..Len(text) + 1 |-> f[i]]
    /\ \A i \in m..Len(text) + 1 :
         f[i] = IF i > Len(text) THEN << >>
                ELSE IF IsAt(text, word, i) THEN <<"[...]">> \o f[i + Len(word)]
                ELSE <<text[i]>> \o f[i + 1]

LEMMA ScanExists ==
    ASSUME NEW text \in Seq(Tokens), NEW word \in Seq(Tokens), Len(word) >= 1
    PROVE  \E f : IsScan(f, text, word)
<1> DEFINE n == Len(text)
           w == Len(word)
           Scan(f, m) == IsScanFrom(f, text, word, m)
           T == {d \in Nat : d <= n => \E f : Scan(f, n + 1 - d)}
<1>1. n \in Nat /\ w \in Nat /\ w >= 1
  OBVIOUS
<1>2. 0 \in T
  <2> DEFINE g == [i \in n+1..n+1 |-> << >>]
  <2>1. Scan(g, n + 1)
    <3>1. g = [i \in n+1..n+1 |-> g[i]] /\ \A i \in n+1..n+1 : g[i] = << >> /\ i > n
      BY <1>1
    <3> HIDE DEF g
    <3> QED
      BY <3>1 DEF IsScanFrom
  <2>2. n + 1 - 0 = n + 1
    BY <1>1
  <2> HIDE DEF Scan, g
  <2> QED
    BY <2>1, <2>2
<1>3. ASSUME NEW d \in Nat, d \in T
      PROVE  d + 1 \in T
  <2> SUFFICES ASSUME d + 1 <= n
               PROVE  \E f : Scan(f, n + 1 - (d + 1))
    OBVIOUS
  <2> DEFINE m == n + 1 - d
             l == n + 1 - (d + 1)
  <2>1. PICK f : Scan(f, m)
    BY <1>1, <1>3
  <2> DEFINE made == IF IsAt(text, word, l) THEN <<"[...]">> \o f[l + w]
                      ELSE <<text[l]>> \o f[l + 1]
             g == [i \in l..n+1 |-> IF i = l THEN made ELSE f[i]]
  <2>2. l \in 1..n /\ m = l + 1 /\ m \in Int /\ l \in Int
    BY <1>1
  <2>3. \A i \in 1..n : IsAt(text, word, i) => i + w - 1 <= n
    BY DEF IsAt
  <2> HIDE DEF n, w, l, m, made
  <2>4. /\ g = [i \in l..n+1 |-> g[i]]
        /\ g[l] = made
        /\ \A i \in m..n+1 : g[i] = f[i]
    BY <1>1, <2>2
  <2> HIDE DEF g
  <2>5. made = IF l > n THEN << >>
                ELSE IF IsAt(text, word, l) THEN <<"[...]">> \o g[l + w]
                ELSE <<text[l]>> \o g[l + 1]
    <3>1. ~(l > n) /\ l + 1 \in m..n+1
      BY <1>1, <2>2
    <3>2. IsAt(text, word, l) => l + w \in m..n+1
      BY <1>1, <2>2, <2>3
    <3>3. g[l + 1] = f[l + 1] /\ (IsAt(text, word, l) => g[l + w] = f[l + w])
      BY <2>4, <3>1, <3>2
    <3> QED
      BY <2>4, <3>1, <3>3 DEF made
  <2>6. ASSUME NEW i \in m..n+1
        PROVE  g[i] = IF i > n THEN << >>
                      ELSE IF IsAt(text, word, i) THEN <<"[...]">> \o g[i + w]
                      ELSE <<text[i]>> \o g[i + 1]
    <3>1. g[i] = f[i] /\ f[i] = IF i > n THEN << >>
                      ELSE IF IsAt(text, word, i) THEN <<"[...]">> \o f[i + w]
                      ELSE <<text[i]>> \o f[i + 1]
      BY <2>1, <2>4 DEF IsScanFrom, n, w
    <3>2. ~(i > n) => i + 1 \in m..n+1 /\ i \in 1..n
      BY <1>1, <2>2
    <3>3. ~(i > n) /\ IsAt(text, word, i) => i + w \in m..n+1
      BY <1>1, <2>2, <2>3, <3>2
    <3>4. /\ ~(i > n) => g[i + 1] = f[i + 1]
          /\ ~(i > n) /\ IsAt(text, word, i) => g[i + w] = f[i + w]
      BY <2>4, <3>2, <3>3
    <3> QED
      BY <3>1, <3>4
  <2>7. \A i \in l..n+1 : i = l \/ i \in m..n+1
    BY <1>1, <2>2
  <2>8. Scan(g, l)
    BY <2>4, <2>5, <2>6, <2>7 DEF IsScanFrom, n, w
  <2> HIDE DEF Scan
  <2> QED
    BY <2>8 DEF l
<1>4. \A d \in Nat : d \in T
  <2> HIDE DEF T
  <2> QED
    BY <1>2, <1>3, Induction
<1> HIDE DEF Scan
<1>5. PICK f : Scan(f, 1)
  <2>1. n \in T /\ n + 1 - n = 1
    BY <1>1, <1>4
  <2> QED
    BY <1>1, <2>1
<1>6. IsScan(f, text, word)
  BY <1>5 DEF Scan, IsScanFrom, IsScan
<1> QED
  BY <1>6

\* What is kept of the text at the front, up to the first replacement.
PrefixKept(u, text, i) ==
    \A k \in 1..Len(u) :
        (\A l \in 1..k : u[l] # "[...]") =>
            i + k - 1 <= Len(text) /\ u[k] = text[i + k - 1]

\* A run of tokens that stands in the text, at a place where the word does not.
IsCopy(u, p, q, text, word) ==
    \E j \in 1..Len(text) :
        /\ ~IsAt(text, word, j)
        /\ j + (q - p) <= Len(text)
        /\ \A k \in 0..q-p : u[p + k] = text[j + k]

\* Whatever lies between replacements was copied.
RunsKept(u, text, word) ==
    \A p, q \in 1..Len(u) :
        p <= q /\ (\A l \in p..q : u[l] # "[...]") => IsCopy(u, p, q, text, word)

IsKept(u, text, word, i) ==
    u \in Seq(Tokens) /\ PrefixKept(u, text, i) /\ RunsKept(u, text, word)

\* A run that does not begin with the first token was there before it.
LEMMA LaterRun ==
    ASSUME NEW x \in Tokens, NEW u \in Seq(Tokens), NEW text, NEW word,
           RunsKept(u, text, word),
           NEW p \in 1..Len(u) + 1, NEW q \in 1..Len(u) + 1, p <= q, p > 1,
           \A l \in p..q : (<<x>> \o u)[l] # "[...]"
    PROVE  IsCopy(<<x>> \o u, p, q, text, word)
<1> DEFINE v == <<x>> \o u
           n == Len(u)
<1>1. n \in Nat /\ \A k \in 1..n : v[k + 1] = u[k]
  BY Prepend
<1> HIDE DEF n, v
<1>2. /\ p \in Int /\ q \in Int /\ n \in Int
      /\ p - 1 \in 1..n /\ q - 1 \in 1..n /\ p - 1 <= q - 1 /\ (q - 1) - (p - 1) = q - p
  BY <1>1 DEF n
<1>3. ASSUME NEW l \in (p - 1)..(q - 1)
      PROVE  u[l] # "[...]"
  <2>1. l + 1 \in p..q /\ l \in 1..n
    BY <1>2
  <2>2. v[l + 1] = u[l] /\ v[l + 1] # "[...]"
    BY <1>1, <2>1 DEF v
  <2> QED
    BY <2>2
<1>4. IsCopy(u, p - 1, q - 1, text, word)
  BY <1>2, <1>3 DEF RunsKept, n
<1>5. PICK j \in 1..Len(text) :
        /\ ~IsAt(text, word, j)
        /\ j + (q - p) <= Len(text)
        /\ \A k \in 0..q-p : u[(p - 1) + k] = text[j + k]
  BY <1>2, <1>4 DEF IsCopy
<1>6. ASSUME NEW k \in 0..q-p
      PROVE  v[p + k] = text[j + k]
  <2>1. (p - 1) + k \in 1..n /\ ((p - 1) + k) + 1 = p + k
    BY <1>2
  <2>2. v[p + k] = u[(p - 1) + k]
    BY <1>1, <2>1
  <2> QED
    BY <1>5, <2>2
<1>7. IsCopy(v, p, q, text, word)
  BY <1>5, <1>6 DEF IsCopy
<1> QED
  BY <1>7 DEF v

\* A replacement in front.
LEMMA MarkKeeps ==
    ASSUME NEW u, NEW text \in Seq(Tokens), NEW word, NEW i \in 1..Len(text),
           NEW h, IsKept(u, text, word, h)
    PROVE  IsKept(<<"[...]">> \o u, text, word, i)
<1> DEFINE mark == "[...]"
           v == <<mark>> \o u
<1>1. u \in Seq(Tokens) /\ RunsKept(u, text, word) /\ mark \in Tokens
  BY DEF IsKept, Tokens
<1>2. v \in Seq(Tokens) /\ Len(v) = Len(u) + 1 /\ v[1] = "[...]" /\ Len(u) \in Nat
  BY <1>1, Prepend
<1> HIDE DEF mark
<1>3. RunsKept(v, text, word)
  <2> SUFFICES ASSUME NEW p \in 1..Len(v), NEW q \in 1..Len(v), p <= q,
                      \A l \in p..q : v[l] # "[...]"
               PROVE  IsCopy(v, p, q, text, word)
    BY DEF RunsKept
  <2>1. p > 1 /\ p \in 1..Len(u) + 1 /\ q \in 1..Len(u) + 1
    <3>1. p \in p..q
      BY <1>2
    <3>2. p # 1
      BY <1>2, <3>1
    <3> QED
      BY <1>2, <3>2
  <2> QED
    BY <1>1, <2>1, LaterRun
<1>4. PrefixKept(v, text, i)
  <2>1. \A k \in 1..Len(v) : 1 \in 1..k
    BY <1>2
  <2> QED
    BY <1>2, <2>1 DEF PrefixKept
<1> QED
  BY <1>2, <1>3, <1>4 DEF IsKept, mark

\* A token of the text in front.
LEMMA TokenKeeps ==
    ASSUME NEW u, NEW text \in Seq(Tokens), NEW word, NEW i \in 1..Len(text),
           ~IsAt(text, word, i), IsKept(u, text, word, i + 1)
    PROVE  IsKept(<<text[i]>> \o u, text, word, i)
<1> DEFINE x == text[i]
           v == <<x>> \o u
           n == Len(text)
<1>1. /\ u \in Seq(Tokens) /\ RunsKept(u, text, word) /\ PrefixKept(u, text, i + 1)
      /\ x \in Tokens /\ n \in Nat /\ i \in Int
  BY ElementOfSeq DEF IsKept
<1> HIDE DEF x
<1>2. /\ v \in Seq(Tokens) /\ Len(v) = Len(u) + 1 /\ v[1] = x /\ Len(u) \in Nat
      /\ \A k \in 1..Len(u) : v[k + 1] = u[k]
  BY <1>1, Prepend
<1>3. PrefixKept(v, text, i)
  <2> SUFFICES ASSUME NEW k \in 1..Len(v), \A l \in 1..k : v[l] # "[...]"
               PROVE  i + k - 1 <= n /\ v[k] = text[i + k - 1]
    BY DEF PrefixKept
  <2>1. CASE k = 1
    BY <1>1, <1>2, <2>1 DEF x
  <2>2. CASE k # 1
    <3>1. k - 1 \in 1..Len(u) /\ (k - 1) + 1 = k
      BY <1>2, <2>2
    <3>2. ASSUME NEW l \in 1..k-1
          PROVE  u[l] # "[...]"
      <4>1. l \in 1..Len(u) /\ l + 1 \in 1..k
        BY <3>1
      <4> QED
        BY <1>2, <4>1
    <3>3. (i + 1) + (k - 1) - 1 <= n /\ u[k - 1] = text[(i + 1) + (k - 1) - 1]
      BY <1>1, <3>1, <3>2 DEF PrefixKept
    <3>4. (i + 1) + (k - 1) - 1 = i + k - 1
      BY <1>1
    <3>5. v[k] = u[k - 1]
      BY <1>2, <3>1
    <3> QED
      BY <3>3, <3>4, <3>5
  <2> QED
    BY <2>1, <2>2
<1>4. RunsKept(v, text, word)
  <2> SUFFICES ASSUME NEW p \in 1..Len(v), NEW q \in 1..Len(v), p <= q,
                      \A l \in p..q : v[l] # "[...]"
               PROVE  IsCopy(v, p, q, text, word)
    BY DEF RunsKept
  <2>1. CASE p > 1
    <3>1. p \in 1..Len(u) + 1 /\ q \in 1..Len(u) + 1
      BY <1>2
    <3> QED
      BY <1>1, <2>1, <3>1, LaterRun
  <2>2. CASE p = 1
    <3>1. ASSUME NEW k \in 1..q
          PROVE  i + k - 1 <= n /\ v[k] = text[i + k - 1]
      <4>1. k \in 1..Len(v) /\ \A l \in 1..k : l \in p..q
        BY <1>2, <2>2
      <4> QED
        BY <1>3, <4>1 DEF PrefixKept
    <3>2. i + (q - p) <= n
      <4>1. q \in 1..q /\ i + q - 1 = i + (q - p)
        BY <1>1, <1>2, <2>2
      <4> QED
        BY <3>1, <4>1
    <3>3. ASSUME NEW k \in 0..q-p
          PROVE  v[p + k] = text[i + k]
      <4>1. p + k \in 1..q /\ i + (p + k) - 1 = i + k
        BY <1>1, <1>2, <2>2
      <4> QED
        BY <3>1, <4>1
    <3> QED
      BY <3>2, <3>3 DEF IsCopy
  <2> QED
    BY <1>2, <2>1, <2>2
<1> QED
  BY <1>2, <1>3, <1>4 DEF IsKept, x

LEMMA ScanKeeps ==
    ASSUME NEW text \in Seq(Tokens), NEW word \in Seq(Tokens), Len(word) >= 1,
           NEW f, IsScan(f, text, word)
    PROVE  IsKept(f[1], text, word, 1)
<1> DEFINE n == Len(text)
           w == Len(word)
           Kept(i) == IsKept(f[i], text, word, i)
           Lost == {d \in Nat : d <= n /\ ~Kept(n + 1 - d)}
<1>1. n \in Nat /\ w \in Nat /\ w >= 1
  OBVIOUS
<1>2. \A i \in 1..n+1 :
        f[i] = IF i > n THEN << >>
               ELSE IF IsAt(text, word, i) THEN <<"[...]">> \o f[i + w]
               ELSE <<text[i]>> \o f[i + 1]
  BY DEF IsScan
<1>3. \A i \in 1..n : IsAt(text, word, i) => i + w - 1 <= n
  BY DEF IsAt
<1>4. Kept(n + 1)
  <2>1. n + 1 \in 1..n+1 /\ n + 1 > n
    BY <1>1
  <2>2. f[n + 1] = << >>
    BY <1>2, <2>1
  <2>3. IsKept(<< >>, text, word, n + 1)
    BY DEF IsKept, PrefixKept, RunsKept
  <2> QED
    BY <2>2, <2>3
<1>5. ASSUME NEW i \in 1..n, \A h \in i+1..n+1 : Kept(h)
      PROVE  Kept(i)
  <2>1. i \in 1..n+1 /\ ~(i > n) /\ i + 1 \in i+1..n+1
    BY <1>1
  <2>2. CASE IsAt(text, word, i)
    <3>1. i + w \in i+1..n+1
      BY <1>1, <1>3, <2>2
    <3>2. f[i] = <<"[...]">> \o f[i + w]
      BY <1>2, <2>1, <2>2
    <3>3. IsKept(f[i + w], text, word, i + w)
      BY <1>5, <3>1
    <3> HIDE DEF w
    <3> QED
      BY <3>2, <3>3, MarkKeeps
  <2>3. CASE ~IsAt(text, word, i)
    <3>1. f[i] = <<text[i]>> \o f[i + 1]
      BY <1>2, <2>1, <2>3
    <3>2. IsKept(f[i + 1], text, word, i + 1)
      BY <1>5, <2>1
    <3> QED
      BY <2>3, <3>1, <3>2, TokenKeeps
  <2> QED
    BY <2>2, <2>3
<1> HIDE DEF Kept, n
<1>6. Lost = {}
  <2> SUFFICES ASSUME Lost # {}
               PROVE  FALSE
    OBVIOUS
  <2>1. PICK d \in Lost : \A e \in Lost : d <= e
    <3>1. Lost \in SUBSET Nat
      OBVIOUS
    <3> HIDE DEF Lost
    <3> QED
      BY <3>1, LeastMember
  <2>2. d \in Nat /\ d <= n /\ ~Kept(n + 1 - d)
    OBVIOUS
  <2>3. d # 0
    <3>1. n + 1 - 0 = n + 1
      BY <1>1
    <3> QED
      BY <1>4, <2>2, <3>1
  <2> DEFINE i == n + 1 - d
  <2>4. i \in 1..n
    BY <1>1, <2>2, <2>3
  <2>5. ASSUME NEW h \in i+1..n+1
        PROVE  Kept(h)
    <3>1. n + 1 - h \in Nat /\ n + 1 - h <= n /\ n + 1 - h < d /\ n + 1 - (n + 1 - h) = h
      BY <1>1, <2>2, <2>4
    <3>2. ~(n + 1 - h \in Lost)
      <4>1. d \in Nat
        BY <2>2
      <4> HIDE DEF Lost
      <4> QED
        BY <2>1, <3>1, <4>1
    <3> QED
      BY <3>1, <3>2
  <2> HIDE DEF i, Lost
  <2>6. Kept(i)
    BY <1>5, <2>4, <2>5
  <2> QED
    BY <2>2, <2>6 DEF i
<1>7. Kept(1)
  <2>1. n \in Nat /\ n <= n /\ n + 1 - n = 1
    BY <1>1
  <2> QED
    BY <1>6, <2>1
<1> QED
  BY <1>7 DEF Kept

LEMMA ReplaceKeeps ==
    ASSUME NEW text \in Seq(Tokens), NEW word \in Seq(Tokens), Len(word) >= 1
    PROVE  IsKept(Replace(text, word), text, word, 1)
<1> DEFINE from == CHOOSE f : IsScan(f, text, word)
<1>1. Replace(text, word) = from[1]
  BY DEF Replace, IsScan
<1>2. IsScan(from, text, word)
  BY ScanExists
<1> HIDE DEF from
<1> QED
  BY <1>1, <1>2, ScanKeeps

(* Replacing leaves no occurrence of the word, and makes none of any other *)
(* word: an occurrence in the result stands in the text already.           *)
LEMMA ReplacedOccurrence ==
    ASSUME NEW text \in Seq(Tokens), NEW word \in Seq(Words), Len(word) >= 1,
           NEW v \in Seq(Words), Len(v) >= 1,
           NEW p \in Nat \ {0}, IsAt(Replace(text, word), v, p)
    PROVE  \E j \in 1..Len(text) : IsAt(text, v, j) /\ ~IsAt(text, word, j)
<1> DEFINE u == Replace(text, word)
           q == p + Len(v) - 1
           w == Len(v)
<1>1. word \in Seq(Tokens) /\ v \in Seq(Tokens)
  BY SeqMonotonic DEF Tokens
<1>2. u \in Seq(Tokens) /\ RunsKept(u, text, word)
  BY <1>1, ReplaceKeeps DEF IsKept
<1>3. w \in Nat /\ w >= 1 /\ Len(u) \in Nat /\ Len(text) \in Nat /\ q \in Int
  BY <1>2
<1> HIDE DEF u
<1>4. q <= Len(u) /\ \A k \in 1..w : u[p + k - 1] = v[k]
  BY <1>1, <1>2, IsAtMeans DEF u
<1>5. \A k \in 1..w : v[k] # "[...]"
  <2>1. \A k \in 1..w : v[k] \in Words
    BY ElementOfSeq
  <2> QED
    BY <2>1 DEF Words
<1> HIDE DEF w
<1>6. q = p + w - 1
  BY DEF w
<1> HIDE DEF q
<1>7. p \in 1..Len(u) /\ q \in 1..Len(u) /\ p <= q /\ q - p = w - 1
  BY <1>3, <1>4, <1>6
<1>8. ASSUME NEW l \in p..q
      PROVE  u[l] # "[...]"
  <2>1. l - p + 1 \in 1..w /\ p + (l - p + 1) - 1 = l
    BY <1>3, <1>6
  <2>2. u[l] = v[l - p + 1]
    BY <1>4, <2>1
  <2> QED
    BY <1>5, <2>1, <2>2
<1>9. PICK j \in 1..Len(text) :
        /\ ~IsAt(text, word, j)
        /\ j + (q - p) <= Len(text)
        /\ \A k \in 0..q-p : u[p + k] = text[j + k]
  BY <1>2, <1>7, <1>8 DEF RunsKept, IsCopy
<1>10. ASSUME NEW k \in 1..w
       PROVE  text[j + k - 1] = v[k]
  <2>1. k - 1 \in 0..q-p /\ p + (k - 1) = p + k - 1 /\ j + (k - 1) = j + k - 1
    BY <1>3, <1>7
  <2>2. u[p + (k - 1)] = text[j + (k - 1)]
    BY <1>9, <2>1
  <2> QED
    BY <1>4, <2>1, <2>2
<1>11. j + w - 1 <= Len(text) /\ j \in Nat \ {0}
  BY <1>3, <1>7, <1>9
<1>12. IsAt(text, v, j)
  BY <1>1, <1>10, <1>11, IsAtMeans DEF w
<1> QED
  BY <1>9, <1>12

-----------------------------------------------------------------------------
(* The texts. *)

Fences == {LicenseFence, LicenseEnd, ManifestFence, ManifestEnd}

LEMMA FenceShapes ==
    /\ LicenseFence \in Seq(Words) /\ Len(LicenseFence) = 7
    /\ LicenseFence[1] = "<" /\ LicenseFence[2] = "<" /\ LicenseFence[3] = "<"
    /\ LicenseFence[4] = "L" /\ LicenseFence[5] = ">" /\ LicenseFence[6] = ">"
    /\ LicenseFence[7] = ">"
    /\ LicenseEnd \in Seq(Words) /\ Len(LicenseEnd) = 8
    /\ LicenseEnd[1] = "<" /\ LicenseEnd[2] = "<" /\ LicenseEnd[3] = "<"
    /\ LicenseEnd[4] = "E" /\ LicenseEnd[5] = "L" /\ LicenseEnd[6] = ">"
    /\ LicenseEnd[7] = ">" /\ LicenseEnd[8] = ">"
    /\ ManifestFence \in Seq(Words) /\ Len(ManifestFence) = 7
    /\ ManifestFence[1] = "<" /\ ManifestFence[2] = "<" /\ ManifestFence[3] = "<"
    /\ ManifestFence[4] = "M" /\ ManifestFence[5] = ">" /\ ManifestFence[6] = ">"
    /\ ManifestFence[7] = ">"
    /\ ManifestEnd \in Seq(Words) /\ Len(ManifestEnd) = 8
    /\ ManifestEnd[1] = "<" /\ ManifestEnd[2] = "<" /\ ManifestEnd[3] = "<"
    /\ ManifestEnd[4] = "E" /\ ManifestEnd[5] = "M" /\ ManifestEnd[6] = ">"
    /\ ManifestEnd[7] = ">" /\ ManifestEnd[8] = ">"
BY DEF LicenseFence, LicenseEnd, ManifestFence, ManifestEnd, Words

LEMMA FencesTyped ==
    ASSUME NEW v \in Fences
    PROVE  /\ v \in Seq(Words) /\ v \in Seq(Tokens)
           /\ Len(v) \in 7..8 /\ Len(v) \in Nat /\ Len(v) >= 1
           /\ v[3] = "<"
           /\ \A k \in 1..Len(v) : v[k] \notin {"LF", "x"}
           /\ \A k \in 4..Len(v) : v[k] # "<"
<1>1. v \in Seq(Words) /\ Len(v) \in 7..8 /\ v[3] = "<"
  BY FenceShapes DEF Fences
<1>2. v \in Seq(Tokens)
  BY <1>1, SeqMonotonic DEF Tokens
<1>3. ASSUME NEW k \in 1..Len(v)
      PROVE  v[k] \notin {"LF", "x"} /\ (k \in 4..Len(v) => v[k] # "<")
  <2> DEFINE w == Len(v)
  <2>1. k \in 1..3 \/ k = 4 \/ k = 5 \/ k = 6 \/ k = 7 \/ (k = 8 /\ w = 8)
    <3>1. w \in 7..8 /\ k \in 1..w
      BY <1>1
    <3> HIDE DEF w
    <3> QED
      BY <3>1
  <2>2. CASE k \in 1..3
    <3>1. k = 1 \/ k = 2 \/ k = 3
      BY <2>2
    <3>2. v[k] = "<"
      BY <3>1, FenceShapes DEF Fences
    <3> QED
      BY <2>2, <3>2
  <2>3. CASE v = LicenseFence \/ v = ManifestFence
    BY <2>1, <2>2, <2>3, FenceShapes
  <2>4. CASE v = LicenseEnd \/ v = ManifestEnd
    BY <2>1, <2>2, <2>4, FenceShapes
  <2> QED
    BY <2>3, <2>4 DEF Fences
<1> QED
  BY <1>1, <1>2, <1>3

\* No fence begins another.
LEMMA FencesArePrefixFree ==
    ASSUME NEW v \in Fences, NEW x \in Fences, Len(v) <= Len(x),
           \A k \in 1..Len(v) : v[k] = x[k]
    PROVE  v = x
<1> DEFINE w == Len(v)
<1>1. 4 \in 1..w /\ 5 \in 1..w
  <2>1. w \in 7..8
    BY FencesTyped
  <2> HIDE DEF w
  <2> QED
    BY <2>1
<1>2. v[4] = x[4] /\ v[5] = x[5]
  BY <1>1
<1> QED
  BY <1>2, FenceShapes DEF Fences

Lacks(text, v) == \A p \in Nat \ {0} : ~IsAt(text, v, p)

LEMMA ReplacedLacks ==
    ASSUME NEW text \in Seq(Tokens), NEW word \in Fences
    PROVE  /\ Replace(text, word) \in Seq(Tokens)
           /\ Lacks(Replace(text, word), word)
           /\ \A v \in Fences : Lacks(text, v) => Lacks(Replace(text, word), v)
<1>1. Replace(text, word) \in Seq(Tokens)
  BY FencesTyped, ReplaceKeeps DEF IsKept
<1>2. ASSUME NEW v \in Fences, NEW p \in Nat \ {0}, IsAt(Replace(text, word), v, p)
      PROVE  \E j \in 1..Len(text) : IsAt(text, v, j) /\ ~IsAt(text, word, j)
  <2>1. v \in Seq(Words) /\ Len(v) >= 1 /\ word \in Seq(Words) /\ Len(word) >= 1
    BY FencesTyped
  <2> QED
    BY <1>2, <2>1, ReplacedOccurrence
<1>3. \A j \in 1..Len(text) : j \in Nat \ {0}
  OBVIOUS
<1> QED
  BY <1>1, <1>2, <1>3 DEF Lacks

(* What _neutralise_fences leaves of a text of any length has no fence. *)
LEMMA NeutralText ==
    ASSUME NEW text \in Seq(Words)
    PROVE  /\ NeutraliseFences(text) \in Seq(Tokens)
           /\ \A v \in Fences : Lacks(NeutraliseFences(text), v)
<1> DEFINE one == Replace(text, LicenseFence)
           two == Replace(one, LicenseEnd)
           three == Replace(two, ManifestFence)
           four == Replace(three, ManifestEnd)
<1>1. text \in Seq(Tokens)
  BY SeqMonotonic DEF Tokens
<1>2. NeutraliseFences(text) = four
  BY DEF NeutraliseFences
<1>3. /\ LicenseFence \in Fences /\ LicenseEnd \in Fences
      /\ ManifestFence \in Fences /\ ManifestEnd \in Fences
  BY DEF Fences
<1>4. one \in Seq(Tokens) /\ Lacks(one, LicenseFence)
  BY <1>1, <1>3, ReplacedLacks
<1> HIDE DEF one
<1>5. two \in Seq(Tokens) /\ Lacks(two, LicenseFence) /\ Lacks(two, LicenseEnd)
  BY <1>3, <1>4, ReplacedLacks
<1> HIDE DEF two
<1>6. /\ three \in Seq(Tokens)
      /\ Lacks(three, LicenseFence) /\ Lacks(three, LicenseEnd) /\ Lacks(three, ManifestFence)
  BY <1>3, <1>5, ReplacedLacks
<1> HIDE DEF three
<1>7. /\ four \in Seq(Tokens)
      /\ Lacks(four, LicenseFence) /\ Lacks(four, LicenseEnd)
      /\ Lacks(four, ManifestFence) /\ Lacks(four, ManifestEnd)
  BY <1>3, <1>6, ReplacedLacks
<1> HIDE DEF four
<1> QED
  BY <1>2, <1>7 DEF Fences

-----------------------------------------------------------------------------
(* The prompt. *)

\* A text, and another after it.
IsJoin(z, x, y) ==
    /\ z \in Seq(Tokens)
    /\ Len(x) \in Nat /\ Len(y) \in Nat
    /\ Len(z) = Len(x) + Len(y)
    /\ \A k \in 1..Len(x) : z[k] = x[k]
    /\ \A k \in 1..Len(y) : z[Len(x) + k] = y[k]

LEMMA Joined ==
    ASSUME NEW x \in Seq(Tokens), NEW y \in Seq(Tokens)
    PROVE  IsJoin(x \o y, x, y)
<1> DEFINE m == Len(x)
           n == Len(y)
           z == x \o y
<1>1. m \in Nat /\ n \in Nat
  OBVIOUS
<1>2. /\ z \in Seq(Tokens) /\ Len(z) = m + n
      /\ \A i \in 1..m + n : z[i] = IF i <= m THEN x[i] ELSE y[i - m]
  BY ConcatProperties
<1> HIDE DEF m, n, z
<1>3. ASSUME NEW k \in 1..m
      PROVE  z[k] = x[k]
  BY <1>1, <1>2
<1>4. ASSUME NEW k \in 1..n
      PROVE  z[m + k] = y[k]
  <2>1. m + k \in 1..m + n /\ ~(m + k <= m) /\ (m + k) - m = k
    BY <1>1
  <2> QED
    BY <1>2, <2>1
<1> QED
  BY <1>1, <1>2, <1>3, <1>4 DEF m, n, z, IsJoin

\* A text between its fences.
IsBlock(u, fence, text, end) ==
    /\ u \in Seq(Tokens)
    /\ Len(u) = Len(fence) + Len(text) + Len(end) + 2
    /\ \A k \in 1..Len(fence) : u[k] = fence[k]
    /\ u[Len(fence) + 1] = "LF"
    /\ \A k \in 1..Len(text) : u[Len(fence) + 1 + k] = text[k]
    /\ u[Len(fence) + Len(text) + 2] = "LF"
    /\ \A k \in 1..Len(end) : u[Len(fence) + Len(text) + 2 + k] = end[k]

LEMMA BlockIs ==
    ASSUME NEW fence \in Seq(Tokens), NEW end \in Seq(Tokens), NEW text,
           NeutraliseFences(text) \in Seq(Tokens)
    PROVE  IsBlock(Block(fence, text, end), fence, NeutraliseFences(text), end)
<1> DEFINE m == NeutraliseFences(text)
           lf == <<"LF">>
           u1 == fence \o lf
           u2 == u1 \o m
           u3 == u2 \o lf
           u4 == u3 \o end
           f == Len(fence)
           n == Len(m)
<1>1. Block(fence, text, end) = u4
  BY DEF Block
<1>2. lf \in Seq(Tokens) /\ Len(lf) = 1 /\ lf[1] = "LF" /\ 1 \in 1..1
  BY DEF Tokens, Words
<1> HIDE DEF m, lf
<1>3. f \in Nat /\ n \in Nat
  BY DEF m
<1>4. /\ u1 \in Seq(Tokens) /\ Len(u1) = f + 1
      /\ \A k \in 1..f : u1[k] = fence[k]
      /\ u1[f + 1] = "LF"
  <2>1. IsJoin(u1, fence, lf)
    BY <1>2, Joined
  <2> HIDE DEF u1, f
  <2> QED
    BY <1>2, <2>1 DEF IsJoin, f
<1> HIDE DEF u1, f
<1>5. /\ u2 \in Seq(Tokens) /\ Len(u2) = f + 1 + n
      /\ \A k \in 1..f+1 : u2[k] = u1[k]
      /\ \A k \in 1..n : u2[f + 1 + k] = m[k]
  <2>1. IsJoin(u2, u1, m)
    BY <1>4, Joined DEF m
  <2> HIDE DEF u2, n
  <2> QED
    BY <1>4, <2>1 DEF IsJoin, n
<1> HIDE DEF u2, n
<1>6. /\ u3 \in Seq(Tokens) /\ Len(u3) = f + 1 + n + 1
      /\ \A k \in 1..f+1+n : u3[k] = u2[k]
      /\ u3[f + 1 + n + 1] = "LF"
  <2>1. IsJoin(u3, u2, lf)
    BY <1>2, <1>5, Joined
  <2> HIDE DEF u3
  <2> QED
    BY <1>2, <1>5, <2>1 DEF IsJoin
<1> HIDE DEF u3
<1>7. /\ u4 \in Seq(Tokens) /\ Len(u4) = f + 1 + n + 1 + Len(end) /\ Len(end) \in Nat
      /\ \A k \in 1..f+1+n+1 : u4[k] = u3[k]
      /\ \A k \in 1..Len(end) : u4[f + 1 + n + 1 + k] = end[k]
  <2>1. IsJoin(u4, u3, end)
    BY <1>6, Joined
  <2> HIDE DEF u4
  <2> QED
    BY <1>6, <2>1 DEF IsJoin
<1> HIDE DEF u4
<1>8. \A k \in 1..f : u4[k] = fence[k]
  <2> TAKE k \in 1..f
  <2>1. k \in 1..f+1 /\ k \in 1..f+1+n /\ k \in 1..f+1+n+1
    BY <1>3
  <2> QED
    BY <1>4, <1>5, <1>6, <1>7, <2>1
<1>9. u4[f + 1] = "LF"
  <2>1. f + 1 \in 1..f+1 /\ f + 1 \in 1..f+1+n /\ f + 1 \in 1..f+1+n+1
    BY <1>3
  <2> QED
    BY <1>4, <1>5, <1>6, <1>7, <2>1
<1>10. \A k \in 1..n : u4[f + 1 + k] = m[k]
  <2> TAKE k \in 1..n
  <2>1. f + 1 + k \in 1..f+1+n /\ f + 1 + k \in 1..f+1+n+1
    BY <1>3
  <2> QED
    BY <1>5, <1>6, <1>7, <2>1
<1>11. u4[f + n + 2] = "LF"
  <2>1. f + 1 + n + 1 \in 1..f+1+n+1 /\ f + 1 + n + 1 = f + n + 2
    BY <1>3
  <2> QED
    BY <1>6, <1>7, <2>1
<1>12. \A k \in 1..Len(end) : u4[f + n + 2 + k] = end[k]
  <2> TAKE k \in 1..Len(end)
  <2>1. f + 1 + n + 1 + k = f + n + 2 + k
    BY <1>3
  <2> QED
    BY <1>7, <2>1
<1>13. Len(u4) = f + n + Len(end) + 2
  BY <1>3, <1>7
<1>14. IsBlock(u4, fence, m, end)
  BY <1>7, <1>8, <1>9, <1>10, <1>11, <1>12, <1>13 DEF IsBlock, f, n
<1> QED
  BY <1>1, <1>14 DEF m

\* The evidence blocks, with texts a and b in them.
IsLayout(u, a, b) ==
    /\ Len(u) = Len(a) + Len(b) + 36
    /\ \A k \in 1..7 : u[k] = LicenseFence[k]
    /\ u[8] = "LF"
    /\ \A k \in 1..Len(a) : u[8 + k] = a[k]
    /\ u[Len(a) + 9] = "LF"
    /\ \A k \in 1..8 : u[Len(a) + 9 + k] = LicenseEnd[k]
    /\ u[Len(a) + 18] = "LF"
    /\ u[Len(a) + 19] = "LF"
    /\ \A k \in 1..7 : u[Len(a) + 19 + k] = ManifestFence[k]
    /\ u[Len(a) + 27] = "LF"
    /\ \A k \in 1..Len(b) : u[Len(a) + 27 + k] = b[k]
    /\ u[Len(a) + Len(b) + 28] = "LF"
    /\ \A k \in 1..8 : u[Len(a) + Len(b) + 28 + k] = ManifestEnd[k]

LEMMA EvidenceIsLayout ==
    ASSUME NEW e,
           NeutraliseFences(e.license) \in Seq(Tokens),
           NeutraliseFences(e.manifest) \in Seq(Tokens)
    PROVE  /\ EvidenceBlocks(e) \in Seq(Tokens)
           /\ IsLayout(EvidenceBlocks(e), NeutraliseFences(e.license),
                       NeutraliseFences(e.manifest))
<1> DEFINE a == NeutraliseFences(e.license)
           b == NeutraliseFences(e.manifest)
           x == Block(LicenseFence, e.license, LicenseEnd)
           y == Block(ManifestFence, e.manifest, ManifestEnd)
           gap == <<"LF", "LF">>
           z == x \o gap
           u == z \o y
           m == Len(a)
           n == Len(b)
<1>1. EvidenceBlocks(e) = u
  BY DEF EvidenceBlocks
<1>2. /\ LicenseFence \in Seq(Tokens) /\ Len(LicenseFence) = 7
      /\ LicenseEnd \in Seq(Tokens) /\ Len(LicenseEnd) = 8
      /\ ManifestFence \in Seq(Tokens) /\ Len(ManifestFence) = 7
      /\ ManifestEnd \in Seq(Tokens) /\ Len(ManifestEnd) = 8
  BY FencesTyped, FenceShapes DEF Fences
<1>3. IsBlock(x, LicenseFence, a, LicenseEnd) /\ IsBlock(y, ManifestFence, b, ManifestEnd)
  BY <1>2, BlockIs
<1>4. gap \in Seq(Tokens) /\ Len(gap) = 2 /\ gap[1] = "LF" /\ gap[2] = "LF"
  BY DEF Tokens, Words
<1>5. m \in Nat /\ n \in Nat
  OBVIOUS
<1> HIDE DEF a, b, x, y, gap, m, n
<1>6. /\ x \in Seq(Tokens) /\ Len(x) = m + 17
      /\ \A k \in 1..7 : x[k] = LicenseFence[k]
      /\ x[8] = "LF"
      /\ \A k \in 1..m : x[8 + k] = a[k]
      /\ x[m + 9] = "LF"
      /\ \A k \in 1..8 : x[m + 9 + k] = LicenseEnd[k]
  <2>1. 7 + m + 8 + 2 = m + 17 /\ 7 + m + 2 = m + 9 /\ 7 + 1 = 8
    BY <1>5
  <2> QED
    BY <1>2, <1>3, <2>1 DEF IsBlock, m
<1>7. /\ y \in Seq(Tokens) /\ Len(y) = n + 17
      /\ \A k \in 1..7 : y[k] = ManifestFence[k]
      /\ y[8] = "LF"
      /\ \A k \in 1..n : y[8 + k] = b[k]
      /\ y[n + 9] = "LF"
      /\ \A k \in 1..8 : y[n + 9 + k] = ManifestEnd[k]
  <2>1. 7 + n + 8 + 2 = n + 17 /\ 7 + n + 2 = n + 9 /\ 7 + 1 = 8
    BY <1>5
  <2> QED
    BY <1>2, <1>3, <2>1 DEF IsBlock, n
<1>8. /\ z \in Seq(Tokens) /\ Len(z) = m + 19
      /\ \A k \in 1..m+17 : z[k] = x[k]
      /\ z[m + 18] = "LF" /\ z[m + 19] = "LF"
  <2>1. IsJoin(z, x, gap)
    BY <1>4, <1>6, Joined
  <2>2. (m + 17) + 2 = m + 19 /\ (m + 17) + 1 = m + 18 /\ 1 \in 1..2 /\ 2 \in 1..2
    BY <1>5
  <2> HIDE DEF z
  <2>3. /\ z \in Seq(Tokens) /\ Len(z) = (m + 17) + 2
        /\ \A k \in 1..m+17 : z[k] = x[k]
        /\ \A k \in 1..2 : z[(m + 17) + k] = gap[k]
    BY <1>4, <1>6, <2>1, Zenon DEF IsJoin
  <2>4. z[(m + 17) + 1] = gap[1] /\ z[(m + 17) + 2] = gap[2]
    BY <2>2, <2>3
  <2> QED
    BY <1>4, <2>2, <2>3, <2>4
<1> HIDE DEF z
<1>9. /\ u \in Seq(Tokens) /\ Len(u) = m + 19 + (n + 17)
      /\ \A k \in 1..m+19 : u[k] = z[k]
      /\ \A k \in 1..n+17 : u[m + 19 + k] = y[k]
  <2>1. IsJoin(u, z, y)
    BY <1>7, <1>8, Joined
  <2> HIDE DEF u
  <2> QED
    BY <1>7, <1>8, <2>1, Zenon DEF IsJoin
<1> HIDE DEF u
<1>10. \A k \in 1..m+17 : u[k] = x[k]
  <2> TAKE k \in 1..m+17
  <2>1. k \in 1..m+19
    BY <1>5
  <2> QED
    BY <1>8, <1>9, <2>1
<1>11. /\ \A k \in 1..7 : u[k] = LicenseFence[k]
       /\ u[8] = "LF"
       /\ \A k \in 1..m : u[8 + k] = a[k]
       /\ u[m + 9] = "LF"
       /\ \A k \in 1..8 : u[m + 9 + k] = LicenseEnd[k]
  <2>1. /\ \A k \in 1..7 : k \in 1..m+17
        /\ 8 \in 1..m+17
        /\ \A k \in 1..m : 8 + k \in 1..m+17
        /\ m + 9 \in 1..m+17
        /\ \A k \in 1..8 : m + 9 + k \in 1..m+17
    BY <1>5
  <2> QED
    BY <1>6, <1>10, <2>1
<1>12. u[m + 18] = "LF" /\ u[m + 19] = "LF"
  <2>1. m + 18 \in 1..m+19 /\ m + 19 \in 1..m+19
    BY <1>5
  <2> QED
    BY <1>8, <1>9, <2>1
<1>13. \A k \in 1..7 : u[m + 19 + k] = ManifestFence[k]
  <2> TAKE k \in 1..7
  <2>1. k \in 1..n+17
    BY <1>5
  <2> QED
    BY <1>7, <1>9, <2>1
<1>14. u[m + 27] = "LF" /\ u[m + n + 28] = "LF"
  <2>1. 8 \in 1..n+17 /\ m + 19 + 8 = m + 27 /\ n + 9 \in 1..n+17 /\ m + 19 + (n + 9) = m + n + 28
    BY <1>5
  <2>2. u[m + 19 + 8] = y[8] /\ u[m + 19 + (n + 9)] = y[n + 9]
    BY <1>9, <2>1
  <2>3. u[m + 27] = y[8] /\ u[m + n + 28] = y[n + 9]
    BY <2>1, <2>2, Zenon
  <2> QED
    BY <1>7, <2>3
<1>15. \A k \in 1..n : u[m + 27 + k] = b[k]
  <2> TAKE k \in 1..n
  <2>1. 8 + k \in 1..n+17 /\ m + 19 + (8 + k) = m + 27 + k
    BY <1>5
  <2> QED
    BY <1>7, <1>9, <2>1
<1>16. \A k \in 1..8 : u[m + n + 28 + k] = ManifestEnd[k]
  <2> TAKE k \in 1..8
  <2>1. n + 9 + k \in 1..n+17 /\ m + 19 + (n + 9 + k) = m + n + 28 + k
    BY <1>5
  <2> QED
    BY <1>7, <1>9, <2>1
<1>17. Len(u) = m + n + 36
  BY <1>5, <1>9
<1>18. IsLayout(u, a, b)
  BY <1>11, <1>12, <1>13, <1>14, <1>15, <1>16, <1>17 DEF IsLayout, m, n
<1> QED
  BY <1>1, <1>9, <1>18 DEF a, b

StandsAt(u, x, c) == \A k \in 1..Len(x) : u[c + k - 1] = x[k]

StandsAfter(u, a, c) == \A k \in 1..Len(a) : u[c + k] = a[k]

\* An occurrence that lies within a fence of the prompt is that fence.
LEMMA WithinFence ==
    ASSUME NEW u, NEW v \in Fences, NEW x \in Fences, NEW i \in Nat \ {0}, NEW c \in Nat \ {0},
           StandsAt(u, v, i), StandsAt(u, x, c),
           c <= i, i + Len(v) <= c + Len(x)
    PROVE  i = c /\ v = x
<1> DEFINE w == Len(v)
           y == Len(x)
<1>1. w \in 7..8 /\ y \in 7..8 /\ v[3] = "<" /\ \A k \in 4..y : x[k] # "<"
  BY FencesTyped
<1>2. i + w <= c + y
  OBVIOUS
<1>3. \A k \in 1..w : u[i + k - 1] = v[k]
  BY DEF StandsAt
<1>4. \A k \in 1..y : u[c + k - 1] = x[k]
  BY DEF StandsAt
<1> HIDE DEF w, y
<1>5. i = c
  <2> SUFFICES ASSUME i # c
               PROVE  FALSE
    OBVIOUS
  <2>1. /\ i - c + 3 \in 4..y /\ i - c + 3 \in 1..y /\ 3 \in 1..w
        /\ c + (i - c + 3) - 1 = i + 3 - 1
    BY <1>1, <1>2
  <2>2. u[i + 3 - 1] = v[3] /\ u[i + 3 - 1] = x[i - c + 3]
    BY <1>3, <1>4, <2>1
  <2> QED
    BY <1>1, <2>1, <2>2
<1>6. w <= y /\ \A k \in 1..w : v[k] = x[k]
  <2>1. w <= y /\ \A k \in 1..w : k \in 1..y
    BY <1>1, <1>2, <1>5
  <2> QED
    BY <1>3, <1>4, <1>5, <2>1
<1>7. v = x
  BY <1>6, FencesArePrefixFree DEF w, y
<1> QED
  BY <1>5, <1>7

\* No occurrence of a fence lies within a text that lacks it.
LEMMA WithinText ==
    ASSUME NEW u, NEW v \in Fences, NEW a \in Seq(Tokens), NEW i \in Nat, NEW c \in Nat,
           StandsAt(u, v, i), StandsAfter(u, a, c),
           c < i, i + Len(v) - 1 <= c + Len(a)
    PROVE  ~Lacks(a, v)
<1> DEFINE w == Len(v)
           m == Len(a)
           p == i - c
<1>1. v \in Seq(Tokens) /\ w \in 7..8 /\ m \in Nat
  BY FencesTyped
<1>2. i + w - 1 <= c + m
  OBVIOUS
<1>3. \A k \in 1..w : u[i + k - 1] = v[k]
  BY DEF StandsAt
<1>4. \A k \in 1..m : u[c + k] = a[k]
  BY DEF StandsAfter
<1> HIDE DEF w, m
<1>5. p \in Nat \ {0} /\ p + w - 1 <= m
  BY <1>1, <1>2
<1>6. ASSUME NEW k \in 1..w
      PROVE  a[p + k - 1] = v[k]
  <2>1. p + k - 1 \in 1..m /\ c + (p + k - 1) = i + k - 1
    BY <1>1, <1>2
  <2> QED
    BY <1>3, <1>4, <2>1
<1> HIDE DEF p
<1>7. IsAt(a, v, p)
  BY <1>1, <1>5, <1>6, IsAtMeans DEF w, m
<1> QED
  BY <1>5, <1>7 DEF Lacks

\* What stands in the evidence blocks where a fence is.
LEMMA FencePlaces ==
    ASSUME NEW u \in Seq(Tokens), NEW a \in Seq(Tokens), NEW b \in Seq(Tokens),
           IsLayout(u, a, b),
           \A v \in Fences : Lacks(a, v) /\ Lacks(b, v),
           NEW v \in Fences, NEW i \in Nat \ {0}, IsAt(u, v, i)
    PROVE  \/ i = 1 /\ v = LicenseFence
           \/ i = Len(a) + 10 /\ v = LicenseEnd
           \/ i = Len(a) + 20 /\ v = ManifestFence
           \/ i = Len(a) + Len(b) + 29 /\ v = ManifestEnd
<1> DEFINE m == Len(a)
           n == Len(b)
           w == Len(v)
           last == i + w - 1
<1>1. m \in Nat /\ n \in Nat /\ w \in 7..8 /\ v \in Seq(Tokens)
  BY FencesTyped
<1>2. /\ last <= Len(u) /\ StandsAt(u, v, i)
      /\ \A k \in 1..w : u[i + k - 1] = v[k]
  BY <1>1, IsAtMeans DEF StandsAt
<1>3. ASSUME NEW x \in Int, u[x] = "LF"
      PROVE  x < i \/ x > last
  <2> SUFFICES ASSUME i <= x, x <= last
               PROVE  FALSE
    BY <1>1
  <2>1. \A k \in 1..w : v[k] # "LF"
    <3>1. \A k \in 1..Len(v) : v[k] \notin {"LF", "x"}
      BY FencesTyped
    <3> QED
      BY <3>1
  <2> HIDE DEF w
  <2>2. x - i + 1 \in 1..w /\ i + (x - i + 1) - 1 = x
    BY <1>1
  <2> QED
    BY <1>2, <1>3, <2>1, <2>2
<1>4. /\ Len(u) = m + n + 36
      /\ u[8] = "LF" /\ u[m + 9] = "LF" /\ u[m + 18] = "LF" /\ u[m + 19] = "LF"
      /\ u[m + 27] = "LF" /\ u[m + n + 28] = "LF"
  BY DEF IsLayout
<1>5. StandsAfter(u, a, 8) /\ StandsAfter(u, b, m + 27)
  BY DEF IsLayout, StandsAfter
<1>6. /\ StandsAt(u, LicenseFence, 1) /\ StandsAt(u, LicenseEnd, m + 10)
      /\ StandsAt(u, ManifestFence, m + 20) /\ StandsAt(u, ManifestEnd, m + n + 29)
  <2>1. \A k \in 1..8 : /\ 1 + k - 1 = k /\ m + 10 + k - 1 = m + 9 + k
                        /\ m + 20 + k - 1 = m + 19 + k /\ m + n + 29 + k - 1 = m + n + 28 + k
    BY <1>1
  <2>2. \A k \in 1..7 : k \in 1..8
    OBVIOUS
  <2>3. /\ \A k \in 1..7 : u[k] = LicenseFence[k]
        /\ \A k \in 1..8 : u[m + 9 + k] = LicenseEnd[k]
        /\ \A k \in 1..7 : u[m + 19 + k] = ManifestFence[k]
        /\ \A k \in 1..8 : u[m + n + 28 + k] = ManifestEnd[k]
    BY DEF IsLayout
  <2>4. Len(LicenseFence) = 7 /\ Len(LicenseEnd) = 8 /\ Len(ManifestFence) = 7 /\ Len(ManifestEnd) = 8
    BY FenceShapes
  <2> HIDE DEF m, n
  <2> QED
    BY <2>1, <2>2, <2>3, <2>4 DEF StandsAt
<1>7. /\ LicenseFence \in Fences /\ LicenseEnd \in Fences
      /\ ManifestFence \in Fences /\ ManifestEnd \in Fences
      /\ Len(LicenseFence) = 7 /\ Len(LicenseEnd) = 8
      /\ Len(ManifestFence) = 7 /\ Len(ManifestEnd) = 8
  BY FenceShapes DEF Fences
<1>8. \/ last <= 7
      \/ 8 < i /\ last <= 8 + m
      \/ m + 10 <= i /\ last <= m + 17
      \/ m + 20 <= i /\ last <= m + 26
      \/ m + 27 < i /\ last <= m + 27 + n
      \/ m + n + 29 <= i /\ last <= m + n + 36
  <2> DEFINE Beside(x) == x < i \/ x > last
  <2>1. /\ Beside(8) /\ Beside(m + 9) /\ Beside(m + 18) /\ Beside(m + 19)
        /\ Beside(m + 27) /\ Beside(m + n + 28)
    <3>1. 8 \in Int /\ m + 9 \in Int /\ m + 18 \in Int /\ m + 19 \in Int /\ m + 27 \in Int /\ m + n + 28 \in Int
      BY <1>1
    <3> HIDE DEF m, n, last
    <3> QED
      BY <1>3, <1>4, <3>1
  <2>2. last <= m + n + 36
    BY <1>2, <1>4
  <2>3. last >= i /\ last >= i + 2 /\ last \in Int
    <3> HIDE DEF w
    <3> QED
      BY <1>1
  <2> HIDE DEF m, n, last
  <2> QED
    BY <1>1, <2>1, <2>2, <2>3
<1>9. CASE last <= 7
  <2>1. 1 <= i /\ i + w <= 1 + Len(LicenseFence) /\ 1 \in Nat \ {0}
    <3> HIDE DEF w
    <3> QED
      BY <1>1, <1>7, <1>9
  <2> QED
    BY <1>2, <1>6, <1>7, <2>1, WithinFence
<1>10. CASE 8 < i /\ last <= 8 + m
  <2>1. 8 \in Nat /\ 8 < i /\ i + Len(v) - 1 <= 8 + Len(a)
    BY <1>10
  <2>2. ~Lacks(a, v)
    BY <1>2, <1>5, <2>1, WithinText
  <2> QED
    BY <2>2
<1>11. CASE m + 10 <= i /\ last <= m + 17
  <2>1. m + 10 \in Nat \ {0} /\ i + w <= (m + 10) + Len(LicenseEnd)
    <3> HIDE DEF w, m
    <3> QED
      BY <1>1, <1>7, <1>11
  <2> DEFINE c == m + 10
  <2>2. c \in Nat \ {0} /\ c <= i /\ i + w <= c + Len(LicenseEnd) /\ StandsAt(u, LicenseEnd, c)
    BY <1>6, <1>11, <2>1
  <2> HIDE DEF c
  <2>3. i = c /\ v = LicenseEnd
    BY <1>2, <1>7, <2>2, WithinFence
  <2> QED
    BY <2>3 DEF c
<1>12. CASE m + 20 <= i /\ last <= m + 26
  <2>1. m + 20 \in Nat \ {0} /\ i + w <= (m + 20) + Len(ManifestFence)
    <3> HIDE DEF w, m
    <3> QED
      BY <1>1, <1>7, <1>12
  <2> DEFINE c == m + 20
  <2>2. c \in Nat \ {0} /\ c <= i /\ i + w <= c + Len(ManifestFence) /\ StandsAt(u, ManifestFence, c)
    BY <1>6, <1>12, <2>1
  <2> HIDE DEF c
  <2>3. i = c /\ v = ManifestFence
    BY <1>2, <1>7, <2>2, WithinFence
  <2> QED
    BY <2>3 DEF c
<1>13. CASE m + 27 < i /\ last <= m + 27 + n
  <2> DEFINE c == m + 27
  <2>1. c \in Nat /\ c < i /\ i + Len(v) - 1 <= c + Len(b) /\ StandsAfter(u, b, c)
    BY <1>1, <1>5, <1>13
  <2> HIDE DEF c
  <2>2. ~Lacks(b, v)
    BY <1>2, <2>1, WithinText
  <2> QED
    BY <2>2
<1>14. CASE m + n + 29 <= i /\ last <= m + n + 36
  <2>1. m + n + 29 \in Nat \ {0} /\ i + w <= (m + n + 29) + Len(ManifestEnd)
    <3> HIDE DEF w, m, n
    <3> QED
      BY <1>1, <1>7, <1>14
  <2> DEFINE c == m + n + 29
  <2>2. c \in Nat \ {0} /\ c <= i /\ i + w <= c + Len(ManifestEnd) /\ StandsAt(u, ManifestEnd, c)
    BY <1>6, <1>14, <2>1
  <2> HIDE DEF c
  <2>3. i = c /\ v = ManifestEnd
    BY <1>2, <1>7, <2>2, WithinFence
  <2> QED
    BY <2>3 DEF c
<1> QED
  BY <1>8, <1>9, <1>10, <1>11, <1>12, <1>13, <1>14

\* The fences of the evidence blocks, at their places.
LEMMA FencesStand ==
    ASSUME NEW u \in Seq(Tokens), NEW a \in Seq(Tokens), NEW b \in Seq(Tokens),
           IsLayout(u, a, b)
    PROVE  /\ IsAt(u, LicenseFence, 1)
           /\ IsAt(u, LicenseEnd, Len(a) + 10)
           /\ IsAt(u, ManifestFence, Len(a) + 20)
           /\ IsAt(u, ManifestEnd, Len(a) + Len(b) + 29)
<1> DEFINE m == Len(a)
           n == Len(b)
<1>1. m \in Nat /\ n \in Nat
  OBVIOUS
<1>2. /\ LicenseFence \in Seq(Tokens) /\ Len(LicenseFence) = 7
      /\ LicenseEnd \in Seq(Tokens) /\ Len(LicenseEnd) = 8
      /\ ManifestFence \in Seq(Tokens) /\ Len(ManifestFence) = 7
      /\ ManifestEnd \in Seq(Tokens) /\ Len(ManifestEnd) = 8
  BY FencesTyped, FenceShapes DEF Fences
<1>3. /\ Len(u) = m + n + 36
      /\ \A k \in 1..7 : u[k] = LicenseFence[k]
      /\ \A k \in 1..8 : u[m + 9 + k] = LicenseEnd[k]
      /\ \A k \in 1..7 : u[m + 19 + k] = ManifestFence[k]
      /\ \A k \in 1..8 : u[m + n + 28 + k] = ManifestEnd[k]
  BY DEF IsLayout
<1> HIDE DEF m, n
<1>4. \A k \in 1..8 : /\ 1 + k - 1 = k /\ (m + 10) + k - 1 = m + 9 + k
                      /\ (m + 20) + k - 1 = m + 19 + k
                      /\ (m + n + 29) + k - 1 = m + n + 28 + k
  BY <1>1
<1>5. \A k \in 1..7 : k \in 1..8
  OBVIOUS
<1>6. /\ 1 \in Nat \ {0} /\ m + 10 \in Nat \ {0} /\ m + 20 \in Nat \ {0} /\ m + n + 29 \in Nat \ {0}
      /\ 1 + 7 - 1 <= m + n + 36 /\ (m + 10) + 8 - 1 <= m + n + 36
      /\ (m + 20) + 7 - 1 <= m + n + 36 /\ (m + n + 29) + 8 - 1 <= m + n + 36
  BY <1>1
<1>7. IsAt(u, LicenseFence, 1)
  <2> DEFINE c == 1
  <2>1. c \in Nat \ {0} /\ c + 7 - 1 <= Len(u)
    BY <1>3, <1>6
  <2>2. ASSUME NEW k \in 1..7
        PROVE  u[c + k - 1] = LicenseFence[k]
    <3>1. u[k] = LicenseFence[k] /\ c + k - 1 = k
      BY <1>3, <1>4, <1>5
    <3> QED
      BY <3>1, Zenon
  <2> HIDE DEF c
  <2>3. IsAt(u, LicenseFence, c)
    BY <1>2, <2>1, <2>2, IsAtMeans
  <2> QED
    BY <2>3 DEF c
<1>8. IsAt(u, LicenseEnd, m + 10)
  <2> DEFINE c == m + 10
  <2>1. c \in Nat \ {0} /\ c + 8 - 1 <= Len(u)
    <3>1. Len(u) = m + n + 36
      BY <1>3
    <3> QED
      BY <1>6, <3>1
  <2>2. ASSUME NEW k \in 1..8
        PROVE  u[c + k - 1] = LicenseEnd[k]
    <3>1. u[m + 9 + k] = LicenseEnd[k] /\ c + k - 1 = m + 9 + k
      BY <1>3, <1>4
    <3> QED
      BY <3>1, Zenon
  <2> HIDE DEF c
  <2>3. IsAt(u, LicenseEnd, c)
    BY <1>2, <2>1, <2>2, IsAtMeans
  <2> QED
    BY <2>3 DEF c
<1>9. IsAt(u, ManifestFence, m + 20)
  <2> DEFINE c == m + 20
  <2>1. c \in Nat \ {0} /\ c + 7 - 1 <= Len(u)
    <3>1. Len(u) = m + n + 36
      BY <1>3
    <3> QED
      BY <1>6, <3>1
  <2>2. ASSUME NEW k \in 1..7
        PROVE  u[c + k - 1] = ManifestFence[k]
    <3>1. u[m + 19 + k] = ManifestFence[k] /\ c + k - 1 = m + 19 + k
      BY <1>3, <1>4, <1>5
    <3> QED
      BY <3>1, Zenon
  <2> HIDE DEF c
  <2>3. IsAt(u, ManifestFence, c)
    BY <1>2, <2>1, <2>2, IsAtMeans
  <2> QED
    BY <2>3 DEF c
<1>10. IsAt(u, ManifestEnd, m + n + 29)
  <2> DEFINE c == m + n + 29
  <2>1. c \in Nat \ {0} /\ c + 8 - 1 <= Len(u)
    <3>1. Len(u) = m + n + 36
      BY <1>3
    <3> QED
      BY <1>6, <3>1
  <2>2. ASSUME NEW k \in 1..8
        PROVE  u[c + k - 1] = ManifestEnd[k]
    <3>1. u[m + n + 28 + k] = ManifestEnd[k] /\ c + k - 1 = m + n + 28 + k
      BY <1>3, <1>4
    <3> QED
      BY <3>1, Zenon
  <2> HIDE DEF c
  <2>3. IsAt(u, ManifestEnd, c)
    BY <1>2, <2>1, <2>2, IsAtMeans
  <2> QED
    BY <2>3 DEF c
<1> QED
  BY <1>7, <1>8, <1>9, <1>10 DEF m, n

-----------------------------------------------------------------------------
(* The declared package in front of the evidence. *)

\* No fence crosses a seam that has a line feed or an "x" at it.
LEMMA Seam ==
    ASSUME NEW x \in Seq(Tokens), NEW y \in Seq(Tokens), NEW z, IsJoin(z, x, y),
           NEW v \in Fences, NEW p \in Nat \ {0}, IsAt(z, v, p),
           \/ Len(x) >= 1 /\ x[Len(x)] \in {"LF", "x"}
           \/ Len(y) >= 1 /\ y[1] \in {"LF", "x"}
    PROVE  IsAt(x, v, p) \/ (p > Len(x) /\ IsAt(y, v, p - Len(x)))
<1> DEFINE m == Len(x)
           n == Len(y)
           w == Len(v)
<1>1. m \in Nat /\ n \in Nat /\ w \in 7..8 /\ v \in Seq(Tokens) /\ z \in Seq(Tokens)
  BY FencesTyped DEF IsJoin
<1>2. p + w - 1 <= m + n /\ \A k \in 1..w : z[p + k - 1] = v[k]
  <2>1. p + w - 1 <= Len(z) /\ \A k \in 1..w : z[p + k - 1] = v[k]
    BY <1>1, IsAtMeans
  <2>2. Len(z) = m + n
    BY DEF IsJoin
  <2> HIDE DEF m, n, w
  <2> QED
    BY <2>1, <2>2
<1>3. (\A k \in 1..m : z[k] = x[k]) /\ (\A k \in 1..n : z[m + k] = y[k])
  BY DEF IsJoin
<1>4. \A k \in 1..w : v[k] \notin {"LF", "x"}
  BY FencesTyped
<1>5. \/ m >= 1 /\ x[m] \in {"LF", "x"}
      \/ n >= 1 /\ y[1] \in {"LF", "x"}
  OBVIOUS
<1> HIDE DEF m, n, w
<1>6. CASE p + w - 1 <= m
  <2>1. ASSUME NEW k \in 1..w
        PROVE  x[p + k - 1] = v[k]
    <3>1. p + k - 1 \in 1..m
      BY <1>1, <1>6
    <3> QED
      BY <1>2, <1>3, <3>1
  <2>2. IsAt(x, v, p)
    BY <1>1, <1>6, <2>1, IsAtMeans DEF m, w
  <2> QED
    BY <2>2
<1>7. CASE p > m
  <2> DEFINE q == p - m
  <2>1. q \in Nat \ {0} /\ q + w - 1 <= n
    BY <1>1, <1>2, <1>7
  <2>2. ASSUME NEW k \in 1..w
        PROVE  y[q + k - 1] = v[k]
    <3>1. q + k - 1 \in 1..n /\ m + (q + k - 1) = p + k - 1
      BY <1>1, <2>1
    <3>2. z[m + (q + k - 1)] = y[q + k - 1]
      BY <1>3, <3>1
    <3> QED
      BY <1>2, <3>1, <3>2
  <2> HIDE DEF q
  <2>3. IsAt(y, v, q)
    BY <1>1, <2>1, <2>2, IsAtMeans DEF n, w
  <2> QED
    BY <1>7, <2>3 DEF q, m
<1>8. CASE p <= m /\ p + w - 1 > m
  <2>1. /\ m - p + 1 \in 1..w /\ m - p + 2 \in 1..w /\ m \in 1..m
        /\ p + (m - p + 1) - 1 = m /\ p + (m - p + 2) - 1 = m + 1
    BY <1>1, <1>8
  <2>2. z[m] = v[m - p + 1] /\ z[m + 1] = v[m - p + 2]
    BY <1>2, <2>1
  <2>3. z[m] = x[m] /\ (n >= 1 => z[m + 1] = y[1])
    <3>1. n >= 1 => 1 \in 1..n
      BY <1>1
    <3> QED
      BY <1>3, <2>1, <3>1
  <2> QED
    BY <1>4, <1>5, <2>1, <2>2, <2>3
<1> QED
  BY <1>1, <1>6, <1>7, <1>8

\* Behind a text, everything stands later by its length.
LEMMA Shifted ==
    ASSUME NEW x \in Seq(Tokens), NEW y \in Seq(Tokens), NEW z, IsJoin(z, x, y),
           NEW v \in Seq(Tokens), NEW q \in Nat \ {0}, IsAt(y, v, q)
    PROVE  IsAt(z, v, Len(x) + q)
<1> DEFINE m == Len(x)
           n == Len(y)
           w == Len(v)
           p == m + q
<1>1. m \in Nat /\ n \in Nat /\ w \in Nat /\ z \in Seq(Tokens) /\ Len(z) = m + n
  BY DEF IsJoin
<1>2. q + w - 1 <= n /\ \A k \in 1..w : y[q + k - 1] = v[k]
  BY IsAtMeans
<1>3. \A k \in 1..n : z[m + k] = y[k]
  BY DEF IsJoin
<1> HIDE DEF m, n, w
<1>4. ASSUME NEW k \in 1..w
      PROVE  z[p + k - 1] = v[k]
  <2>1. k \in Nat /\ k >= 1 /\ k <= w /\ q \in Nat /\ q >= 1 /\ q + w - 1 <= n
    BY <1>1, <1>2
  <2>2. q + k - 1 \in 1..n /\ m + (q + k - 1) = p + k - 1
    BY <1>1, <2>1
  <2>3. z[m + (q + k - 1)] = y[q + k - 1]
    BY <1>3, <2>2
  <2> QED
    BY <1>2, <2>2, <2>3
<1>5. p \in Nat \ {0} /\ p + w - 1 <= Len(z)
  BY <1>1, <1>2
<1> HIDE DEF p
<1>6. IsAt(z, v, p)
  BY <1>1, <1>4, <1>5, IsAtMeans DEF w
<1> QED
  BY <1>6 DEF p, m

\* A text that begins with a line feed makes no fence with the text before it.
LEMMA LacksBoth ==
    ASSUME NEW x \in Seq(Tokens), NEW y \in Seq(Tokens), Len(y) >= 1, y[1] = "LF",
           NEW v \in Fences, Lacks(x, v), Lacks(y, v)
    PROVE  Lacks(x \o y, v)
<1>1. IsJoin(x \o y, x, y)
  BY Joined
<1> SUFFICES ASSUME NEW p \in Nat \ {0}, IsAt(x \o y, v, p)
             PROVE  FALSE
  BY DEF Lacks
<1>2. IsAt(x, v, p) \/ (p > Len(x) /\ IsAt(y, v, p - Len(x)))
  BY <1>1, Seam
<1>3. p > Len(x) => p - Len(x) \in Nat \ {0}
  <2> DEFINE m == Len(x)
  <2>1. m \in Nat
    OBVIOUS
  <2> HIDE DEF m
  <2>2. p > m => p - m \in Nat \ {0}
    BY <2>1
  <2> QED
    BY <2>2 DEF m
<1> QED
  BY <1>2, <1>3 DEF Lacks

\* A text that is shorter than every fence has none.
LEMMA ShortLacks ==
    ASSUME NEW x \in Seq(Tokens), Len(x) < 7, NEW v \in Fences
    PROVE  Lacks(x, v)
<1> SUFFICES ASSUME NEW p \in Nat \ {0}, IsAt(x, v, p)
             PROVE  FALSE
  BY DEF Lacks
<1> DEFINE m == Len(x)
           w == Len(v)
<1>1. v \in Seq(Tokens) /\ w \in 7..8
  BY FencesTyped
<1>2. p + w - 1 <= m /\ m \in Nat /\ m < 7
  BY <1>1, IsAtMeans
<1> HIDE DEF m, w
<1> QED
  BY <1>1, <1>2

LEMMA FieldIs ==
    ASSUME NEW text \in Seq(Tokens)
    PROVE  /\ Field(text) \in Seq(Tokens)
           /\ Len(Field(text)) >= 1 /\ Field(text)[1] = "LF"
           /\ \A v \in Fences : Lacks(text, v) => Lacks(Field(text), v)
<1> DEFINE x == <<"LF", "x">>
           z == Field(text)
<1>1. x \in Seq(Tokens) /\ Len(x) = 2 /\ x[1] = "LF" /\ x[2] = "x"
  BY DEF Tokens, Words
<1>2. z = x \o text
  BY DEF Field
<1> HIDE DEF x, z
<1>3. IsJoin(z, x, text)
  BY <1>1, <1>2, Joined
<1>4. z \in Seq(Tokens) /\ Len(z) >= 1 /\ z[1] = "LF"
  <2>1. Len(z) = 2 + Len(text) /\ Len(text) \in Nat /\ \A k \in 1..2 : z[k] = x[k]
    BY <1>1, <1>3 DEF IsJoin
  <2> QED
    BY <1>1, <1>3, <2>1 DEF IsJoin
<1>5. ASSUME NEW v \in Fences, Lacks(text, v), NEW p \in Nat \ {0}, IsAt(z, v, p)
      PROVE  FALSE
  <2>1. Len(x) >= 1 /\ x[Len(x)] \in {"LF", "x"}
    BY <1>1
  <2>2. IsAt(x, v, p) \/ (p > Len(x) /\ IsAt(text, v, p - Len(x)))
    BY <1>1, <1>3, <1>5, <2>1, Seam
  <2>3. ~IsAt(x, v, p)
    <3>1. Len(x) < 7
      BY <1>1
    <3>2. Lacks(x, v)
      BY <1>1, <3>1, ShortLacks
    <3> QED
      BY <3>2 DEF Lacks
  <2>4. p > Len(x) => p - Len(x) \in Nat \ {0}
    BY <1>1
  <2> QED
    BY <1>5, <2>2, <2>3, <2>4 DEF Lacks
<1> QED
  BY <1>4, <1>5 DEF Lacks, z

(* The declared package ends in a line feed, and has no fence that none of *)
(* its references has.                                                     *)
LEMMA DeclaredIs ==
    ASSUME NEW e, DeclaredReferences(e) \subseteq Seq(Tokens)
    PROVE  /\ Declared(e) \in Seq(Tokens)
           /\ Len(Declared(e)) >= 1 /\ Declared(e)[Len(Declared(e))] = "LF"
           /\ \A v \in Fences :
                (\A text \in DeclaredReferences(e) : Lacks(text, v)) =>
                    Lacks(Declared(e), v)
<1> DEFINE d == e.dataset_reference
           l == e.license_reference
           g == e.provenance_reference
           x0 == <<"x">>
           x1 == x0 \o Field(d)
           x2 == x1 \o Field(l)
           x3 == x2 \o Field(g)
           y == <<"LF", "x", "LF", "LF">>
           h == x3 \o y
<1>1. Declared(e) = h
  BY DEF Declared
<1>2. /\ d \in Seq(Tokens) /\ l \in Seq(Tokens) /\ g \in Seq(Tokens)
      /\ DeclaredReferences(e) = {d, l, g}
  BY DEF DeclaredReferences
<1>3. /\ x0 \in Seq(Tokens) /\ Len(x0) < 7
      /\ y \in Seq(Tokens) /\ Len(y) = 4 /\ Len(y) < 7 /\ y[1] = "LF" /\ y[4] = "LF"
  BY DEF Tokens, Words
<1> HIDE DEF d, l, g, x0, y
<1>4. x1 \in Seq(Tokens)
  BY <1>2, <1>3, FieldIs, Joined DEF IsJoin
<1> HIDE DEF x1
<1>5. x2 \in Seq(Tokens)
  BY <1>2, <1>4, FieldIs, Joined DEF IsJoin
<1> HIDE DEF x2
<1>6. x3 \in Seq(Tokens)
  BY <1>2, <1>5, FieldIs, Joined DEF IsJoin
<1> HIDE DEF x3
<1>7. IsJoin(h, x3, y)
  BY <1>3, <1>6, Joined
<1>8. h \in Seq(Tokens) /\ Len(h) >= 1 /\ h[Len(h)] = "LF"
  <2> HIDE DEF h
  <2> DEFINE c == Len(x3)
  <2>1. c \in Nat /\ h \in Seq(Tokens) /\ Len(h) = c + 4 /\ \A k \in 1..4 : h[c + k] = y[k]
    BY <1>3, <1>7 DEF IsJoin
  <2> HIDE DEF c
  <2>2. 4 \in 1..4 /\ c + 4 >= 1
    BY <2>1
  <2> QED
    BY <1>3, <2>1, <2>2
<1>9. ASSUME NEW v \in Fences, \A text \in DeclaredReferences(e) : Lacks(text, v)
      PROVE  Lacks(h, v)
  <2>1. Lacks(x0, v) /\ Lacks(y, v)
    BY <1>3, ShortLacks
  <2>2. Lacks(d, v) /\ Lacks(l, v) /\ Lacks(g, v)
    BY <1>2, <1>9
  <2>3. Lacks(x1, v)
    BY <1>2, <1>3, <2>1, <2>2, FieldIs, LacksBoth DEF x1
  <2>4. Lacks(x2, v)
    BY <1>2, <1>4, <2>2, <2>3, FieldIs, LacksBoth DEF x2
  <2>5. Lacks(x3, v)
    BY <1>2, <1>5, <2>2, <2>4, FieldIs, LacksBoth DEF x3
  <2>6. Len(y) >= 1
    BY <1>3
  <2> QED
    BY <1>3, <1>6, <2>1, <2>5, <2>6, LacksBoth
<1> HIDE DEF h
<1> QED
  BY <1>1, <1>8, <1>9

\* A fence that stands once in the blocks stands once behind the declared
\* package, and before that only where a reference has it.
LEMMA OneFence ==
    ASSUME NEW u \in Seq(Tokens), NEW h \in Seq(Tokens), IsJoin(prompt, h, u),
           Len(h) >= 1, h[Len(h)] = "LF",
           NEW v \in Fences, NEW q \in Nat \ {0}, IsAt(u, v, q),
           \A i \in Nat \ {0} : IsAt(u, v, i) => i = q
    PROVE  /\ {i \in Places(v) : i > Len(h)} = {Len(h) + q}
           /\ (\E i \in Places(v) : i <= Len(h)) => ~Lacks(h, v)
<1> DEFINE m == Len(h)
           n == Len(u)
           w == Len(v)
<1>1. /\ m \in Nat /\ n \in Nat /\ w \in 7..8 /\ v \in Seq(Tokens)
      /\ prompt \in Seq(Tokens) /\ Len(prompt) = m + n
  BY FencesTyped DEF IsJoin
<1>2. IsAt(prompt, v, m + q)
  BY <1>1, Shifted
<1>3. DOMAIN prompt = 1..m + n
  BY <1>1, LenProperties
<1>4. m + q \in DOMAIN prompt /\ m + q > m
  <2>1. (m + q) + w - 1 <= m + n
    BY <1>1, <1>2 DEF IsAt
  <2> HIDE DEF m, n, w
  <2> QED
    BY <1>1, <1>3, <2>1
<1>5. ASSUME NEW i \in Places(v)
      PROVE  \/ i > m /\ i = m + q
             \/ i <= m /\ ~Lacks(h, v)
  <2>1. i \in Nat \ {0} /\ IsAt(prompt, v, i)
    BY <1>3 DEF Places
  <2>2. IsAt(h, v, i) \/ (i > m /\ IsAt(u, v, i - m))
    BY <2>1, Seam
  <2>3. CASE IsAt(h, v, i)
    <3>1. i + w - 1 <= m
      BY <2>3 DEF IsAt
    <3>2. i <= m
      <4> HIDE DEF m, w
      <4> QED
        BY <1>1, <2>1, <3>1
    <3> QED
      BY <2>1, <2>3, <3>2 DEF Lacks
  <2>4. CASE i > m /\ IsAt(u, v, i - m)
    <3>1. i - m \in Nat \ {0} /\ (i - m = q => i = m + q)
      <4> HIDE DEF m
      <4> QED
        BY <1>1, <2>1, <2>4
    <3> QED
      BY <2>4, <3>1
  <2> QED
    BY <2>2, <2>3, <2>4
<1>6. \A i \in Places(v) : ~(i > m /\ i <= m)
  <2>1. \A i \in Places(v) : i \in Int
    BY <1>3 DEF Places
  <2> HIDE DEF m
  <2> QED
    BY <1>1, <2>1
<1>7. m + q \in Places(v)
  BY <1>2, <1>4 DEF Places
<1> HIDE DEF m, n, w
<1>8. {i \in Places(v) : i > m} = {m + q}
  BY <1>4, <1>5, <1>6, <1>7
<1>9. (\E i \in Places(v) : i <= m) => ~Lacks(h, v)
  BY <1>5, <1>6
<1> QED
  BY <1>8, <1>9 DEF m

LEMMA HeldByReference ==
    ASSUME NEW e, DeclaredReferences(e) \subseteq Seq(Tokens),
           NEW v \in Fences, ~Lacks(Declared(e), v)
    PROVE  IsInReference(v, e)
<1>1. PICK text \in DeclaredReferences(e) : ~Lacks(text, v)
  BY DeclaredIs
<1>2. PICK p \in Nat \ {0} : IsAt(text, v, p)
  BY <1>1 DEF Lacks
<1>3. p \in DOMAIN text
  <2> DEFINE m == Len(text)
             w == Len(v)
  <2>1. text \in Seq(Tokens) /\ v \in Seq(Tokens) /\ w \in 7..8
    BY FencesTyped
  <2>2. p + w - 1 <= m
    BY <1>2, <2>1, IsAtMeans
  <2>3. m \in Nat /\ DOMAIN text = 1..m
    BY <2>1, LenProperties
  <2> HIDE DEF m, w
  <2> QED
    BY <2>1, <2>2, <2>3
<1> QED
  BY <1>2, <1>3 DEF IsInReference

PromptInv ==
    /\ evidence \in Evidence
    /\ prompt # << >> => prompt = BuildPrompt(evidence)

(* However long the license, the provenance manifest and the references    *)
(* are, and whatever they hold, the prompt that _build_prompt makes of     *)
(* them has each of the four fences once behind the declared package, in   *)
(* its place, and in front of that only inside a reference.                *)
THEOREM FencesAreExactCorrect == PromptSpec => []FencesAreExact
<1>1. PromptInit => PromptInv
  BY DEF PromptInit, PromptInv
<1>2. PromptInv /\ [Build]_promptVars => PromptInv'
  BY DEF PromptInv, Build, promptVars
<1>3. PromptInv => FencesAreExact
  <2> SUFFICES ASSUME PromptInv, prompt # << >>
               PROVE  FencesAreExact
    BY DEF FencesAreExact
  <2> DEFINE a == NeutraliseFences(evidence.license)
             b == NeutraliseFences(evidence.manifest)
             h == Declared(evidence)
             u == EvidenceBlocks(evidence)
             m == Len(a)
             n == Len(b)
             front == Len(h)
             IsOnce(v, place) ==
               /\ {i \in Places(v) : i > front} = {place}
               /\ (\E i \in Places(v) : i <= front) => IsInReference(v, evidence)
  <2>1. evidence.license \in Seq(Words) /\ evidence.manifest \in Seq(Words)
    BY EvidenceAssumption DEF PromptInv
  <2>2. DeclaredReferences(evidence) \subseteq Seq(Tokens)
    <3>1. DeclaredReferences(evidence) \subseteq Seq(Words \ {"LF"})
      BY EvidenceAssumption DEF PromptInv
    <3>2. (Words \ {"LF"}) \subseteq Tokens
      BY DEF Tokens
    <3> QED
      BY <3>1, <3>2, SeqMonotonic
  <2>3. /\ a \in Seq(Tokens) /\ b \in Seq(Tokens)
        /\ \A v \in Fences : Lacks(a, v) /\ Lacks(b, v)
    BY <2>1, NeutralText
  <2>4. u \in Seq(Tokens) /\ IsLayout(u, a, b)
    BY <2>3, EvidenceIsLayout
  <2>5. h \in Seq(Tokens) /\ Len(h) >= 1 /\ h[Len(h)] = "LF"
    BY <2>2, DeclaredIs
  <2>6. prompt = h \o u
    BY DEF PromptInv, BuildPrompt
  <2>7. IsJoin(prompt, h, u)
    BY <2>4, <2>5, <2>6, Joined
  <2>8. /\ m \in Nat /\ n \in Nat /\ front \in Nat
        /\ Len(prompt) = front + (m + n + 36)
    <3>1. m \in Nat /\ n \in Nat
      BY <2>3
    <3>2. Len(u) = Len(a) + Len(b) + 36
      BY <2>4, Zenon DEF IsLayout
    <3>3. Len(prompt) = Len(h) + Len(u) /\ Len(h) \in Nat
      BY <2>7 DEF IsJoin
    <3> QED
      BY <3>1, <3>2, <3>3
  <2>9. FencesAreExact <=>
          /\ IsOnce(LicenseFence, front + 1)
          /\ IsOnce(LicenseEnd, front + (Len(LicenseFence) + m + 3))
          /\ IsOnce(ManifestFence,
                    front + ((Len(LicenseFence) + m + 3) + Len(LicenseEnd) + 2))
          /\ IsOnce(ManifestEnd, Len(prompt) - Len(ManifestEnd) + 1)
    BY DEF FencesAreExact
  <2> HIDE DEF a, b, u
  <2>10. ASSUME NEW v \in Fences, NEW q \in Nat \ {0}, IsAt(u, v, q),
                \A i \in Nat \ {0} : IsAt(u, v, i) => i = q
         PROVE  IsOnce(v, front + q)
    <3>1. /\ {i \in Places(v) : i > front} = {front + q}
          /\ (\E i \in Places(v) : i <= front) => ~Lacks(h, v)
      BY <2>4, <2>5, <2>7, <2>10, OneFence
    <3>2. ~Lacks(h, v) => IsInReference(v, evidence)
      BY <2>2, HeldByReference
    <3> QED
      BY <3>1, <3>2
  <2> HIDE DEF IsOnce
  <2>11. /\ IsAt(u, LicenseFence, 1) /\ IsAt(u, LicenseEnd, m + 10)
         /\ IsAt(u, ManifestFence, m + 20) /\ IsAt(u, ManifestEnd, m + n + 29)
    BY <2>3, <2>4, FencesStand
  <2>12. \A v \in Fences : \A i \in Nat \ {0} : IsAt(u, v, i) =>
          \/ i = 1 /\ v = LicenseFence
          \/ i = m + 10 /\ v = LicenseEnd
          \/ i = m + 20 /\ v = ManifestFence
          \/ i = m + n + 29 /\ v = ManifestEnd
    BY <2>3, <2>4, FencePlaces
  <2> HIDE DEF m, n, h, front
  <2>13. /\ LicenseFence # LicenseEnd /\ LicenseFence # ManifestFence
         /\ LicenseFence # ManifestEnd /\ LicenseEnd # ManifestFence
         /\ LicenseEnd # ManifestEnd /\ ManifestFence # ManifestEnd
    BY FenceShapes
  <2>14. /\ LicenseFence \in Fences /\ LicenseEnd \in Fences
         /\ ManifestFence \in Fences /\ ManifestEnd \in Fences
    BY DEF Fences
  <2>15. /\ 1 \in Nat \ {0} /\ m + 10 \in Nat \ {0}
         /\ m + 20 \in Nat \ {0} /\ m + n + 29 \in Nat \ {0}
    BY <2>8
  <2>16. /\ IsOnce(LicenseFence, front + 1)
         /\ IsOnce(LicenseEnd, front + (m + 10))
         /\ IsOnce(ManifestFence, front + (m + 20))
         /\ IsOnce(ManifestEnd, front + (m + n + 29))
    <3>1. IsOnce(LicenseFence, front + 1)
      <4> DEFINE q == 1
      <4>1. \A i \in Nat \ {0} : IsAt(u, LicenseFence, i) => i = q
        BY <2>12, <2>13, <2>14
      <4>2. q \in Nat \ {0} /\ IsAt(u, LicenseFence, q)
        BY <2>11, <2>15
      <4> HIDE DEF q
      <4>3. IsOnce(LicenseFence, front + q)
        BY <2>10, <2>14, <4>1, <4>2
      <4> QED
        BY <4>3 DEF q
    <3>2. IsOnce(LicenseEnd, front + (m + 10))
      <4> DEFINE q == m + 10
      <4>1. \A i \in Nat \ {0} : IsAt(u, LicenseEnd, i) => i = q
        BY <2>12, <2>13, <2>14
      <4>2. q \in Nat \ {0} /\ IsAt(u, LicenseEnd, q)
        BY <2>11, <2>15
      <4> HIDE DEF q
      <4>3. IsOnce(LicenseEnd, front + q)
        BY <2>10, <2>14, <4>1, <4>2
      <4> QED
        BY <4>3 DEF q
    <3>3. IsOnce(ManifestFence, front + (m + 20))
      <4> DEFINE q == m + 20
      <4>1. \A i \in Nat \ {0} : IsAt(u, ManifestFence, i) => i = q
        BY <2>12, <2>13, <2>14
      <4>2. q \in Nat \ {0} /\ IsAt(u, ManifestFence, q)
        BY <2>11, <2>15
      <4> HIDE DEF q
      <4>3. IsOnce(ManifestFence, front + q)
        BY <2>10, <2>14, <4>1, <4>2
      <4> QED
        BY <4>3 DEF q
    <3>4. IsOnce(ManifestEnd, front + (m + n + 29))
      <4> DEFINE q == m + n + 29
      <4>1. \A i \in Nat \ {0} : IsAt(u, ManifestEnd, i) => i = q
        BY <2>12, <2>13, <2>14
      <4>2. q \in Nat \ {0} /\ IsAt(u, ManifestEnd, q)
        BY <2>11, <2>15
      <4> HIDE DEF q
      <4>3. IsOnce(ManifestEnd, front + q)
        BY <2>10, <2>14, <4>1, <4>2
      <4> QED
        BY <4>3 DEF q
    <3> QED
      BY <3>1, <3>2, <3>3, <3>4
  <2>17. /\ Len(LicenseFence) + m + 3 = m + 10
         /\ (Len(LicenseFence) + m + 3) + Len(LicenseEnd) + 2 = m + 20
         /\ Len(prompt) - Len(ManifestEnd) + 1 = front + (m + n + 29)
    BY <2>8, FenceShapes
  <2> QED
    BY <2>9, <2>16, <2>17, Zenon
<1> QED
  BY <1>1, <1>2, <1>3, PTL DEF PromptSpec
=============================================================================
