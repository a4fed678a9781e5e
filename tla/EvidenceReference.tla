--------------------------- MODULE EvidenceReference ---------------------------
(***************************************************************************)
(* Which URLs a package may commit to: _validate_https_locator and         *)
(* _is_immutable_reference in the contract, and validate_reference in the  *)
(* fixture validator, which checks the published package before anyone     *)
(* submits it.                                                             *)
(*                                                                         *)
(* A reference is a blemish and the sequence of its segments, the text     *)
(* after https:// cut at every "/".  The first segment is the authority.   *)
(* Segments stand for classes:                                             *)
(*   "raw" "github" "arweave"   the three authorities the code knows       *)
(*   "cid.ipfs" "name.ipfs"     authorities with .ipfs. after a CID, or    *)
(*                              after something shorter                    *)
(*   "user@host" ""             credentials, and nothing                   *)
(*   "commit" "txid" "cid"      40 hexadecimal, 43 and 46 characters       *)
(*   "blob" "ipfs"              themselves ("blob" also for "raw")         *)
(*   anything else              a name                                     *)
(* Authorities are compared as they are spelled: "github.com:443" is a     *)
(* name.                                                                   *)
(***************************************************************************)
EXTENDS Sequences, Integers

CONSTANTS References      \* the references callers pass

Blemishes ==
    {"none", "not_text", "too_long", "control", "not_https", "whitespace", "query"}

ASSUME ReferencesAssumption ==
    \A ref \in References :
        /\ ref.blemish \in Blemishes
        /\ ref.segments \in Seq(STRING) \ {<< >>}

VARIABLES reference, verdicts

referenceVars == <<reference, verdicts>>

-----------------------------------------------------------------------------
Authority(ref) == ref.segments[1]

\* reference.startswith("https://" + host + "/")
IsUnder(host, ref) == Authority(ref) = host /\ Len(ref.segments) > 1

\* The segments after "https://host/".
Parts(ref) == Tail(ref.segments)

\* Mutant: a file at the root of a repository has too few parts.
IsDeepGithubPinned(ref) ==
    \/ /\ IsUnder("raw", ref)
       /\ Len(Parts(ref)) > 4
       /\ Parts(ref)[3] = "commit"
       /\ Parts(ref)[4] # ""
    \/ /\ IsUnder("github", ref)
       /\ Len(Parts(ref)) > 5
       /\ Parts(ref)[3] = "blob"
       /\ Parts(ref)[4] = "commit"
       /\ Parts(ref)[5] # ""

IsGithubPinned(ref) ==
    \/ /\ IsUnder("raw", ref)
       /\ Len(Parts(ref)) >= 4
       /\ Parts(ref)[3] = "commit"
       /\ Parts(ref)[4] # ""
    \/ /\ IsUnder("github", ref)
       /\ Len(Parts(ref)) >= 5
       /\ Parts(ref)[3] = "blob"
       /\ Parts(ref)[4] = "commit"
       /\ Parts(ref)[5] # ""

IsArweavePinned(ref) == IsUnder("arweave", ref) /\ Parts(ref) = <<"txid">>

\* The places of "/ipfs/" in the reference; the authority may be one of them.
IpfsPlaces(ref) == {i \in 1..Len(ref.segments) - 1 : ref.segments[i] = "ipfs"}

\* reference.split("/ipfs/", 1): what follows the first place is a CID.
IsIpfsPathPinned(ref) ==
    \E i \in IpfsPlaces(ref) :
        /\ \A j \in IpfsPlaces(ref) : i <= j
        /\ i > 1
        /\ ref.segments[i + 1] = "cid"

IsKnownHost(ref) == \E host \in {"raw", "github", "arweave"} : IsUnder(host, ref)

\* Mutant: a known host that does not match is tried as an IPFS gateway.
IsPinnedSomehow(ref) ==
    \/ IsGithubPinned(ref)
    \/ IsArweavePinned(ref)
    \/ IsIpfsPathPinned(ref)
    \/ IpfsPlaces(ref) = {} /\ Authority(ref) = "cid.ipfs"

\* Each branch of the code returns: no later one is tried.
IsImmutableReference(ref) ==
    IF IsKnownHost(ref) THEN IsGithubPinned(ref) \/ IsArweavePinned(ref)
    ELSE IF IpfsPlaces(ref) # {} THEN IsIpfsPathPinned(ref)
    ELSE Authority(ref) = "cid.ipfs"

ValidateHttpsLocator(ref) ==
    /\ ref.blemish = "none"
    /\ Authority(ref) \notin {"", "user@host"}

ValidateReference(ref) == ValidateHttpsLocator(ref) /\ IsImmutableReference(ref)

\* Mutant: the commit is looked for where github.com has it.
IsRawBlobReference(ref) ==
    /\ IsUnder("raw", ref)
    /\ Len(Parts(ref)) >= 4
    /\ Parts(ref)[1] # "" /\ Parts(ref)[2] # ""
    /\ Parts(ref)[4] = "commit"

\* RAW_COMMIT_REFERENCE: at least one character after the commit.
IsRawCommitReference(ref) ==
    /\ IsUnder("raw", ref)
    /\ Len(Parts(ref)) >= 4
    /\ Parts(ref)[1] # "" /\ Parts(ref)[2] # ""
    /\ Parts(ref)[3] = "commit"
    /\ Len(Parts(ref)) > 4 \/ Parts(ref)[4] # ""

\* The validator's own check, which looks for no control characters.
FixtureReferencePasses(ref) ==
    ref.blemish \in {"none", "control"} /\ IsRawCommitReference(ref)

-----------------------------------------------------------------------------
ReferenceInit ==
    /\ reference \in References
    /\ verdicts = [fixture |-> "unchecked", contract |-> "unchecked"]

\* The publisher runs the validator on the package.
CheckFixture ==
    /\ verdicts.fixture = "unchecked"
    /\ verdicts' = [verdicts EXCEPT !.fixture =
                     IF FixtureReferencePasses(reference) THEN "pass" ELSE "fail"]
    /\ UNCHANGED reference

\* register_dataset checks the reference.
Register ==
    /\ verdicts.contract = "unchecked"
    /\ verdicts' = [verdicts EXCEPT !.contract =
                     IF ValidateReference(reference) THEN "accepted" ELSE "refused"]
    /\ UNCHANGED reference

ReferenceNext == CheckFixture \/ Register

ReferenceSpec == ReferenceInit /\ [][ReferenceNext]_referenceVars

-----------------------------------------------------------------------------
(* On the three hosts that the code knows, no accepted reference follows a *)
(* branch or a tag: the commit or the transaction stands where the host    *)
(* looks for the revision, whatever else the path holds, CIDs included.    *)
(* Of any other authority the code asks only for a CID behind "/ipfs/" or  *)
(* in the name: what that host makes of the path is not known to it.       *)
KnownHostsArePinned ==
    verdicts.contract = "accepted" =>
        LET seg == reference.segments
            IsAt(i, what) == i \in DOMAIN seg /\ seg[i] = what
        IN  /\ seg[1] = "raw" => IsAt(4, "commit")
            /\ seg[1] = "github" => IsAt(4, "blob") /\ IsAt(5, "commit")
            /\ seg[1] = "arweave" => IsAt(2, "txid") /\ Len(seg) = 2

(* A reference the fixture validator passes is one register_dataset        *)
(* accepts, but for two spellings: "//" after the commit, and control      *)
(* characters.                                                             *)
PassedIsAccepted ==
    verdicts.fixture = "pass" /\ verdicts.contract = "refused" =>
        reference.blemish = "control" \/ reference.segments[5] = ""

(* The documented forms are all accepted: a file of a commit on either     *)
(* GitHub host, an Arweave transaction, and a CID in a gateway's path or   *)
(* its name.                                                               *)
DocumentedFormIsAccepted ==
    verdicts.contract = "refused" /\ reference.blemish = "none" =>
        LET seg == reference.segments IN
        ~ \/ \E file \in {"name", "blob"} :
               seg \in {<<"raw", "name", "name", "commit", file>>,
                        <<"github", "name", "name", "blob", "commit", file>>}
          \/ seg = <<"arweave", "txid">>
          \/ \E file \in {"name", "blob"} :
               seg \in {<<"name", "ipfs", "cid">>, <<"name", "ipfs", "cid", file>>,
                        <<"cid.ipfs", file>>}
          \/ seg = <<"cid.ipfs">>
=============================================================================
