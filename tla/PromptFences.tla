------------------------------ MODULE PromptFences ------------------------------
(***************************************************************************)
(* The prompt: the declared package, and behind it the texts of the        *)
(* license and of the provenance manifest between fences, with fences      *)
(* inside the two texts replaced (_neutralise_fences, _build_prompt).      *)
(* PackageEvaluation knows of the prompt only whether it fits.             *)
(*                                                                         *)
(* A text is a sequence of characters and of the words fences are made of: *)
(*   "<" ">"   the characters, of which a fence has three in a row         *)
(*   "E"       END_                                                        *)
(*   "L" "M"   DATASETBOND_LICENSE and DATASETBOND_MANIFEST                *)
(*   "LF"      a line feed                                                 *)
(*   "x"       any other character                                         *)
(*   "[...]"   the words put in place of a fence, which have none of the   *)
(*             above but "x"                                               *)
(* Of the declared package only the three references may hold a "<"; the   *)
(* instructions and the other fields are lines of "x".                     *)
(***************************************************************************)
EXTENDS Sequences, Integers

CONSTANTS Evidence      \* the texts and references that packages commit to

Words == {"<", ">", "E", "L", "M", "LF", "x"}

DeclaredReferences(e) == {e.dataset_reference, e.license_reference, e.provenance_reference}

\* A reference has no blank in it.
ASSUME EvidenceAssumption ==
    \A e \in Evidence :
        /\ e.license \in Seq(Words) /\ e.manifest \in Seq(Words)
        /\ DeclaredReferences(e) \subseteq Seq(Words \ {"LF"})

VARIABLES evidence, prompt

promptVars == <<evidence, prompt>>

-----------------------------------------------------------------------------
LicenseFence  == <<"<", "<", "<", "L", ">", ">", ">">>
LicenseEnd    == <<"<", "<", "<", "E", "L", ">", ">", ">">>
ManifestFence == <<"<", "<", "<", "M", ">", ">", ">">>
ManifestEnd   == <<"<", "<", "<", "E", "M", ">", ">", ">">>

IsAt(text, word, i) ==
    /\ i + Len(word) - 1 <= Len(text)
    /\ SubSeq(text, i, i + Len(word) - 1) = word

\* Mutant: the word is cut out, and what stood around it joins.
Cut(text, word) ==
    LET from[i \in 1..Len(text) + 1] ==
            IF i > Len(text) THEN << >>
            ELSE IF IsAt(text, word, i) THEN from[i + Len(word)]
            ELSE <<text[i]>> \o from[i + 1]
    IN  from[1]

\* str.replace: every occurrence, left to right, without looking back.
Replace(text, word) ==
    LET from[i \in 1..Len(text) + 1] ==
            IF i > Len(text) THEN << >>
            ELSE IF IsAt(text, word, i) THEN <<"[...]">> \o from[i + Len(word)]
            ELSE <<text[i]>> \o from[i + 1]
    IN  from[1]

\* One fence after another, each in what the one before has left.
NeutraliseFences(text) ==
    LET without_license == Replace(Replace(text, LicenseFence), LicenseEnd)
    IN  Replace(Replace(without_license, ManifestFence), ManifestEnd)

Block(fence, text, end) == fence \o <<"LF">> \o NeutraliseFences(text) \o <<"LF">> \o end

\* The line of a reference; nothing is replaced in it.
Field(text) == <<"LF", "x">> \o text

\* From the first instruction to the criteria of the profile.
Declared(e) ==
    <<"x">>
      \o Field(e.dataset_reference)
      \o Field(e.license_reference)
      \o Field(e.provenance_reference)
      \o <<"LF", "x", "LF", "LF">>

EvidenceBlocks(e) ==
    Block(LicenseFence, e.license, LicenseEnd)
      \o <<"LF", "LF">>
      \o Block(ManifestFence, e.manifest, ManifestEnd)

BuildPrompt(e) == Declared(e) \o EvidenceBlocks(e)

-----------------------------------------------------------------------------
PromptInit == evidence \in Evidence /\ prompt = << >>

Build ==
    /\ prompt = << >>
    /\ prompt' = BuildPrompt(evidence)
    /\ UNCHANGED evidence

PromptSpec == PromptInit /\ [][Build]_promptVars

-----------------------------------------------------------------------------
Places(word) == {i \in DOMAIN prompt : IsAt(prompt, word, i)}

\* The word is part of a reference of the package.
IsInReference(word, e) ==
    \E text \in DeclaredReferences(e) : \E i \in DOMAIN text : IsAt(text, word, i)

(* The model is shown exactly one license and one manifest behind the      *)
(* declared package: there each fence stands once, in its place, so        *)
(* neither what a text holds, nor what replacing leaves of it, nor a seam  *)
(* makes another.  In front of it a fence stands only inside a reference,  *)
(* which may hold one: no reference makes a fence with what surrounds it.  *)
FencesAreExact ==
    prompt # << >> =>
        LET front == Len(Declared(evidence))
            license_end == Len(LicenseFence) + Len(NeutraliseFences(evidence.license)) + 3
            manifest == license_end + Len(LicenseEnd) + 2
            Stands(fence, place) ==
                LET places == Places(fence) IN
                /\ {i \in places : i > front} = {place}
                /\ (\E i \in places : i <= front) => IsInReference(fence, evidence)
        IN  /\ Stands(LicenseFence, front + 1)
            /\ Stands(LicenseEnd, front + license_end)
            /\ Stands(ManifestFence, front + manifest)
            /\ Stands(ManifestEnd, Len(prompt) - Len(ManifestEnd) + 1)
=============================================================================
