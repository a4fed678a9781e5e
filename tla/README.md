# A verification project for DatasetBond

DatasetBond (`contracts/datasetbond.py`, one GenLayer contract of 1,500 lines) registers evidence
packages about datasets, has validators certify them, and keeps the certificates. This directory
models the contract in TLA+, checks it with TLC on small instances, and proves its main properties
with TLAPS for every value of the constants. Line numbers below are lines of
`contracts/datasetbond.py` unless another file is named.

## 1. The system

### Components

| Component | State it keeps | Operations | What makes it correct |
|---|---|---|---|
| Trust root and issuer registry (1112-1221) | `trust_root`, `issuer_keys`, `issuer_key_ids` | `register_issuer_key`, `revoke_issuer_key`, `rotate_issuer_key` | the key history is append-only, rotations are chains inside one issuer, a retired key never comes back |
| Inline signed manifest (438-635) | none; its fields are stored in the certificate | `_parse_inline_manifest` at registration, `_stored_manifest` and `_authenticate_stored_manifest` at certification | what is authenticated is what was registered; the failures come in a fixed order |
| Package evaluation (410-435, 638-1055) | none | `_fetch_verified`, `_manifest_is_linked`, the model, `_validate_consensus_result` | every honest result is accepted by the validator of results |
| Consensus round (1352-1409) | the evaluations in progress, the votes | `leader_fn`, `validator_fn`, `gl.vm.run_nondet` | what is written is an honest evaluation; a round ends; honest nodes of an unchanging world agree |
| Certificate life cycle (1223-1462) | `certificates`, `certificate_ids`, `used_nonces` | `register_dataset`, `certify_dataset`, `revoke_certificate` | verdicts are final, authentic, one per nonce, and everything stored beside them agrees |
| Views (1464-1494) | none | `get_*` | they show the lists above |
| Field validation, references, timestamps (195-313, 385-402) | none | `_validate_*`, `_is_immutable_reference`, `_transaction_timestamp` | exact recognisers |
| secp256k1 (315-382) | none | `_verify_secp256k1_sha256` | only the key holder's signature verifies |
| Consumer gate and call builders (`examples/integration.py`) | what a client has read | `accept_certificate`; `registration_call`, `demonstration_calls` build calls | accepts only what the contract certified, and refuses none of it |
| Fixture validator (`tools/validate_inline_fixture.py`) | the objects fetched so far | `fetch_exact`, `validate_*`, `main` | what it passes, the contract can evaluate; it always ends |
| Other tools (`tools/`), compact contract, tests, documents | files | one-shot scripts | out of scope, see section 8 |

### How they interact

`register_dataset` parses the manifest and stores its fields; it makes no request and looks at no
key, so a dataset may name a key that does not exist yet. `certify_dataset` reads the certificate,
the key's record and whether the nonce is used (1320-1350), hands these values to the leader and to
every validator, and writes what the round agreed on (1411-1445). The registry and the certificates
share nothing but these reads. A client reads certificates through the views, keeps them, and puts
them to `accept_certificate` when it likes. A publisher runs the fixture validator on a package before
submitting it; the validator repeats the contract's checks in code of its own. Each node fetches the
three sources for itself and asks the model for itself; hosts and model may answer two nodes differently.

### What is hard here

* Storage is read before the round and written after it, and nothing is checked again in between.
  The clock moves during the round; the evaluation is dated by the time of the read.
* Several datasets may carry the same signed nonce, and only a verdict consumes it: an
  `INCONCLUSIVE` evaluation is retried with the same nonce, up to 100 times.
* Keys are revoked and rotated around certifications, in any order.
* Record, levels, times, attempt count and nonce ledger are written together (1411-1445) and must go on
  agreeing through retries, failed rounds and revocations.
* Hosts fail and change between the requests of one node and those of another; a leader may raise,
  lie or return nonsense.
* Clients act on what they read earlier, and nothing tells them that the contract has gone on.
* Checks are written twice, once in the contract and once, some of them more loosely, in the fixture
  validator; a field has a length limit and a pattern; a time difference has a day and a second.
* Five free-standing status words are combined by rules written twice: once where results are made
  (`_evaluate_package`), once where they are accepted (`_validate_consensus_result`).

PROJECT.json lists these and the smaller ones as hazards, each at its line, with the properties that
would catch it.

## 2. The modules

```
 DatasetBondSchema          identifiers, status words, packages, results
   |-- SignedManifest       manifests, parsing, rebuilding, authentication
   |     |-- PackageEvaluation     fetching, judging, validating a result
   |     |     |-- CertificationRound      leader, validators, hosts, votes
   |     |     |-- FixtureValidator        + ProvenanceManifest: the publisher's gate
   |-- IssuerRegistry       trust root and keys, a running clock
         |-- DatasetBond    IssuerRegistry + PackageEvaluation + certificates
               |-- DatasetBondRefinement -> CertificateLifecycle (abstract)
               |-- CertifiedRounds         DatasetBond with CertificationRound inside -> DatasetBond
               |-- ConsumerGate            clients, views, accept_certificate
 on their own   TransactionTimestamp  Secp256k1  FieldValidation  EvidenceReference  PromptFences
 proofs   IssuerRegistryProofs  DatasetBondProofs  RefinementProofs  RoundProofs  ConsumerProofs
          FixtureProofs  TextProofs (fields, references, prompt)  ArithmeticProofs (clock, verifier)
 TLC      MCManifests (shared values), MCHelpers (the five modules on their own, in one instance),
          and MC<module> for each other module that is run
```

**DatasetBondSchema** has the code's status words and the shape of values. One *package* stands for
the three reference and digest pairs. Since a digest commits to bytes, a package says what those
bytes are like (their size against the limit, whether they decode, for which publisher the provenance
manifest passes `_manifest_is_linked`, whether the prompt fits), and a host that serves the right
bytes serves `"committed"`.

**SignedManifest** keeps the text of a manifest as an encoding and an object. SHA-256 is an injective
constructor. A signature records its signer and the object it covers, and verifies under exactly that
signer and object (`VerifySecp256k1Sha256`). The spelling of `manifest_version` is kept, because the
code compares it with Python's `==`. `AuthenticateStoredManifest` is the chain of early returns of
572-635 in the code's order. `Snapshots` are the values that `certify_dataset` reads at 1320-1350.

**PackageEvaluation** is `_evaluate_package` as a function of a snapshot, of what the sources serve and
of what the model answers, and `ValidConsensusResult`, the predicate of `_validate_consensus_result`.

**IssuerRegistry** has one action per administrative call, with a conjunct per check that raises: a
call that raises reverts. `now` is the datetime of the transaction; `Tick` lets it pass.

**DatasetBond** composes all of the contract's writing calls:

| Action | Code |
|---|---|
| `SubmitDataset` | `register_dataset`, 1224-1315 (`RegisterDataset`), when no other call runs |
| `CertifyBegin` | `certify_dataset` to `run_nondet`, 1318-1350: `in_flight` is the snapshot handed to the nodes |
| `CertifyCommit` | the same call after `run_nondet`, 1407-1446, all its writes in one step |
| `ConsensusFails` | `run_nondet` raises, or its result is refused (1408-1409): nothing is written |
| `RevokeCertificate` | `revoke_certificate`, 1449-1462 |
| `AdministerRegistry` | the three administrative calls |
| `TimePasses` | a later datetime, at any moment |

`certification_record` is a sequence of at most one record; the four levels and the verdict of a
certificate are its field `result`.

**CertificationRound** opens up the step between `CertifyBegin` and its end. Every honest node makes its
three requests one at a time, in the code's order, while `HostChanges` changes what hosts serve. The
leader proposes; a validator that gets no valid proposal returns `False` without fetching
(`ValidatorRefuses`, 1377-1381); otherwise it evaluates for itself and compares
(`ValidatorCompares`, 1382-1404). Faulty nodes do as they like.

**CertificateLifecycle** is the abstract promise: phases, attempts and spent nonces, without keys, time,
evidence or rounds. **DatasetBondRefinement** maps the contract to it: keep a certificate's status,
nonce and attempts, and the domain of `used_nonces`.

**CertifiedRounds** runs `certify_dataset` as it happens: `BeginRound` reads storage, the actions of
CertificationRound work on the running snapshot (`INSTANCE ... WITH snapshot <- RoundSnapshot`), and
`EndRound` writes what the round wrote, or nothing. Everything else of the contract is `OtherStep`. It
implements `DatasetBond`, whose calls are simply given an honest result or a failure.

**ConsumerGate** adds clients to the contract. `ListCertificates` and `ReadCertificate` copy what a view
returns; `Decide` puts the copy to `AcceptCertificate` (integration.py 110-122) at any later time. The
client's profile is a constant, and its copy carries the time of the read.

**ProvenanceManifest** takes the provenance manifest apart, with the contract's check (638-691) and
the validator's (validate_inline_fixture.py 175-206) side by side. **FixtureValidator** is `main` of the
validator, one request at a time: `FetchFallsBack` is the second client, `node`, that is tried when the
first raises, and `FetchEscapes` the exceptions that neither `fetch_exact` nor `main` catches. Names, the
profile and each reference of a package stand for their class, by what the two sides make of them: the
validator bounds a name to 256 characters (241-244) where the contract wants its pattern, and takes any
profile. `Certify` then registers the same package, whatever the report was, with the contract's own checks
of the arguments (`FieldsAreAccepted`) and the definitions of SignedManifest, and evaluates it, if it was
registered, with those of PackageEvaluation. One clock stands for the validator's and the chain's.

**EvidenceReference** cuts a URL into segments and follows the branches of `_is_immutable_reference`,
each of which returns, and the validator's own pattern. **FieldValidation** has texts as sequences of
character classes, the length check of `_require_text`, and a `$` that also matches before a final line
feed (`BeforeDollar`). **TransactionTimestamp** reads an instant off a wall clock with an offset and a
fraction, and turns it into seconds as 396-399 do, day and second apart. **Secp256k1** is the verifier,
one turn of the multiplication loop a step, over the curve y^2 = x^3 + 7 of any field.
**PromptFences** is the prompt: the declared package (744-773), whose three references are put in as they
are, and behind it the license and the provenance manifest between fences, with `str.replace` applied four
times to each in the code's order. Its texts are sequences of the characters `<` and `>`, the three words that
fences are made of, line feeds and any other character: a fence has three of each bracket, and a text may have
one too many. Of the declared package only a reference may hold a `<` (258-269 forbid blanks, `?`, `#` and
credentials; the other fields are identifiers, digests, numbers or constants).

Definitions whose comment begins with `Mutant:` are deliberately wrong variants of the definition that
follows them. They are used by no specification. Put in its place, each breaks a property that the
run then reports, which shows that the property depends on that line of the code.

## 3. Assumptions about what is outside the contract

* **Transactions are serial.** GenVM runs the writing transactions of one contract one after another:
  no other writing call starts while a certification is in flight (`NoCallInFlight`). The contract
  itself re-checks nothing after the round: that a key or a nonce cannot change while a round runs is the
  platform's doing and is not counted among the properties. What is checked is what the contract does about
  keys and nonces that change between calls.
* **A failed transaction writes nothing**, so a check that raises is a guard.
* **The clock does not run backwards** from one transaction to the next.
* **Rounds.** GenVM collects one vote of every validator (one that never answers counts as `FALSE`,
  which is one of the choices of `FaultyVotes`) and accepts the leader's proposal when `Quorum` agree.
  Fewer validators than the quorum are faulty. How GenVM replaces a leader is not modelled: another
  attempt is a new round.
* **Cryptography** is ideal, as said above: nobody signs for another's key, and digests do not
  collide. That the verifier accepts exactly the solutions of the signature equation is not assumed: it is
  checked in `Secp256k1`, and proved for every curve with the group laws (`CurveAssumption`).
* **Views** read one state. Nothing ties two reads of a client together.
* **A request ends.** `urlopen` has a timeout of 45 seconds and `node` of 60. A host that sends a byte
  now and then can hold `urlopen` longer; such a host is outside the model.

## 4. What is checked

| Run | Instance | Question | Distinct states |
|---|---|---|---|
| `registry` | 3 keys, 2 issuers, times 0-3 | is the key history consistent under every order of calls? | 7,604 |
| `replay` | 2 datasets, 2 nonces, 1 key, 2 attempts, times 0-2 | are verdicts final, one per nonce, consistent with record, levels and ledger, and does the contract implement `CertificateLifecycle`? | 473,607 |
| `rotation` | 2 datasets that share a nonce, 2 keys, 2 issuers, 5 calls, 1 attempt, times 0-2 | does every verdict rest on a key that was valid when it was written, and every refusal on its cause? | 2,745,273 |
| `round` | 3 validators, quorum 2, leader and one validator faulty | is what is written an honest evaluation of bytes its validators fetched, and does every round end? | 29,752 |
| `stable_round` | nobody faulty, nothing changing, 12 kinds of snapshot | do honest nodes agree, whatever the package is like? | 1,080 |
| `certified_rounds` | 1 dataset, 1 key, a faulty leader and two validators, times 0-1, 1 attempt | does the contract with its rounds inside behave as `DatasetBond`, and does every call end? | 61,632 |
| `consumer_gate` | 2 datasets of different profiles, 1 key, 1 client, 2 attempts, times 0-1 | what do a stale copy and the gate's answer tell? | 289,719 |
| `fixture` | 39 packages, a good one and others that differ from it in one respect, times 0-2 | can the contract evaluate what the validator passed, and does the validator end? | 269,919 |
| `helpers` | see the next table | does each pure helper compute what its definition says, for every input up to the bounds? | 329,193 |
| `trailing_newline` | every text of up to 4 characters | findings 3 and 4 | violation |
| `float_version` | one manifest with version 2.0 | finding 1 | violation |
| `verified_unfetched` | one forged manifest | finding 2 | violation |

`helpers` chooses one helper at the start and runs it alone; the others rest. Its instances:

| Helper | Inputs |
|---|---|
| FieldValidation | every text of up to 4 characters, limits 2 and 3 |
| EvidenceReference | 29,000 references of up to 6 segments |
| TransactionTimestamp | 28 instants, 5 offsets, days of 3 seconds of 3 ticks |
| Secp256k1 | field of 43, order 31; 6 keys, 4 digests, r and s from 0 to 32 |
| PromptFences | every text of up to 5 pieces (a whole fence, three brackets, one bracket, a word), as license and as manifest; every reference of up to 3 pieces, and all three references of up to 1 |

The properties, by the question they answer:

* *Registry.* `KeyListIsComplete` (each key listed once, in order of registration), `RotationHandsOver`
  (a rotated key names a registered successor of its own issuer, registered at the same instant; no
  other key names one), `RotationIsAChain` (no fork, merge or cycle), and `KeyHistoryIsKept` (an action
  property: a retired key never changes).
* *Verdicts.* `NonceSingleUse`, `NonceLedgerIsExact` (the ledger is exactly the verdicts, in both
  directions), `OutcomeIsFinal` (an action property: a verdict only ever turns from CERTIFIED to
  REVOKED, and that keeps everything else), `RecordMatchesCertificate`, `LevelsExplainStatus` (the four
  levels are all positive if and only if the status is CERTIFIED or REVOKED; no other status shows all
  four), `CertificateListIsComplete`.
* *Authority.* `ConcludedWasAuthentic` (from the state alone one can tell, long
  after any revocation or rotation, that the key was registered, unretired and the publisher's own at
  the evaluation, which fell in the signed window), `RefusalHadCause` (the converse: every level that refused
  a manifest had its cause at that time, so no window is a second too narrow, and no later change of the key
  makes a refusal look unfounded), `VerdictNeedsActiveKey` (an action property).
* *Rounds.* `WrittenIsWitnessed` (the assumption of `DatasetBond!EndCall`), `VerdictWasFetched`, and
  the liveness properties `RoundEnds` and `StableWorldAgrees`.

* *Calls with rounds inside.* `RefinesContract` (the refinement of `DatasetBond`), `VerdictOnFetchedEvidence`
  (an action property across both: the step that stores a verdict happens only when an honest
  validator of that very round agreed on the committed bytes), and `CallEnds` (liveness).
* *Clients.* `HeldIsHistory` (a copy, however old, is the stored certificate or an earlier stage of it,
  and listed ids stay readable), `AcceptedWasCertified` (an accepted certificate is stored as certified,
  or was revoked no earlier than it was read), `RefusedForAReason` (no live certificate of the right
  profile is refused).
* *The publisher's gate.* `PassedIsEvaluated`: after PASS, registration succeeds and, while hosts and
  window last, an evaluation is authenticated, verified and linked. `IsBeyondTheValidator` lists the nine
  differences between the two checks: a name or a profile of the right length that the contract refuses
  (validate_inline_fixture.py 241-244 against 211-225 and 300-304), `//` in a reference, version 2.0, an oversized
  dataset, an oversized or undecodable license, control characters in the provenance manifest, and a
  `created_at` of more than 512 characters (668 against validate_inline_fixture.py 198). Each is needed: the run
  fails without any one of them.
  `ValidatorEnds` is the liveness of its retrieval: `main` ends, and asks for no object more than twice. It does
  not always report. A response that breaks off (`IncompleteRead`, at 130), a reference with a control character
  (`InvalidURL`) and records without a length (`TypeError`, at 333) are caught neither at 133 nor at 357; the
  outcome is then `"traceback"`.
  `PassedIsAccepted` compares the two recognisers of references alone, with two exceptions.
* *Recognisers and arithmetic.* Each is compared with a definition that does not follow the code:
  `KnownHostsArePinned` (of raw.githubusercontent.com, github.com and arweave.net only: elsewhere the code
  asks for a CID and nothing else) and `DocumentedFormIsAccepted`; `FixedWidthIsExact` and
  `DocumentedIsAccepted`; `SecondsAreElapsed`, `WindowIsHonoured` and `ClockNeverRunsBack`;
  `MultiplicationIsExact` (a loop invariant over discrete logarithms), `VerdictIsExact` (the signature
  equation by enumeration of the nonces) and `VerificationEnds`; `FencesAreExact` (behind the declared package
  each fence stands once, in its place, whatever the texts hold; in front of it a fence stands only inside a
  reference, which may hold one).

### Bounds, and why they are enough

`Times` and `MaxTime` (2 or 3) put a one-second window with moments before, at both ends of, and after
it; the clock stops at `MaxTime`. An attempt limit of 2 gives a first attempt, a retry and a refusal:
the code only compares the count with the limit. Two datasets are what a nonce conflict needs; two
keys are what a rotation needs, and three keys a chain of rotations. The calls of `replay` cover a good
manifest, a second one with the same nonce, a signature by another key, a float version and an
unbound argument; the observations give each verdict, a dead host and a changed host. `rotation` has
a sibling with the same nonce, a manifest signed with a key other than the registered one, one whose digest
will not match, and a key id registered for another issuer; one attempt is enough, since every evaluation
leaves its level in the certificate. In `round` one of the three validators is faulty, the most that a quorum of 2 of 3 admits; the
forgeries are a raise, nonsense, two lies and a self-contradicting result. `AllSnapshots` has one
snapshot for each way an authentic evaluation can end before the model is asked, and a forged, a
replayed, an expired and a rotated one. In `certified_rounds` the leader is the faulty node, with a forged verdict and a forged
inconclusive result, and one attempt: rounds that fail leave it unused, so several rounds follow each
other about one certificate. `consumer_gate` has one client, since clients do not meet. For FieldValidation
every text can be shorter than, equal to, and longer than every limit and width. EvidenceReference has
paths one segment longer than the longest position the code looks at. In TransactionTimestamp offsets exceed
half a day, and instants lie before the epoch, in and around the window. The curve of Secp256k1 has
points whose x exceeds the order, as secp256k1 has, and r, s and the digests pass it too; its keys are
the base point, its opposite, two others, one off the curve and one with an unreduced coordinate. Five
pieces make every fence inside a fence, around either half of it, and a fence with a bracket too many; three
make a whole fence inside a reference. In `fixture` a host serves the object, raises, or breaks off; another
status or other bytes end the validator as a second raise does, and change the contract's outcome only when
the object is not served.
Accounts differ only in
who deployed and who submitted, and keys and issuers of `registry` only in name, so these sets are
symmetric; no run with a liveness property uses symmetry.

Deadlock is not checked (`CHECK_DEADLOCK FALSE`): identifiers, attempts and time are finite in an
instance, and a round stops when it is decided, so every instance reaches states with nothing left to do.

### Fairness

`DatasetBond` states none: a submitter may never call again, and the contract promises nothing then.
`CertificationRound` assumes weak fairness of the leader, of each validator and of the decision. The
functions they run are loops over bounded data with a request or a model call that returns or raises,
and GenVM schedules every node or stops waiting for it. Hosts get no fairness. `CertifiedRounds` assumes
the same of the nodes of the running round, and that GenVM ends the transaction; submitters, hosts
and the clock get none. `FixtureValidator` assumes weak fairness of the validator's own steps, a
sequential script whose requests end, and `Secp256k1` of the verifier's loop.

## 5. Findings

1. **A manifest that says version 2.0 registers and can never be certified.** The comparison at 497
   (`manifest.get("manifest_version") != MANIFEST_VERSION`) is Python's, and `2.0 == 2`; the text
   `2.0` is canonical for itself, so its digest is accepted and stored. `_stored_manifest` writes `2`.
   The rebuilt text has another digest, and every certification ends in
   `MANIFEST_DIGEST_MISMATCH` until the attempts run out. `docs/ARCHITECTURE.md:53-54` and the docstring
   at 551 promise the exact object. Run `float_version`, property `StoredManifestIsExact`.
2. **`integrity_status` is VERIFIED when nothing was fetched.** On an authentication failure 908-912
   store VERIFIED before any request is made; `docs/STATE-MACHINE.md:21` says the level tells "whether
   exact response bytes were available and matched their digest". `tests/direct/test_datasetbond.py:325`
   asserts the code's side, VERIFIED after INVALID_SIGNATURE. Run `verified_unfetched`, property
   `VerifiedMeansFetched`. No verdict rests on it: `VerdictWasFetched` holds.
3. **An identifier may end in a line feed.** 214 and 223 check it with `_DATASET_ID_RE.match`, whose `$`
   matches before a final line feed, and neither `MAX_ID_LEN` nor `_CONTROL_RE` excludes one. `abc` and a
   line feed is a dataset id of its own, beside `abc`. `docs/SCHEMA.md:40-41` says "Identifiers are 1-96
   characters matching `^[a-z][a-z0-9._:-]{0,95}$`." Run `trailing_newline`, property `AcceptedIsDocumented`.
4. **A manifest's signature may end in a line feed.** 528 checks it with `_SIGNATURE_HEX_RE.match` and with no
   length limit; `_validate_signature` (293-297), which has the limit, is called by nothing. The stored
   `manifest_signature` then has 129 characters, where `docs/SCHEMA.md:52` says "128 lowercase hex
   characters". The same run and property: TLC stops at the identifier, and lists the signature with
   `-continue`. Digests and public keys cannot end so (`FixedWidthIsExact`).

## 6. What is proved

Eight modules hold the proofs. Every invariant, every action property and every refinement that a passing
run checks is a theorem: it holds for every value of the constants that satisfies the named assumptions.

| Proofs about | Assumptions |
|---|---|
| the contract | `AbsentIdentifiersAssumption`, `TimesAssumption`, `KeyRequestsAssumption`, `MaxTimeAssumption`, `CallsAssumption`, `ObservationsAssumption`, `AttemptLimitAssumption` |
| rounds | `NodesAssumption`, `QuorumAssumption`, `RoundInputsAssumption`; inside calls the same as `CallNodesAssumption`, `CallQuorumAssumption`, `CallInputsAssumption`, and `RoundObservationsAssumption` |
| clients, fixtures | `ExpectedProfileAssumption`; `FixturesAssumption`, `TransformationsAssumption` |
| texts | `LimitsAssumption`, `NotTextAssumption`, `ValuesAssumption`; `ReferencesAssumption`; `EvidenceAssumption` |
| the clock | `CalendarAssumption`, `InstantsAssumption`, `WindowAssumption` |
| the verifier | `ParametersAssumption`, `CurveAssumption` |

All but two only say what sort of thing a constant is, or what the code's own constants satisfy.
`QuorumAssumption` is about the platform (fewer faulty validators than a quorum). `CurveAssumption` is the
mathematics of the curve, which no line of the code establishes: the formulas of `_point_add` are an
associative addition, the base point generates the group, and its order is an odd prime. TLC evaluates it
for the curve of `helpers`; for secp256k1 it is what the standard says of its parameters.

* **IssuerRegistryProofs.** All registry invariants, by induction on `RegistryInv`, their conjunction
  with `RegisteredInThePast`. Without that conjunct the order of registration times in the list is
  not inductive. Chains need the rest: a fresh key id is nobody's successor because successors are
  registered (`RotationHandsOver`), and it comes last in the list (`KeyListIsComplete`).
* **DatasetBondProofs.** `Invariance` proves one inductive invariant, from which every invariant checked
  in `replay` and `rotation` follows. Why they need each other: `TypeOK` bounds the attempts,
  but the guard is in `CertifyBegin` and the increment in `CertifyCommit`, so it is inductive only with
  `SnapshotIsCurrent` (what was read before the round still holds; a strengthening that only says, in
  this composition, what `NoCallInFlight` gives), which carries the guard across the round. `NonceSingleUse` follows from
  `NonceLedgerIsExact`, inductive because a snapshot that allows a verdict saw the nonce unused and
  is still current. `ConcludedWasAuthentic` needs two more conjuncts: `SnapshotFollowsKey` (a snapshot
  was taken after its key was registered) and `EvaluatedInThePast` (so that a key retired later is
  retired after the evaluation). `RefusalHadCause` needs that a retired key was retired no later than now
  (`RetiredInThePast`), so that a refusal for a retirement is still explained by the key as stored;
  `LevelsExplainStatus` needs that verdict and status say the same (`VerdictIsStatus`). The action properties
  `OutcomeIsFinal` and `VerdictNeedsActiveKey` follow from the invariant, step by step.
* **RefinementProofs.** `LifecycleRefined`: `Spec => Lifecycle!Spec`. The interesting step is
  `CertifyCommit`, which takes its abstract guard (open, attempts left, nonce unspent) from the snapshot.
  `ContractRefined`: `CallSpec => RefinesContract`, for any number of nodes. RoundProofs is instantiated for
  the running snapshot, and `CallInv` adds to the contract's invariant that its own holds while a call is in
  flight. That all steps of a round keep the snapshot in flight, and that the hosts may go on changing
  between the decision and the write, is what has to be shown. `VerdictOnFetchedEvidenceCorrect` follows
  from the same invariant. So every theorem about `DatasetBond` holds of the contract with its rounds inside:
  `CallsKeepInvariants` and `CallsRefineLifecycle` say so of the ones that matter most.
* **RoundProofs.** `EvaluationIsValid`: every result an honest evaluation can produce passes
  `_validate_consensus_result`. The two sets of rules cannot drift apart without this proof failing.
  `WrittenIsWitnessedCorrect` and `VerdictWasFetchedCorrect`, from the invariant that an
  honest agreeing vote was earned by an evaluation, on all the evidence, equal to the proposal and that a
  round is decided on all votes: a quorum larger than the faulty validators contains an honest one.
  `RoundGivesAnEvaluation` turns this into the assumption of `DatasetBond`: what a round writes is
  `EvaluatePackage` of the snapshot for responses that hosts may serve and an answer that the model may
  give, as `EndCall` has it.

* **ConsumerProofs.** The three invariants of `ConsumerGate`, by induction on `GateInv`: the contract's
  invariant, which readers do not disturb, with what is known of each copy (`IsSoundCopy`). That a stored
  certificate is a later stage of a copy is kept because "later stage" is transitive
  (`LaterIsTransitive`) and every step of the contract is one (`NextKeepsHistory`).

* **FixtureProofs.** `PassedIsEvaluated`, for any packages, hosts, answers and times. The invariant keeps, of
  a PASS, what the validator looked at (`PassedForGood`), and of a certification, what it was made of. The
  argument then goes through the contract's checks in the contract's order (parsing, authentication, the three
  sources, the link) and finds for each the check of the validator that implies it. `FixturesAssumption` admits
  packages of every class, the nine differences included: they are excluded in the property, by name, and not
  by the assumption.
* **TextProofs.** Texts of every length.
  *Fields.* `FixedWidthIsExact` and `DocumentedIsAccepted`: a text that `$` cuts short is one character
  longer than what matched, so it exceeds the limit exactly when the pattern has the limit's width
  (`FixedWidth`).
  *References.* `KnownHostsArePinned`, `PassedIsAccepted` and `DocumentedFormIsAccepted`, where `helpers` stops at
  six segments: a reference under a known host has more than one segment (`LoneSegment`), so no later branch
  can accept it; and the branch of each documented form accepts it before an earlier one can refuse.
  *The prompt.* `FencesAreExact`. What `Replace` leaves was copied, run by run, from places of the text where
  the word does not stand (`ReplaceKeeps`), and what it puts in has no character of a fence, so a fence in the
  result was a fence in the text (`ReplacedOccurrence`), and one that an earlier replacement removed does not
  come back (`NeutralText`). A fence has no line feed, so an occurrence in the prompt lies within one text,
  which has none, or within one fence (`FencePlaces`); and there it starts where the fence starts, since no
  `<` comes after the third character (`WithinFence`). In the declared package every reference has a line of
  its own, with a label in front and a line feed behind, neither of which a fence has; so no fence spans two
  of its parts (`Seam`), and one that stands there stands inside a reference (`HeldByReference`).
* **ArithmeticProofs.** *The clock.* `SecondsAreElapsed`, `WindowIsHonoured` and `ClockNeverRunsBack` for every
  tick, day length and offset. `UtcSecondsIsSecond` shows that the three divisions of the conversion undo each
  other, also before the epoch.
  *The verifier.* `VerifierTypeOK`, `MultiplicationIsExact` and `VerdictIsExact`, by induction on `VerifierInv`:
  with the two exactness properties, that sums and addends are points of the group and that the loops run only
  for a valid key and scalars in range. A point is the
  number of additions of the base point that make it (`Log`); adding points adds these numbers modulo the
  order (`LogOfSum`), so a turn of the loop, which halves what remains and doubles the addend, keeps the total
  (`TurnKeepsTotal`); `PowMod(s, N - 2, N)` inverts s by Fermat's theorem (`InverseInverts`), so the final sum,
  times s, is the other side of the equation, and s can be cancelled (`Cancel`).

`PowMod`, `Multiples` and `Replace` are recursive functions. The library's induction theorems take an operator
as a parameter, which the provers cannot instantiate; the inductions here are first-order instead: the set
of the numbers for which the claim fails would have a least member (`LeastMember`), and that one follows from
the numbers below it.

Only model-checked: the liveness properties `RoundEnds`, `StableWorldAgrees`, `CallEnds`, `ValidatorEnds` and
`VerificationEnds`, since `ENABLED` and fairness are beyond the prover. The properties of the findings are
false and have counterexamples.

## 7. Plan

Done: the modules of section 2, their runs, and the proofs of section 6. Next, in this order:

1. Successive leaders: GenVM replaces a leader whose round fails. The repository does not say how, so
   today another attempt is another call.

## 8. Not modelled, and why

* The texts: wording of reasons and errors, the layout of the record and of the prompt. No property is
  about them. The size check on the record (1432) cannot fire with bounded fields.
* Hexadecimal, JSON and ISO-8601 parsing, and regular expressions as such: the modules start from what a
  text is read as. What `u256()` does with a number past its width is GenVM's.
* The views of issuer keys: they read one state, and no client here reads them.
* `demonstration_calls` and `registration_call`: they keep no state and return literals. A call of the
  shape they build is `CallWith` of MCManifests, and `replay` submits such calls in every order.
* The wording in front of the evidence in the prompt, and the criteria of each profile: in PromptFences they
  are lines without a `<`. That the references there are not neutralised (762-766) is modelled; no document
  says anything of fences, so it is stated in `FencesAreExact` and not as a finding.
* What hosts other than the three known ones make of a path. The code takes `github.com:443` for such a host,
  and any other name, if `/ipfs/` and a CID come somewhere in the path, so a reference there may follow a branch
  although `docs/SCHEMA.md:33-35` wants a commit or a content address; `KnownHostsArePinned` says nothing of it.
* A fixture file with missing fields, placeholders or malformed digests, of which `main` says FAIL at once, and
  what exactly makes a dataset the demonstration's.
* `contracts/datasetbond_compact.py` is generated from the contract by `tools/minify_contract.py`; the
  tools, the mutation tests and the release files are one-shot scripts over files.
* GenVM itself (leader rotation, appeals, storage layout) is not in the repository and is external.
