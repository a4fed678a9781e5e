---------------------------- MODULE IssuerRegistry ----------------------------
(***************************************************************************)
(* The trust root and the issuer keys it administers: register_issuer_key, *)
(* revoke_issuer_key and rotate_issuer_key of class DatasetBond.           *)
(*                                                                         *)
(* A call that raises leaves storage as it was (the transaction reverts),  *)
(* so each guard that raises is a conjunct of the action.  The reason text *)
(* of an administrative call is left out; so is the check that it is not   *)
(* empty.  Time is the transaction datetime, assumed not to decrease from  *)
(* one transaction to the next.                                            *)
(***************************************************************************)
EXTENDS DatasetBondSchema, Sequences

CONSTANTS
    Accounts,       \* addresses that may sign a transaction
    KeyRequests,    \* the (issuer_id, key_id, public_key) arguments in play
    MaxTime         \* bound: the clock stops here

ASSUME KeyRequestsAssumption ==
    KeyRequests \subseteq
        [issuer_id : IssuerIds, key_id : KeyIds, public_key : PublicKeys]

ASSUME MaxTimeAssumption == MaxTime \in Nat

VARIABLES
    trust_root,       \* the deployer's address
    issuer_keys,      \* TreeMap: key_id -> IssuerKey
    issuer_key_ids,   \* DynArray: key ids in registration order
    now               \* the datetime of the current transaction

registryVars == <<trust_root, issuer_keys, issuer_key_ids, now>>

-----------------------------------------------------------------------------
IssuerKeys ==
    [issuer_id        : IssuerIds,
     key_id           : KeyIds,
     public_key       : PublicKeys,
     status           : IssuerStatus,
     registered_at    : Nat,
     revoked_at       : Nat,
     successor_key_id : KeyIds \cup {NoKeyId}]

NewKey(request) ==
    [issuer_id        |-> request.issuer_id,
     key_id           |-> request.key_id,
     public_key       |-> request.public_key,
     status           |-> "ACTIVE",
     registered_at    |-> now,
     revoked_at       |-> 0,
     successor_key_id |-> NoKeyId]

Revoked(key) == [key EXCEPT !.status = "REVOKED", !.revoked_at = now]

RotatedTo(key, successor) ==
    [key EXCEPT !.status = "ROTATED",
                !.revoked_at = now,
                !.successor_key_id = successor]

RequireTrustRoot(sender) == sender = trust_root

\* _get_issuer_key, then the check that the key is ACTIVE.
IsActiveKey(k) == k \in DOMAIN issuer_keys /\ issuer_keys[k].status = "ACTIVE"

-----------------------------------------------------------------------------
\* __init__: the deployer becomes the trust root.
RegistryInit ==
    /\ trust_root \in Accounts
    /\ issuer_keys = << >>
    /\ issuer_key_ids = << >>
    /\ now = 0

\* Mutant: DUPLICATE_ISSUER_KEY is not checked.
RegisterIssuerKeyAgain(sender, request) ==
    /\ RequireTrustRoot(sender)
    /\ issuer_keys' = Put(issuer_keys, request.key_id, NewKey(request))
    /\ issuer_key_ids' = Append(issuer_key_ids, request.key_id)
    /\ UNCHANGED <<trust_root, now>>

RegisterIssuerKey(sender, request) ==
    /\ RequireTrustRoot(sender)
    /\ request.key_id \notin DOMAIN issuer_keys
    /\ issuer_keys' = Put(issuer_keys, request.key_id, NewKey(request))
    /\ issuer_key_ids' = Append(issuer_key_ids, request.key_id)
    /\ UNCHANGED <<trust_root, now>>

\* Mutant: any registered key may be revoked, a retired one too.
RevokeRetiredKey(sender, k) ==
    /\ RequireTrustRoot(sender)
    /\ k \in DOMAIN issuer_keys
    /\ issuer_keys' = Put(issuer_keys, k, Revoked(issuer_keys[k]))
    /\ UNCHANGED <<trust_root, issuer_key_ids, now>>

RevokeIssuerKey(sender, k) ==
    /\ RequireTrustRoot(sender)
    /\ IsActiveKey(k)
    /\ issuer_keys' = Put(issuer_keys, k, Revoked(issuer_keys[k]))
    /\ UNCHANGED <<trust_root, issuer_key_ids, now>>

\* What rotation writes.
HandOver(old, request) ==
    /\ issuer_keys' =
         Put(Put(issuer_keys, old, RotatedTo(issuer_keys[old], request.key_id)),
             request.key_id, NewKey(request))
    /\ issuer_key_ids' = Append(issuer_key_ids, request.key_id)
    /\ UNCHANGED <<trust_root, now>>

\* Mutant: ISSUER_KEY_OWNER_MISMATCH is not checked.
RotateAcrossIssuers(sender, old, request) ==
    /\ RequireTrustRoot(sender)
    /\ IsActiveKey(old)
    /\ request.key_id \notin DOMAIN issuer_keys
    /\ HandOver(old, request)

\* Mutant: DUPLICATE_ISSUER_KEY is not checked.
RotateOntoRegistered(sender, old, request) ==
    /\ RequireTrustRoot(sender)
    /\ IsActiveKey(old)
    /\ issuer_keys[old].issuer_id = request.issuer_id
    /\ HandOver(old, request)

RotateIssuerKey(sender, old, request) ==
    /\ RequireTrustRoot(sender)
    /\ IsActiveKey(old)
    /\ issuer_keys[old].issuer_id = request.issuer_id
    /\ request.key_id \notin DOMAIN issuer_keys
    /\ HandOver(old, request)

\* The environment: a later transaction carries a later datetime.
Tick ==
    /\ now < MaxTime
    /\ now' = now + 1
    /\ UNCHANGED <<trust_root, issuer_keys, issuer_key_ids>>

\* One administrative call, by whoever signed it.
AdministerKeys ==
    \E sender \in Accounts :
        \/ \E request \in KeyRequests : RegisterIssuerKey(sender, request)
        \/ \E k \in KeyIds : RevokeIssuerKey(sender, k)
        \/ \E old \in KeyIds, request \in KeyRequests :
               RotateIssuerKey(sender, old, request)

RegistryNext == AdministerKeys \/ Tick

RegistrySpec == RegistryInit /\ [][RegistryNext]_registryVars

-----------------------------------------------------------------------------
RegistryTypeOK ==
    /\ trust_root \in Accounts
    /\ DOMAIN issuer_keys \subseteq KeyIds
    /\ issuer_keys \in [DOMAIN issuer_keys -> IssuerKeys]
    /\ issuer_key_ids \in Seq(KeyIds)
    /\ now \in Nat

(* The key list that get_issuer_keys walks names every registered key      *)
(* exactly once, in the order of registration.                             *)
KeyListIsComplete ==
    /\ \A k \in DOMAIN issuer_keys :
         \E i \in DOMAIN issuer_key_ids : issuer_key_ids[i] = k
    /\ \A i \in DOMAIN issuer_key_ids :
         /\ issuer_key_ids[i] \in DOMAIN issuer_keys
         /\ issuer_keys[issuer_key_ids[i]].key_id = issuer_key_ids[i]
         /\ \A j \in DOMAIN issuer_key_ids :
              i < j => /\ issuer_key_ids[i] # issuer_key_ids[j]
                       /\ issuer_keys[issuer_key_ids[i]].registered_at
                            <= issuer_keys[issuer_key_ids[j]].registered_at

(* A rotated key hands over, in one instant, to a registered successor of  *)
(* the same issuer; a key that is not rotated names no successor.          *)
RotationHandsOver ==
    \A k \in DOMAIN issuer_keys :
      LET key == issuer_keys[k] IN
        IF key.status = "ROTATED"
        THEN /\ key.successor_key_id \in DOMAIN issuer_keys
             /\ key.successor_key_id # k
             /\ issuer_keys[key.successor_key_id].issuer_id = key.issuer_id
             /\ issuer_keys[key.successor_key_id].registered_at = key.revoked_at
             /\ key.registered_at <= key.revoked_at
        ELSE key.successor_key_id = NoKeyId

(* Rotation histories are chains: no key succeeds two keys, and following  *)
(* successors never returns, because a successor is later in the key list. *)
RotationIsAChain ==
    /\ \A k, l \in DOMAIN issuer_keys :
         issuer_keys[k].successor_key_id = issuer_keys[l].successor_key_id
           => k = l \/ issuer_keys[k].successor_key_id = NoKeyId
    /\ \A i, j \in DOMAIN issuer_key_ids :
         issuer_keys[issuer_key_ids[i]].successor_key_id = issuer_key_ids[j]
           => i < j

(* A registered key keeps its issuer, its public key and its registration  *)
(* time for ever, and once it leaves ACTIVE nothing about it changes.      *)
KeepsKeys ==
    \A k \in DOMAIN issuer_keys :
        /\ k \in DOMAIN issuer_keys'
        /\ issuer_keys[k].status # "ACTIVE" => issuer_keys'[k] = issuer_keys[k]
        /\ issuer_keys'[k].issuer_id = issuer_keys[k].issuer_id
        /\ issuer_keys'[k].public_key = issuer_keys[k].public_key
        /\ issuer_keys'[k].registered_at = issuer_keys[k].registered_at

KeyHistoryIsKept == [][KeepsKeys]_registryVars
=============================================================================
