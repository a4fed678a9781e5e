-------------------------- MODULE IssuerRegistryProofs --------------------------
(***************************************************************************)
(* Proofs about IssuerRegistry, for every set of accounts, issuers and     *)
(* keys and every bound on time.                                           *)
(***************************************************************************)
EXTENDS IssuerRegistry, TLAPS

\* An assignment keeps a storage map typed.
LEMMA PutTyped ==
    ASSUME NEW map, NEW key, NEW value, NEW Keys, NEW Values,
           DOMAIN map \subseteq Keys, map \in [DOMAIN map -> Values],
           key \in Keys, value \in Values
    PROVE  /\ DOMAIN Put(map, key, value) \subseteq Keys
           /\ Put(map, key, value)
                \in [DOMAIN Put(map, key, value) -> Values]
BY DEF Put

-----------------------------------------------------------------------------
LEMMA NewKeyTyped ==
    ASSUME RegistryTypeOK, NEW request \in KeyRequests
    PROVE  /\ NewKey(request) \in IssuerKeys
           /\ request.key_id \in KeyIds
BY KeyRequestsAssumption DEF RegistryTypeOK, NewKey, IssuerKeys, IssuerStatus

LEMMA RetiredTyped ==
    ASSUME RegistryTypeOK, NEW key \in IssuerKeys, NEW k \in KeyIds
    PROVE  Revoked(key) \in IssuerKeys /\ RotatedTo(key, k) \in IssuerKeys
BY DEF RegistryTypeOK, Revoked, RotatedTo, IssuerKeys, IssuerStatus

LEMMA RegistryTypeInit == RegistryInit => RegistryTypeOK
BY DEF RegistryInit, RegistryTypeOK

LEMMA RegistryTypeNext ==
    RegistryTypeOK /\ [RegistryNext]_registryVars => RegistryTypeOK'
<1> SUFFICES ASSUME RegistryTypeOK, [RegistryNext]_registryVars
             PROVE  RegistryTypeOK'
    OBVIOUS
<1>1. ASSUME NEW sender \in Accounts, NEW request \in KeyRequests,
             RegisterIssuerKey(sender, request)
      PROVE  RegistryTypeOK'
  <2>1. NewKey(request) \in IssuerKeys /\ request.key_id \in KeyIds
    BY NewKeyTyped
  <2>2. /\ DOMAIN issuer_keys' \subseteq KeyIds
        /\ issuer_keys' \in [DOMAIN issuer_keys' -> IssuerKeys]
    BY <1>1, <2>1, PutTyped DEF RegisterIssuerKey, RegistryTypeOK
  <2>3. issuer_key_ids' \in Seq(KeyIds)
    BY <1>1, <2>1 DEF RegisterIssuerKey, RegistryTypeOK
  <2> QED
    BY <1>1, <2>2, <2>3 DEF RegisterIssuerKey, RegistryTypeOK
<1>2. ASSUME NEW sender \in Accounts, NEW k \in KeyIds, RevokeIssuerKey(sender, k)
      PROVE  RegistryTypeOK'
  <2>1. issuer_keys[k] \in IssuerKeys
    BY <1>2 DEF RevokeIssuerKey, IsActiveKey, RegistryTypeOK
  <2>2. Revoked(issuer_keys[k]) \in IssuerKeys
    BY <2>1, RetiredTyped
  <2>3. /\ DOMAIN issuer_keys' \subseteq KeyIds
        /\ issuer_keys' \in [DOMAIN issuer_keys' -> IssuerKeys]
    BY <1>2, <2>2, PutTyped DEF RevokeIssuerKey, RegistryTypeOK
  <2> QED
    BY <1>2, <2>3 DEF RevokeIssuerKey, RegistryTypeOK
<1>3. ASSUME NEW sender \in Accounts, NEW old \in KeyIds, NEW request \in KeyRequests,
             RotateIssuerKey(sender, old, request)
      PROVE  RegistryTypeOK'
  <2> DEFINE rotated == RotatedTo(issuer_keys[old], request.key_id)
             handed == Put(issuer_keys, old, rotated)
  <2>1. NewKey(request) \in IssuerKeys /\ request.key_id \in KeyIds
    BY NewKeyTyped
  <2>2. issuer_keys[old] \in IssuerKeys
    BY <1>3 DEF RotateIssuerKey, HandOver, IsActiveKey, RegistryTypeOK
  <2>3. rotated \in IssuerKeys
    BY <2>1, <2>2, RetiredTyped
  <2>4. DOMAIN handed \subseteq KeyIds /\ handed \in [DOMAIN handed -> IssuerKeys]
    BY <2>3, PutTyped DEF RegistryTypeOK
  <2>5. issuer_keys' = Put(handed, request.key_id, NewKey(request))
    BY <1>3 DEF RotateIssuerKey, HandOver
  <2> HIDE DEF handed
  <2>6. /\ DOMAIN issuer_keys' \subseteq KeyIds
        /\ issuer_keys' \in [DOMAIN issuer_keys' -> IssuerKeys]
    BY <2>1, <2>4, <2>5, PutTyped
  <2>7. issuer_key_ids' \in Seq(KeyIds)
    BY <1>3, <2>1 DEF RotateIssuerKey, HandOver, RegistryTypeOK
  <2> QED
    BY <1>3, <2>6, <2>7 DEF RotateIssuerKey, HandOver, RegistryTypeOK
<1>4. CASE Tick
  BY <1>4 DEF Tick, RegistryTypeOK
<1>5. CASE UNCHANGED registryVars
  BY <1>5 DEF registryVars, RegistryTypeOK
<1> QED
  BY <1>1, <1>2, <1>3, <1>4, <1>5 DEF RegistryNext, AdministerKeys

(* RegistryTypeOK is an invariant: register, revoke and rotate store only  *)
(* well-formed IssuerKey records under key ids.                            *)
THEOREM RegistryTypeCorrect == RegistrySpec => []RegistryTypeOK
BY RegistryTypeInit, RegistryTypeNext, PTL DEF RegistrySpec

-----------------------------------------------------------------------------
(* The rotation properties and the completeness of the key list are        *)
(* inductive together, once no key was registered in the future: a new key *)
(* then comes after every listed key, and its id is no key's successor.    *)
RegisteredInThePast == \A k \in DOMAIN issuer_keys : issuer_keys[k].registered_at <= now

RegistryInv ==
    /\ RegistryTypeOK
    /\ RegisteredInThePast
    /\ KeyListIsComplete
    /\ RotationHandsOver
    /\ RotationIsAChain

\* What each administrative call does to the map, read item by item.
LEMMA RegisterEffect ==
    ASSUME RegistryTypeOK, NEW sender, NEW request \in KeyRequests,
           RegisterIssuerKey(sender, request)
    PROVE  /\ request.key_id \in KeyIds \ DOMAIN issuer_keys
           /\ DOMAIN issuer_keys' = DOMAIN issuer_keys \cup {request.key_id}
           /\ issuer_keys'[request.key_id] = NewKey(request)
           /\ \A k \in DOMAIN issuer_keys : issuer_keys'[k] = issuer_keys[k]
           /\ issuer_key_ids' = Append(issuer_key_ids, request.key_id)
           /\ now' = now
BY KeyRequestsAssumption DEF Put, RegisterIssuerKey

LEMMA RevokeEffect ==
    ASSUME RegistryTypeOK, NEW sender, NEW k \in KeyIds, RevokeIssuerKey(sender, k)
    PROVE  /\ k \in DOMAIN issuer_keys /\ issuer_keys[k].status = "ACTIVE"
           /\ DOMAIN issuer_keys' = DOMAIN issuer_keys
           /\ issuer_keys'[k] = Revoked(issuer_keys[k])
           /\ \A l \in DOMAIN issuer_keys : l # k => issuer_keys'[l] = issuer_keys[l]
           /\ issuer_key_ids' = issuer_key_ids
           /\ now' = now
BY DEF Put, RevokeIssuerKey, IsActiveKey

LEMMA RotateEffect ==
    ASSUME RegistryTypeOK, NEW sender, NEW old \in KeyIds, NEW request \in KeyRequests,
           RotateIssuerKey(sender, old, request)
    PROVE  /\ old \in DOMAIN issuer_keys /\ issuer_keys[old].status = "ACTIVE"
           /\ issuer_keys[old].issuer_id = request.issuer_id
           /\ request.key_id \in KeyIds \ DOMAIN issuer_keys
           /\ DOMAIN issuer_keys' = DOMAIN issuer_keys \cup {request.key_id}
           /\ issuer_keys'[request.key_id] = NewKey(request)
           /\ issuer_keys'[old] = RotatedTo(issuer_keys[old], request.key_id)
           /\ \A k \in DOMAIN issuer_keys : k # old => issuer_keys'[k] = issuer_keys[k]
           /\ issuer_key_ids' = Append(issuer_key_ids, request.key_id)
           /\ now' = now
<1> DEFINE handed == Put(issuer_keys, old, RotatedTo(issuer_keys[old], request.key_id))
<1>1. /\ old \in DOMAIN issuer_keys /\ issuer_keys[old].status = "ACTIVE"
      /\ issuer_keys[old].issuer_id = request.issuer_id
      /\ request.key_id \in KeyIds \ DOMAIN issuer_keys
      /\ issuer_keys' = Put(handed, request.key_id, NewKey(request))
      /\ issuer_key_ids' = Append(issuer_key_ids, request.key_id)
      /\ now' = now
  BY KeyRequestsAssumption DEF RotateIssuerKey, HandOver, IsActiveKey
<1>2. /\ DOMAIN handed = DOMAIN issuer_keys
      /\ handed[old] = RotatedTo(issuer_keys[old], request.key_id)
      /\ \A k \in DOMAIN issuer_keys : k # old => handed[k] = issuer_keys[k]
  <2>1. DOMAIN issuer_keys \cup {old} = DOMAIN issuer_keys
    BY <1>1
  <2> QED
    BY <2>1 DEF Put
<1> HIDE DEF handed
<1>3. /\ DOMAIN issuer_keys' = DOMAIN handed \cup {request.key_id}
      /\ issuer_keys'[request.key_id] = NewKey(request)
      /\ \A k \in DOMAIN handed :
           k # request.key_id => issuer_keys'[k] = handed[k]
  BY <1>1 DEF Put
<1> QED
  BY <1>1, <1>2, <1>3

\* Item assignments keep the fields that the list and the chain read.
LEMMA RetiredKeepsIdentity ==
    ASSUME NEW key \in IssuerKeys, NEW k
    PROVE  /\ Revoked(key).key_id = key.key_id
           /\ Revoked(key).issuer_id = key.issuer_id
           /\ Revoked(key).public_key = key.public_key
           /\ Revoked(key).registered_at = key.registered_at
           /\ Revoked(key).successor_key_id = key.successor_key_id
           /\ Revoked(key).status = "REVOKED"
           /\ Revoked(key).revoked_at = now
           /\ RotatedTo(key, k).key_id = key.key_id
           /\ RotatedTo(key, k).issuer_id = key.issuer_id
           /\ RotatedTo(key, k).public_key = key.public_key
           /\ RotatedTo(key, k).registered_at = key.registered_at
           /\ RotatedTo(key, k).successor_key_id = k
           /\ RotatedTo(key, k).status = "ROTATED"
           /\ RotatedTo(key, k).revoked_at = now
BY DEF Revoked, RotatedTo, IssuerKeys

\* A key id appended to the list takes the next position and moves no other.
LEMMA AppendFacts ==
    ASSUME NEW S, NEW ids \in Seq(S), NEW id \in S
    PROVE  /\ Append(ids, id) \in Seq(S)
           /\ DOMAIN ids = 1 .. Len(ids) /\ Len(ids) \in Nat
           /\ DOMAIN Append(ids, id) = 1 .. Len(ids) + 1
           /\ Append(ids, id)[Len(ids) + 1] = id
           /\ \A i \in DOMAIN ids : Append(ids, id)[i] = ids[i]
OBVIOUS

-----------------------------------------------------------------------------
LEMMA RegistryInvInit == RegistryInit => RegistryInv
BY RegistryTypeInit
   DEF RegistryInit, RegistryInv, RegisteredInThePast, KeyListIsComplete,
       RotationHandsOver, RotationIsAChain

LEMMA RegisterKeepsInv ==
    ASSUME RegistryInv, RegistryTypeOK', NEW sender, NEW request \in KeyRequests,
           RegisterIssuerKey(sender, request)
    PROVE  RegistryInv'
<1> DEFINE new == request.key_id
           n == Len(issuer_key_ids)
<1>1. /\ new \in KeyIds \ DOMAIN issuer_keys
      /\ DOMAIN issuer_keys' = DOMAIN issuer_keys \cup {new}
      /\ issuer_keys'[new] = NewKey(request)
      /\ \A k \in DOMAIN issuer_keys : issuer_keys'[k] = issuer_keys[k]
      /\ issuer_key_ids' = Append(issuer_key_ids, new)
      /\ now' = now
  BY RegisterEffect DEF RegistryInv
<1>2. /\ DOMAIN issuer_key_ids = 1 .. n /\ n \in Nat
      /\ DOMAIN issuer_key_ids' = 1 .. n + 1
      /\ issuer_key_ids'[n + 1] = new
      /\ \A i \in 1 .. n : issuer_key_ids'[i] = issuer_key_ids[i]
  BY <1>1, AppendFacts DEF RegistryInv, RegistryTypeOK
<1>3. /\ NewKey(request).key_id = new
      /\ NewKey(request).status = "ACTIVE"
      /\ NewKey(request).registered_at = now
      /\ NewKey(request).successor_key_id = NoKeyId
  BY DEF NewKey
<1>4. now \in Nat /\ \A k \in DOMAIN issuer_keys : issuer_keys[k].registered_at \in Nat
  BY DEF RegistryInv, RegistryTypeOK, IssuerKeys
<1> HIDE DEF new, n
<1>5. RegisteredInThePast'
  BY <1>1, <1>3, <1>4 DEF RegistryInv, RegisteredInThePast
<1>6. KeyListIsComplete'
  <2>1. \A i \in 1 .. n : /\ issuer_key_ids[i] \in DOMAIN issuer_keys
                          /\ issuer_key_ids[i] # new
    BY <1>1, <1>2 DEF RegistryInv, KeyListIsComplete
  <2>2. \A k \in DOMAIN issuer_keys' :
          \E i \in DOMAIN issuer_key_ids' : issuer_key_ids'[i] = k
    BY <1>1, <1>2 DEF RegistryInv, KeyListIsComplete
  <2>3. \A i \in 1 .. n + 1 : i \in 1 .. n \/ i = n + 1
    BY <1>2
  <2>4. \A i \in DOMAIN issuer_key_ids' :
          /\ issuer_key_ids'[i] \in DOMAIN issuer_keys'
          /\ issuer_keys'[issuer_key_ids'[i]].key_id = issuer_key_ids'[i]
    BY <1>1, <1>2, <1>3, <2>1, <2>3 DEF RegistryInv, KeyListIsComplete
  <2>5. ASSUME NEW i \in 1 .. n + 1, NEW j \in 1 .. n + 1, i < j
        PROVE  /\ issuer_key_ids'[i] # issuer_key_ids'[j]
               /\ issuer_keys'[issuer_key_ids'[i]].registered_at
                    <= issuer_keys'[issuer_key_ids'[j]].registered_at
    <3>1. i \in 1 .. n
      BY <1>2, <2>5
    <3>2. CASE j \in 1 .. n
      <4>1. /\ issuer_key_ids'[i] = issuer_key_ids[i]
            /\ issuer_key_ids'[j] = issuer_key_ids[j]
        BY <1>2, <3>1, <3>2
      <4>2. /\ issuer_key_ids[i] # issuer_key_ids[j]
            /\ issuer_keys[issuer_key_ids[i]].registered_at
                 <= issuer_keys[issuer_key_ids[j]].registered_at
        BY <1>2, <2>5, <3>1, <3>2 DEF RegistryInv, KeyListIsComplete
      <4> QED
        BY <1>1, <2>1, <3>1, <3>2, <4>1, <4>2
    <3>3. CASE j = n + 1
      <4>1. issuer_key_ids'[i] = issuer_key_ids[i] /\ issuer_key_ids'[j] = new
        BY <1>2, <3>1, <3>3
      <4>2. issuer_keys'[issuer_key_ids'[i]].registered_at <= now
        BY <1>1, <2>1, <3>1, <4>1 DEF RegistryInv, RegisteredInThePast
      <4>3. issuer_keys'[issuer_key_ids'[j]].registered_at = now
        BY <1>1, <1>3, <4>1
      <4> QED
        BY <2>1, <3>1, <4>1, <4>2, <4>3
    <3> QED
      BY <2>3, <3>2, <3>3
  <2> QED
    BY <1>2, <2>2, <2>4, <2>5 DEF KeyListIsComplete
<1>7. RotationHandsOver'
  BY <1>1, <1>3 DEF RegistryInv, RotationHandsOver
<1>8. RotationIsAChain'
  <2>1. \A k \in DOMAIN issuer_keys : issuer_keys[k].successor_key_id # new
    BY <1>1, AbsentIdentifiersAssumption DEF RegistryInv, RotationHandsOver
  <2>2. \A k, l \in DOMAIN issuer_keys' :
          issuer_keys'[k].successor_key_id = issuer_keys'[l].successor_key_id
            => k = l \/ issuer_keys'[k].successor_key_id = NoKeyId
    BY <1>1, <1>3 DEF RegistryInv, RotationIsAChain
  <2>3. \A i \in 1 .. n + 1 : i \in 1 .. n \/ i = n + 1
    BY <1>2
  <2>4. \A i \in 1 .. n : issuer_key_ids[i] \in DOMAIN issuer_keys
    BY <1>2 DEF RegistryInv, KeyListIsComplete
  <2>5. ASSUME NEW i \in 1 .. n + 1, NEW j \in 1 .. n + 1,
               issuer_keys'[issuer_key_ids'[i]].successor_key_id = issuer_key_ids'[j]
        PROVE  i < j
    <3>1. i \in 1 .. n
      <4>1. CASE i = n + 1
        <5>1. issuer_key_ids'[j] = NoKeyId
          BY <1>1, <1>2, <1>3, <2>5, <4>1
        <5>2. issuer_key_ids'[j] \in KeyIds
          BY <1>1, <1>2, <2>3, <2>4 DEF RegistryInv, RegistryTypeOK
        <5> QED
          BY <5>1, <5>2, AbsentIdentifiersAssumption
      <4> QED
        BY <2>3, <4>1
    <3>2. CASE j \in 1 .. n
      BY <1>1, <1>2, <2>4, <2>5, <3>1, <3>2 DEF RegistryInv, RotationIsAChain
    <3>3. CASE j = n + 1
      BY <1>2, <3>1, <3>3
    <3> QED
      BY <2>3, <3>2, <3>3
  <2> QED
    BY <1>2, <2>2, <2>5 DEF RotationIsAChain
<1> QED
  BY <1>5, <1>6, <1>7, <1>8 DEF RegistryInv

LEMMA RevokeKeepsInv ==
    ASSUME RegistryInv, RegistryTypeOK', NEW sender, NEW k \in KeyIds,
           RevokeIssuerKey(sender, k)
    PROVE  RegistryInv'
<1>1. /\ k \in DOMAIN issuer_keys /\ issuer_keys[k].status = "ACTIVE"
      /\ DOMAIN issuer_keys' = DOMAIN issuer_keys
      /\ issuer_keys'[k] = Revoked(issuer_keys[k])
      /\ \A l \in DOMAIN issuer_keys : l # k => issuer_keys'[l] = issuer_keys[l]
      /\ issuer_key_ids' = issuer_key_ids
      /\ now' = now
  BY RevokeEffect DEF RegistryInv
<1>2. \A l \in DOMAIN issuer_keys :
        /\ issuer_keys'[l].key_id = issuer_keys[l].key_id
        /\ issuer_keys'[l].issuer_id = issuer_keys[l].issuer_id
        /\ issuer_keys'[l].registered_at = issuer_keys[l].registered_at
        /\ issuer_keys'[l].successor_key_id = issuer_keys[l].successor_key_id
  BY <1>1, RetiredKeepsIdentity DEF RegistryInv, RegistryTypeOK
<1>3. issuer_keys'[k].status = "REVOKED"
  BY <1>1, RetiredKeepsIdentity DEF RegistryInv, RegistryTypeOK
<1>4. RegisteredInThePast'
  BY <1>1, <1>2 DEF RegistryInv, RegisteredInThePast
<1>5. KeyListIsComplete'
  BY <1>1, <1>2 DEF RegistryInv, KeyListIsComplete
<1>6. RotationHandsOver'
  <2> SUFFICES ASSUME NEW l \in DOMAIN issuer_keys
               PROVE  RotationHandsOver!(l)'
    BY <1>1 DEF RotationHandsOver
  <2> QED
    BY <1>1, <1>2, <1>3 DEF RegistryInv, RotationHandsOver
<1>7. RotationIsAChain'
  <2>1. \A i \in DOMAIN issuer_key_ids : issuer_key_ids[i] \in DOMAIN issuer_keys
    BY DEF RegistryInv, KeyListIsComplete
  <2> QED
    BY <1>1, <1>2, <2>1 DEF RegistryInv, RotationIsAChain
<1> QED
  BY <1>4, <1>5, <1>6, <1>7 DEF RegistryInv

LEMMA RotateKeepsInv ==
    ASSUME RegistryInv, RegistryTypeOK', NEW sender, NEW old \in KeyIds,
           NEW request \in KeyRequests, RotateIssuerKey(sender, old, request)
    PROVE  RegistryInv'
<1> DEFINE new == request.key_id
           n == Len(issuer_key_ids)
<1>1. /\ old \in DOMAIN issuer_keys /\ issuer_keys[old].status = "ACTIVE"
      /\ issuer_keys[old].issuer_id = request.issuer_id
      /\ new \in KeyIds \ DOMAIN issuer_keys
      /\ DOMAIN issuer_keys' = DOMAIN issuer_keys \cup {new}
      /\ issuer_keys'[new] = NewKey(request)
      /\ issuer_keys'[old] = RotatedTo(issuer_keys[old], new)
      /\ \A k \in DOMAIN issuer_keys : k # old => issuer_keys'[k] = issuer_keys[k]
      /\ issuer_key_ids' = Append(issuer_key_ids, new)
      /\ now' = now
  BY RotateEffect DEF RegistryInv
<1>2. /\ DOMAIN issuer_key_ids = 1 .. n /\ n \in Nat
      /\ DOMAIN issuer_key_ids' = 1 .. n + 1
      /\ issuer_key_ids'[n + 1] = new
      /\ \A i \in 1 .. n : issuer_key_ids'[i] = issuer_key_ids[i]
  BY <1>1, AppendFacts DEF RegistryInv, RegistryTypeOK
<1>3. /\ issuer_keys'[new].key_id = new
      /\ issuer_keys'[new].issuer_id = request.issuer_id
      /\ issuer_keys'[new].status = "ACTIVE"
      /\ issuer_keys'[new].registered_at = now
      /\ issuer_keys'[new].successor_key_id = NoKeyId
  BY <1>1 DEF NewKey
<1>4. /\ issuer_keys'[old].issuer_id = request.issuer_id
      /\ issuer_keys'[old].successor_key_id = new
      /\ issuer_keys'[old].status = "ROTATED"
      /\ issuer_keys'[old].revoked_at = now
  BY <1>1, RetiredKeepsIdentity DEF RegistryInv, RegistryTypeOK
<1>5. \A k \in DOMAIN issuer_keys :
        /\ issuer_keys'[k].key_id = issuer_keys[k].key_id
        /\ issuer_keys'[k].issuer_id = issuer_keys[k].issuer_id
        /\ issuer_keys'[k].registered_at = issuer_keys[k].registered_at
  BY <1>1, RetiredKeepsIdentity DEF RegistryInv, RegistryTypeOK
<1>6. now \in Nat /\ \A k \in DOMAIN issuer_keys : issuer_keys[k].registered_at \in Nat
  BY DEF RegistryInv, RegistryTypeOK, IssuerKeys
<1>7. \A i \in 1 .. n : issuer_key_ids[i] \in DOMAIN issuer_keys
  BY <1>2 DEF RegistryInv, KeyListIsComplete
<1>8. \A i \in 1 .. n + 1 : i \in 1 .. n \/ i = n + 1
  BY <1>2
<1>9. \A k \in DOMAIN issuer_keys : issuer_keys[k].successor_key_id # new
  BY <1>1, AbsentIdentifiersAssumption DEF RegistryInv, RotationHandsOver
<1> HIDE DEF new, n
<1>10. RegisteredInThePast'
  BY <1>1, <1>3, <1>5, <1>6 DEF RegistryInv, RegisteredInThePast
<1>11. KeyListIsComplete'
  <2>1. \A k \in DOMAIN issuer_keys' :
          \E i \in DOMAIN issuer_key_ids' : issuer_key_ids'[i] = k
    BY <1>1, <1>2 DEF RegistryInv, KeyListIsComplete
  <2>2. \A i \in DOMAIN issuer_key_ids' :
          /\ issuer_key_ids'[i] \in DOMAIN issuer_keys'
          /\ issuer_keys'[issuer_key_ids'[i]].key_id = issuer_key_ids'[i]
    BY <1>1, <1>2, <1>3, <1>5, <1>7, <1>8 DEF RegistryInv, KeyListIsComplete
  <2>3. ASSUME NEW i \in 1 .. n + 1, NEW j \in 1 .. n + 1, i < j
        PROVE  /\ issuer_key_ids'[i] # issuer_key_ids'[j]
               /\ issuer_keys'[issuer_key_ids'[i]].registered_at
                    <= issuer_keys'[issuer_key_ids'[j]].registered_at
    <3>1. i \in 1 .. n /\ issuer_key_ids'[i] = issuer_key_ids[i]
      BY <1>2, <2>3
    <3>2. CASE j \in 1 .. n
      <4>1. /\ issuer_key_ids[i] # issuer_key_ids[j]
            /\ issuer_keys[issuer_key_ids[i]].registered_at
                 <= issuer_keys[issuer_key_ids[j]].registered_at
        BY <1>2, <2>3, <3>1, <3>2 DEF RegistryInv, KeyListIsComplete
      <4> QED
        BY <1>2, <1>5, <1>7, <3>1, <3>2, <4>1
    <3>3. CASE j = n + 1
      <4>1. issuer_keys'[issuer_key_ids'[i]].registered_at <= now
        BY <1>5, <1>7, <3>1 DEF RegistryInv, RegisteredInThePast
      <4> QED
        BY <1>1, <1>2, <1>3, <1>7, <3>1, <3>3, <4>1
    <3> QED
      BY <1>8, <3>2, <3>3
  <2> QED
    BY <1>2, <2>1, <2>2, <2>3 DEF KeyListIsComplete
<1>12. RotationHandsOver'
  <2> SUFFICES ASSUME NEW k \in DOMAIN issuer_keys'
               PROVE  RotationHandsOver!(k)'
    BY DEF RotationHandsOver
  <2>1. CASE k = new
    BY <1>3, <2>1
  <2>2. CASE k = old
    BY <1>1, <1>3, <1>4, <1>5, <2>2 DEF RegistryInv, RegisteredInThePast
  <2>3. CASE k \in DOMAIN issuer_keys \ {old}
    <3>1. issuer_keys'[k] = issuer_keys[k]
      BY <1>1, <2>3
    <3> QED
      BY <1>1, <1>5, <2>3, <3>1 DEF RegistryInv, RotationHandsOver
  <2> QED
    BY <1>1, <2>1, <2>2, <2>3
<1>13. RotationIsAChain'
  <2>1. \A k \in DOMAIN issuer_keys' : k # old =>
          /\ issuer_keys'[k].successor_key_id # new
          /\ \/ issuer_keys'[k].successor_key_id = NoKeyId
             \/ /\ k \in DOMAIN issuer_keys
                /\ issuer_keys'[k].successor_key_id = issuer_keys[k].successor_key_id
    BY <1>1, <1>3, <1>9, AbsentIdentifiersAssumption
  <2>2. \A k, l \in DOMAIN issuer_keys' :
          issuer_keys'[k].successor_key_id = issuer_keys'[l].successor_key_id
            => k = l \/ issuer_keys'[k].successor_key_id = NoKeyId
    BY <1>1, <1>4, <2>1 DEF RegistryInv, RotationIsAChain
  <2>3. ASSUME NEW i \in 1 .. n + 1, NEW j \in 1 .. n + 1,
               issuer_keys'[issuer_key_ids'[i]].successor_key_id = issuer_key_ids'[j]
        PROVE  i < j
    <3>1. issuer_key_ids'[j] # NoKeyId
      BY <1>1, <1>2, <1>7, <1>8, AbsentIdentifiersAssumption
         DEF RegistryInv, RegistryTypeOK
    <3>2. i \in 1 .. n /\ issuer_key_ids'[i] = issuer_key_ids[i]
      BY <1>2, <1>3, <1>8, <2>3, <3>1
    <3>3. CASE j = n + 1
      BY <1>2, <3>2, <3>3
    <3>4. CASE j \in 1 .. n
      <4>1. issuer_key_ids'[j] = issuer_key_ids[j] /\ issuer_key_ids[j] # new
        BY <1>1, <1>2, <1>7, <3>4
      <4>2. issuer_key_ids[i] # old
        BY <1>4, <2>3, <3>2, <4>1
      <4>3. issuer_keys[issuer_key_ids[i]].successor_key_id = issuer_key_ids[j]
        BY <1>1, <1>7, <2>3, <3>2, <4>1, <4>2
      <4> QED
        BY <1>2, <3>2, <3>4, <4>3 DEF RegistryInv, RotationIsAChain
    <3> QED
      BY <1>8, <3>3, <3>4
  <2> QED
    BY <1>2, <2>2, <2>3 DEF RotationIsAChain
<1> QED
  BY <1>10, <1>11, <1>12, <1>13 DEF RegistryInv

LEMMA TickKeepsInv == RegistryInv /\ RegistryTypeOK' /\ Tick => RegistryInv'
<1> SUFFICES ASSUME RegistryInv, RegistryTypeOK', Tick
             PROVE  RegistryInv'
    OBVIOUS
<1>1. RegisteredInThePast'
  BY DEF Tick, RegistryInv, RegistryTypeOK, IssuerKeys, RegisteredInThePast
<1> QED
  BY <1>1 DEF Tick, RegistryInv, KeyListIsComplete, RotationHandsOver,
              RotationIsAChain

LEMMA RegistryInvNext ==
    RegistryInv /\ [RegistryNext]_registryVars => RegistryInv'
<1> SUFFICES ASSUME RegistryInv, [RegistryNext]_registryVars
             PROVE  RegistryInv'
    OBVIOUS
<1>1. RegistryTypeOK'
  BY RegistryTypeNext DEF RegistryInv
<1>2. CASE AdministerKeys
  BY <1>1, <1>2, RegisterKeepsInv, RevokeKeepsInv, RotateKeepsInv DEF AdministerKeys
<1>3. CASE Tick
  BY <1>1, <1>3, TickKeepsInv
<1>4. CASE UNCHANGED registryVars
  BY <1>1, <1>4 DEF registryVars, RegistryInv, RegisteredInThePast,
                    KeyListIsComplete, RotationHandsOver, RotationIsAChain
<1> QED
  BY <1>2, <1>3, <1>4 DEF RegistryNext

LEMMA RegistryInvariance == RegistrySpec => []RegistryInv
BY RegistryInvInit, RegistryInvNext, PTL DEF RegistrySpec

(* The key list names every registered key once, in registration order.    *)
THEOREM KeyListCorrect == RegistrySpec => []KeyListIsComplete
<1>1. RegistryInv => KeyListIsComplete
  BY DEF RegistryInv
<1> QED
  BY <1>1, RegistryInvariance, PTL

(* rotate_issuer_key hands each rotated key over, at once and within its   *)
(* issuer, to a registered successor.                                      *)
THEOREM RotationHandsOverCorrect == RegistrySpec => []RotationHandsOver
<1>1. RegistryInv => RotationHandsOver
  BY DEF RegistryInv
<1> QED
  BY <1>1, RegistryInvariance, PTL

(* Rotation histories are chains: they neither merge nor return.           *)
THEOREM RotationIsAChainCorrect == RegistrySpec => []RotationIsAChain
<1>1. RegistryInv => RotationIsAChain
  BY DEF RegistryInv
<1> QED
  BY <1>1, RegistryInvariance, PTL

LEMMA RotateKeepsKeys ==
    ASSUME RegistryTypeOK, NEW sender, NEW old \in KeyIds,
           NEW request \in KeyRequests, RotateIssuerKey(sender, old, request)
    PROVE  KeepsKeys
<1>1. /\ old \in DOMAIN issuer_keys /\ issuer_keys[old].status = "ACTIVE"
      /\ issuer_keys[old].issuer_id = request.issuer_id
      /\ request.key_id \in KeyIds \ DOMAIN issuer_keys
      /\ DOMAIN issuer_keys' = DOMAIN issuer_keys \cup {request.key_id}
      /\ issuer_keys'[request.key_id] = NewKey(request)
      /\ issuer_keys'[old] = RotatedTo(issuer_keys[old], request.key_id)
      /\ \A k \in DOMAIN issuer_keys : k # old => issuer_keys'[k] = issuer_keys[k]
      /\ issuer_key_ids' = Append(issuer_key_ids, request.key_id)
      /\ now' = now
  BY RotateEffect
<1>2. /\ issuer_keys'[old].issuer_id = issuer_keys[old].issuer_id
      /\ issuer_keys'[old].public_key = issuer_keys[old].public_key
      /\ issuer_keys'[old].registered_at = issuer_keys[old].registered_at
  BY <1>1, RetiredKeepsIdentity DEF RegistryTypeOK
<1> QED
  BY <1>1, <1>2 DEF KeepsKeys

LEMMA RegistryNextKeepsKeys ==
    RegistryTypeOK /\ [RegistryNext]_registryVars => KeepsKeys
<1> SUFFICES ASSUME RegistryTypeOK, [RegistryNext]_registryVars
             PROVE  KeepsKeys
    OBVIOUS
<1>1. ASSUME NEW sender, NEW request \in KeyRequests,
             RegisterIssuerKey(sender, request)
      PROVE  KeepsKeys
  BY <1>1, RegisterEffect DEF KeepsKeys
<1>2. ASSUME NEW sender, NEW k \in KeyIds, RevokeIssuerKey(sender, k)
      PROVE  KeepsKeys
  BY <1>2, RevokeEffect, RetiredKeepsIdentity DEF RegistryTypeOK, KeepsKeys
<1>3. ASSUME NEW sender, NEW old \in KeyIds, NEW request \in KeyRequests,
             RotateIssuerKey(sender, old, request)
      PROVE  KeepsKeys
  BY <1>3, RotateKeepsKeys
<1>4. CASE Tick \/ UNCHANGED registryVars
  BY <1>4 DEF Tick, registryVars, KeepsKeys
<1> QED
  BY <1>1, <1>2, <1>3, <1>4 DEF RegistryNext, AdministerKeys

(* No administrative call rewrites the identity of a key or revives one.   *)
THEOREM KeyHistoryCorrect == RegistrySpec => KeyHistoryIsKept
<1>1. RegistryTypeOK /\ [RegistryNext]_registryVars => [KeepsKeys]_registryVars
  BY RegistryNextKeepsKeys
<1> QED
  BY <1>1, RegistryTypeCorrect, PTL DEF RegistrySpec, KeyHistoryIsKept
=============================================================================
