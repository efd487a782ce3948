-------------------------- MODULE CryptoStackProofs --------------------------
(***************************************************************************)
(* KeyLifecycle, for any PDUs and key identifiers: keys that were replaced *)
(* stay dead, acknowledged keys survive restarts, a serving process has    *)
(* all its keys, and a failing HSM changes nothing.                        *)
(*                                                                         *)
(* Then CryptoStack: the same holds with the other users of the HSM around *)
(* the key manager, key pairs and wrapping keys generated under its own    *)
(* key_ids; and a streamed digest covers exactly the data fed to its       *)
(* context since the digest before it.  The chunks of a context are joined *)
(* by a recursive function (FlattenSeq), of which one equation is needed:  *)
(* what one more chunk does to the result (FlattenAppend).  That the       *)
(* recursion defines a function at all is shown by a least counterexample. *)
(***************************************************************************)
EXTENDS CryptoStack, SequenceTheorems, WellFoundedInduction, TLAPS

(* NoKey is no metadata: a PDU whose metadata is not NoKey has a key. *)
LEMMA MetaTyped ==
  ASSUME TypeOK, NEW p \in Pdu, meta[p] # NoKey
  PROVE  meta[p].key \in KeyId /\ meta[p].version \in Nat
BY DEF TypeOK, KeyMetadata

(* The invariant holds of a first start. *)
LEMMA KeyInit == Init => KeyInv
<1> SUFFICES ASSUME Init PROVE KeyInv
  OBVIOUS
<1>1. TypeOK
  BY DEF Init, TypeOK
<1>2. Drawn
  <2>1. \A k \in KeyId : keyStore[k] = 0
    BY DEF Init
  <2>2. generated = 0 /\ \A p \in Pdu : made[p] \cup retired[p] = {}
    BY DEF Init
  <2>3. ASSUME NEW k \in KeyId PROVE keyStore[k] <= generated
    <3>1. keyStore[k] = 0 /\ generated = 0
      BY <2>1, <2>2
    <3> QED
      BY <3>1
  <2> QED
    BY <2>2, <2>3 DEF Drawn
<1>3. OldMacsDead /\ AckedKeyDurable /\ ServingHasKeys /\ MetaAccounted /\ StartsFromDisk
  BY DEF Init, OldMacsDead, AckedKeyDurable, ServingHasKeys, MetaAccounted, StartsFromDisk
<1> QED
  BY <1>1, <1>2, <1>3 DEF KeyInv

(* A new key takes a material beyond all that were drawn. *)
LEMMA GenerateStep ==
  ASSUME TypeOK, Drawn, NEW k \in KeyId, generate_symmetric_key(k)
  PROVE  /\ generated' \in Nat /\ generated' = generated + 1
         /\ keyStore' \in [KeyId -> Nat]
         /\ keyStore'[k] = generated + 1
         /\ \A j \in KeyId : keyStore'[j] <= generated'
         /\ \A j \in KeyId : keyStore'[j] = keyStore[j] \/ keyStore'[j] = generated + 1
<1>1. generated \in Nat /\ keyStore \in [KeyId -> Nat]
  BY DEF TypeOK
<1>2. generated' = generated + 1 /\ keyStore' = [keyStore EXCEPT ![k] = generated + 1]
  BY DEF generate_symmetric_key
<1>3. keyStore'[k] = generated + 1 /\ \A j \in KeyId \ {k} : keyStore'[j] = keyStore[j]
  BY <1>1, <1>2
<1>4. ASSUME NEW j \in KeyId PROVE keyStore'[j] <= generated'
  <2>1. keyStore[j] \in Nat /\ keyStore[j] <= generated
    BY <1>1 DEF Drawn
  <2> QED
    BY <1>1, <1>2, <1>3, <2>1
<1> QED
  BY <1>1, <1>2, <1>3, <1>4

(* A material beyond all that were drawn is retired for no PDU. *)
LEMMA NewIsNotRetired ==
  ASSUME TypeOK, Drawn, NEW p \in Pdu
  PROVE  generated + 1 \notin made[p] \cup retired[p]
<1>1. generated \in Nat
  BY DEF TypeOK
<1>2. \A n \in made[p] \cup retired[p] : n \in Nat /\ n <= generated
  BY DEF TypeOK, Drawn
<1> QED
  BY <1>1, <1>2

(* Provisioning and rotating preserve the invariant, whether or not the save
   succeeds. *)
LEMMA InstallStep ==
  ASSUME KeyInv, NEW p \in Pdu, NEW r \in KeyMetadata, Install(p, r), UNCHANGED serving,
         serving \/ disk' = meta'
  PROVE  KeyInv'
<1>1. TypeOK /\ Drawn /\ r.key \in KeyId /\ r # NoKey
  BY KeyAssumption DEF KeyInv, KeyMetadata
<1>2. /\ generate_symmetric_key(r.key)
      /\ meta' = [meta EXCEPT ![p] = r]
      /\ retired' = [retired EXCEPT ![p] = made[p]]
      /\ failing' = failing /\ made' = made /\ serving' = serving
  BY DEF Install, save_key_metadata
<1>3. \/ /\ disk' = meta' /\ acked' = [acked EXCEPT ![p] = r]
         /\ unacked' = [unacked EXCEPT ![p] = {}]
      \/ /\ unacked' = [unacked EXCEPT ![p] = @ \cup {r}]
         /\ disk' = disk /\ acked' = acked
  BY DEF Install, save_key_metadata
<1>4. /\ generated' \in Nat /\ generated' = generated + 1 /\ generated \in Nat
      /\ keyStore' \in [KeyId -> Nat]
      /\ keyStore'[r.key] = generated + 1
      /\ \A j \in KeyId : keyStore'[j] <= generated'
      /\ \A j \in KeyId : keyStore'[j] = keyStore[j] \/ keyStore'[j] = generated + 1
  BY <1>1, <1>2, GenerateStep DEF TypeOK
<1>5. /\ meta'[p] = r /\ retired'[p] = made[p]
      /\ \A q \in Pdu \ {p} : meta'[q] = meta[q] /\ retired'[q] = retired[q]
  BY <1>1, <1>2 DEF TypeOK
<1>6. TypeOK'
  <2>1. meta' \in [Pdu -> KeyMetadata \cup {NoKey}] /\ retired' \in [Pdu -> SUBSET Nat]
    BY <1>1, <1>2 DEF TypeOK
  <2>2. /\ disk' \in [Pdu -> KeyMetadata \cup {NoKey}]
        /\ acked' \in [Pdu -> KeyMetadata \cup {NoKey}]
        /\ unacked' \in [Pdu -> SUBSET (KeyMetadata \cup {NoKey})]
    BY <1>1, <1>3, <2>1 DEF TypeOK
  <2> QED
    BY <1>1, <1>2, <1>4, <2>1, <2>2 DEF TypeOK
<1>7. Drawn'
  <2>1. ASSUME NEW q \in Pdu, NEW n \in made'[q] \cup retired'[q]
        PROVE  0 < n /\ n <= generated'
    <3>1. n \in made[q] \cup retired[q]
      BY <1>2, <1>5
    <3>2. n \in Nat /\ 0 < n /\ n <= generated
      BY <1>1, <3>1 DEF TypeOK, Drawn
    <3> QED
      BY <1>4, <3>2
  <2> QED
    BY <1>4, <2>1 DEF Drawn
<1>8. OldMacsDead'
  <2>1. keyStore'[meta'[p].key] \notin retired'[p]
    BY <1>1, <1>4, <1>5, NewIsNotRetired
  <2>2. ASSUME NEW q \in Pdu \ {p}, meta'[q] # NoKey
        PROVE  keyStore'[meta'[q].key] \notin retired'[q]
    <3>1. meta'[q] = meta[q] /\ retired'[q] = retired[q] /\ meta[q].key \in KeyId
      BY <1>1, <1>5, <2>2, MetaTyped
    <3>2. keyStore[meta[q].key] \notin retired[q]
      BY <2>2, <3>1 DEF KeyInv, OldMacsDead
    <3> QED
      BY <1>1, <1>4, <3>1, <3>2, NewIsNotRetired
  <2> QED
    BY <2>1, <2>2 DEF OldMacsDead
<1>9. AckedKeyDurable' /\ MetaAccounted'
  <2>1. \A q \in Pdu : /\ disk[q] \in {acked[q]} \cup unacked[q]
                       /\ meta[q] \in {acked[q]} \cup unacked[q]
    BY DEF KeyInv, AckedKeyDurable, MetaAccounted
  <2>2. CASE /\ disk' = meta' /\ acked' = [acked EXCEPT ![p] = r]
             /\ unacked' = [unacked EXCEPT ![p] = {}]
    <3>1. acked'[p] = r /\ \A q \in Pdu \ {p} : acked'[q] = acked[q] /\ unacked'[q] = unacked[q]
      BY <1>1, <2>2 DEF TypeOK
    <3> QED
      BY <1>5, <2>1, <2>2, <3>1 DEF AckedKeyDurable, MetaAccounted
  <2>3. CASE /\ unacked' = [unacked EXCEPT ![p] = @ \cup {r}]
             /\ disk' = disk /\ acked' = acked
    <3>1. /\ unacked'[p] = unacked[p] \cup {r}
          /\ \A q \in Pdu \ {p} : unacked'[q] = unacked[q]
      BY <1>1, <2>3 DEF TypeOK
    <3> QED
      BY <1>5, <2>1, <2>3, <3>1 DEF AckedKeyDurable, MetaAccounted
  <2> QED
    BY <1>3, <2>2, <2>3
<1>10. ServingHasKeys'
  <2>1. ASSUME serving', NEW q \in Pdu PROVE meta'[q] # NoKey /\ disk'[q] # NoKey
    <3>1. meta[q] # NoKey /\ disk[q] # NoKey
      BY <1>2, <2>1 DEF KeyInv, ServingHasKeys
    <3>2. meta'[q] # NoKey
      BY <1>1, <1>5, <3>1
    <3> QED
      BY <1>3, <3>1, <3>2
  <2> QED
    BY <2>1 DEF ServingHasKeys
<1>11. StartsFromDisk'
  BY <1>2 DEF StartsFromDisk
<1> QED
  BY <1>6, <1>7, <1>8, <1>9, <1>10, <1>11 DEF KeyInv

(* A MAC computation may make up a key, and notes the material it used. *)
LEMMA MacStep ==
  ASSUME KeyInv, NEW p \in Pdu, hmac_sha256(p)
  PROVE  KeyInv'
<1> DEFINE k == meta[p].key
<1>1. TypeOK /\ Drawn /\ k \in KeyId
  BY MetaTyped DEF KeyInv, hmac_sha256
<1>2. /\ made' = [made EXCEPT ![p] = @ \cup {keyStore'[k]}]
      /\ UNCHANGED <<serving, meta, disk, failing, retired, acked, unacked>>
  BY DEF hmac_sha256
<1>3. /\ generated \in Nat /\ generated' \in Nat /\ generated <= generated'
      /\ keyStore' \in [KeyId -> Nat]
      /\ \A j \in KeyId : keyStore'[j] <= generated'
      /\ \A j \in KeyId : keyStore'[j] = keyStore[j] \/ keyStore'[j] = generated + 1
      /\ keyStore'[k] \in Nat /\ 0 < keyStore'[k]
  <2>0. generated \in Nat /\ keyStore \in [KeyId -> Nat] /\ \A j \in KeyId : keyStore[j] <= generated
    BY <1>1 DEF TypeOK, Drawn
  <2>1. CASE keyStore[k] = 0
    <3>1. generate_symmetric_key(k)
      BY <2>1 DEF hmac_sha256
    <3> QED
      BY <1>1, <2>0, <3>1, GenerateStep
  <2>2. CASE keyStore[k] # 0
    <3>1. generated' = generated /\ keyStore' = keyStore
      BY <2>2 DEF hmac_sha256
    <3>2. keyStore[k] \in Nat /\ keyStore[k] # 0
      BY <1>1, <2>0, <2>2
    <3> QED
      BY <2>0, <3>1, <3>2
  <2> QED
    BY <2>1, <2>2
<1>4. /\ made'[p] = made[p] \cup {keyStore'[k]}
      /\ \A q \in Pdu \ {p} : made'[q] = made[q]
  BY <1>1, <1>2 DEF TypeOK
<1>5. TypeOK'
  <2>1. made' \in [Pdu -> SUBSET Nat]
    BY <1>1, <1>2, <1>3 DEF TypeOK
  <2> QED
    BY <1>1, <1>2, <1>3, <2>1 DEF TypeOK
<1>6. Drawn'
  <2>1. ASSUME NEW q \in Pdu, NEW n \in made'[q] \cup retired'[q]
        PROVE  0 < n /\ n <= generated'
    <3>1. CASE n \in made[q] \cup retired[q]
      <4>1. n \in Nat /\ 0 < n /\ n <= generated
        BY <1>1, <3>1 DEF TypeOK, Drawn
      <4> QED
        BY <1>3, <4>1
    <3>2. CASE n = keyStore'[k]
      BY <1>1, <1>3, <3>2
    <3> QED
      BY <1>2, <1>4, <2>1, <3>1, <3>2
  <2> QED
    BY <1>3, <2>1 DEF Drawn
<1>7. OldMacsDead'
  <2>1. ASSUME NEW q \in Pdu, meta'[q] # NoKey
        PROVE  keyStore'[meta'[q].key] \notin retired'[q]
    <3>1. meta'[q] = meta[q] /\ retired'[q] = retired[q] /\ meta[q].key \in KeyId
      BY <1>1, <1>2, <2>1, MetaTyped
    <3>2. keyStore[meta[q].key] \notin retired[q]
      BY <2>1, <3>1 DEF KeyInv, OldMacsDead
    <3> QED
      BY <1>1, <1>3, <3>1, <3>2, NewIsNotRetired
  <2> QED
    BY <2>1 DEF OldMacsDead
<1>8. AckedKeyDurable' /\ MetaAccounted' /\ ServingHasKeys' /\ StartsFromDisk'
  BY <1>2 DEF KeyInv, AckedKeyDurable, MetaAccounted, ServingHasKeys, StartsFromDisk
<1> QED
  BY <1>5, <1>6, <1>7, <1>8 DEF KeyInv

(* A restart has the disk's metadata, or none, and no key at all. *)
LEMMA RestartStep ==
  ASSUME KeyInv, Restart
  PROVE  KeyInv'
<1>1. /\ disk' = disk /\ keyStore' = [k \in KeyId |-> 0]
      /\ serving' = FALSE /\ failing' = FALSE
      /\ UNCHANGED <<generated, made, retired, acked>>
  BY DEF Restart
<1>load. \/ meta' = disk /\ unacked' = unacked
         \/ /\ meta' = [p \in Pdu |-> NoKey]
            /\ unacked' = [p \in Pdu |-> unacked[p] \cup {NoKey}]
  BY DEF Restart, load
<1>2. TypeOK'
  <2>1. /\ meta' \in [Pdu -> KeyMetadata \cup {NoKey}]
        /\ unacked' \in [Pdu -> SUBSET (KeyMetadata \cup {NoKey})]
    BY <1>load DEF KeyInv, TypeOK
  <2> QED
    BY <1>1, <2>1 DEF KeyInv, TypeOK
<1>3. \A k \in KeyId : keyStore'[k] = 0
  BY <1>1
<1>4. Drawn'
  <2>1. generated \in Nat
    BY DEF KeyInv, TypeOK
  <2>2. ASSUME NEW k \in KeyId PROVE keyStore'[k] <= generated'
    <3>1. keyStore'[k] = 0 /\ generated' = generated
      BY <1>1, <1>3
    <3> QED
      BY <2>1, <3>1
  <2>3. \A p \in Pdu : \A n \in made[p] \cup retired[p] : 0 < n /\ n <= generated
    BY DEF KeyInv, Drawn
  <2> QED
    BY <1>1, <2>2, <2>3 DEF Drawn
<1>5. OldMacsDead'
  <2>1. ASSUME NEW p \in Pdu, meta'[p] # NoKey
        PROVE  keyStore'[meta'[p].key] \notin retired'[p]
    <3>1. meta'[p] \in KeyMetadata
      BY <1>2, <2>1 DEF TypeOK
    <3>2. meta'[p].key \in KeyId
      BY <1>1, <3>1 DEF KeyMetadata
    <3>3. \A n \in retired[p] : n \in Nat /\ 0 < n
      BY DEF KeyInv, TypeOK, Drawn
    <3>4. 0 \notin retired[p]
      BY <3>3
    <3> QED
      BY <1>1, <1>3, <3>2, <3>4
  <2> QED
    BY <2>1 DEF OldMacsDead
<1>6. AckedKeyDurable' /\ MetaAccounted'
  <2>1. CASE meta' = disk /\ unacked' = unacked
    BY <1>1, <2>1 DEF KeyInv, AckedKeyDurable, MetaAccounted
  <2>2. CASE /\ meta' = [p \in Pdu |-> NoKey]
             /\ unacked' = [p \in Pdu |-> unacked[p] \cup {NoKey}]
    BY <1>1, <2>2 DEF KeyInv, AckedKeyDurable, MetaAccounted
  <2> QED
    BY <1>load, <2>1, <2>2
<1>7. ServingHasKeys' /\ StartsFromDisk'
  BY <1>1, <1>load DEF ServingHasKeys, StartsFromDisk
<1> QED
  BY <1>2, <1>4, <1>5, <1>6, <1>7 DEF KeyInv

(* Every step preserves the invariant. *)
LEMMA KeyStep == KeyInv /\ [Next]_vars => KeyInv'
<1> SUFFICES ASSUME KeyInv, [Next]_vars PROVE KeyInv'
  OBVIOUS
<1>1. ASSUME NEW p \in Pdu, NEW k \in KeyId, provision_key(p, k)
      PROVE  KeyInv'
  <2>1. [key |-> k, version |-> 1] \in KeyMetadata
    BY DEF KeyMetadata
  <2> QED
    BY <1>1, <2>1, InstallStep DEF provision_key
<1>2. ASSUME NEW p \in Pdu, NEW k \in KeyId, rotate_key(p, k)
      PROVE  KeyInv'
  <2>1. meta[p].version \in Nat
    BY <1>2, MetaTyped DEF rotate_key, KeyInv
  <2>2. [key |-> k, version |-> meta[p].version + 1] \in KeyMetadata
    BY <2>1 DEF KeyMetadata
  <2> QED
    BY <1>2, <2>2, InstallStep DEF rotate_key
<1>3. ASSUME NEW p \in Pdu, provision_keys(p)
      PROVE  KeyInv'
  <2>1. [key |-> ProfileKey[p], version |-> 1] \in KeyMetadata
    BY KeyAssumption DEF KeyMetadata
  <2> QED
    BY <1>3, <2>1, InstallStep DEF provision_keys
<1>4. CASE Serve
  <2>1. TypeOK' /\ OldMacsDead' /\ Drawn'
    BY <1>4 DEF Serve, KeyInv, TypeOK, OldMacsDead, Drawn, histVars
  <2>2. AckedKeyDurable' /\ MetaAccounted' /\ StartsFromDisk'
    BY <1>4 DEF Serve, KeyInv, AckedKeyDurable, MetaAccounted, StartsFromDisk, histVars
  <2>3. ServingHasKeys'
    BY <1>4 DEF Serve, KeyInv, ServingHasKeys, StartsFromDisk
  <2> QED
    BY <2>1, <2>2, <2>3 DEF KeyInv
<1>5. ASSUME NEW p \in Pdu, hmac_sha256(p)
      PROVE  KeyInv'
  BY <1>5, MacStep
<1>6. ASSUME NEW fail \in BOOLEAN, simulate_failure(fail)
      PROVE  KeyInv'
  <2>1. TypeOK' /\ OldMacsDead' /\ Drawn'
    BY <1>6 DEF simulate_failure, KeyInv, TypeOK, OldMacsDead, Drawn, histVars
  <2>2. AckedKeyDurable' /\ MetaAccounted' /\ StartsFromDisk' /\ ServingHasKeys'
    BY <1>6 DEF simulate_failure, KeyInv, AckedKeyDurable, MetaAccounted, StartsFromDisk,
                ServingHasKeys, histVars
  <2> QED
    BY <2>1, <2>2 DEF KeyInv
<1>7. CASE flush
  <2>1. TypeOK' /\ OldMacsDead' /\ Drawn'
    BY <1>7 DEF flush, KeyInv, TypeOK, OldMacsDead, Drawn, histVars
  <2>2. AckedKeyDurable' /\ MetaAccounted' /\ StartsFromDisk' /\ ServingHasKeys'
    BY <1>7 DEF flush, KeyInv, AckedKeyDurable, MetaAccounted, StartsFromDisk,
                ServingHasKeys, histVars
  <2> QED
    BY <2>1, <2>2 DEF KeyInv
<1>8. CASE Restart
  BY <1>8, RestartStep
<1>9. CASE UNCHANGED vars
  BY <1>9 DEF vars, histVars, KeyInv, TypeOK, OldMacsDead, AckedKeyDurable, ServingHasKeys,
              Drawn, MetaAccounted, StartsFromDisk
<1> QED
  BY <1>1, <1>2, <1>3, <1>4, <1>5, <1>6, <1>7, <1>8, <1>9 DEF Next

(* The invariant, in every reachable state. *)
THEOREM KeyInvariance == Spec => []KeyInv
<1>1. Init => KeyInv
  BY KeyInit
<1>2. KeyInv /\ [Next]_vars => KeyInv'
  BY KeyStep
<1> QED
  BY <1>1, <1>2, PTL DEF Spec

(* A MAC made before its PDU's key was last changed verifies no more. *)
THEOREM OldMacsDeadHolds == Spec => []OldMacsDead
BY KeyInvariance, PTL DEF KeyInv

(* The metadata a caller was given is what a restart finds. *)
THEOREM AckedKeyDurableHolds == Spec => []AckedKeyDurable
BY KeyInvariance, PTL DEF KeyInv

(* A serving process, and the one after it, has a key for every profile. *)
THEOREM ServingHasKeysHolds == Spec => []ServingHasKeys
BY KeyInvariance, PTL DEF KeyInv

(* As long as the HSM fails, no key and no metadata changes. *)
THEOREM FailureInertHolds == Spec => FailureInert
<1>1. [Next]_vars => (failing /\ failing' => UNCHANGED <<keyStore, meta>>)
  <2> SUFFICES ASSUME [Next]_vars, failing, failing' PROVE UNCHANGED <<keyStore, meta>>
    OBVIOUS
  <2>1. ASSUME NEW p \in Pdu, NEW r, Install(p, r) PROVE FALSE
    BY <2>1 DEF Install, generate_symmetric_key
  <2>2. ASSUME NEW p \in Pdu, hmac_sha256(p) PROVE FALSE
    BY <2>2 DEF hmac_sha256
  <2>3. CASE Serve \/ flush \/ \E fail \in BOOLEAN : simulate_failure(fail)
    BY <2>3 DEF Serve, flush, simulate_failure
  <2>4. CASE Restart
    BY <2>4 DEF Restart
  <2> QED
    BY <2>1, <2>2, <2>3, <2>4 DEF Next, provision_key, rotate_key, provision_keys, vars
<1> QED
  BY <1>1, PTL DEF Spec, FailureInert
-----------------------------------------------------------------------------

(* A key generated by anybody, under whatever key_id, preserves the
   invariant as long as nothing else changes. *)
LEMMA GeneratedStep ==
  ASSUME KeyInv, NEW k \in KeyId, generate_symmetric_key(k), UNCHANGED keyVars
  PROVE  KeyInv'
<1>1. TypeOK /\ Drawn
  BY DEF KeyInv
<1>2. UNCHANGED <<serving, meta, disk, failing, made, retired, acked, unacked>>
  BY DEF keyVars, histVars
<1>3. /\ generated' \in Nat /\ generated' = generated + 1 /\ generated \in Nat
      /\ keyStore' \in [KeyId -> Nat]
      /\ \A j \in KeyId : keyStore'[j] <= generated'
      /\ \A j \in KeyId : keyStore'[j] = keyStore[j] \/ keyStore'[j] = generated + 1
  BY <1>1, GenerateStep DEF TypeOK
<1>4. TypeOK'
  BY <1>1, <1>2, <1>3 DEF TypeOK
<1>5. Drawn'
  <2>1. ASSUME NEW q \in Pdu, NEW n \in made[q] \cup retired[q]
        PROVE  0 < n /\ n <= generated'
    <3>1. n \in Nat /\ 0 < n /\ n <= generated
      BY <1>1, <2>1 DEF TypeOK, Drawn
    <3> QED
      BY <1>3, <3>1
  <2> QED
    BY <1>2, <1>3, <2>1 DEF Drawn
<1>6. OldMacsDead'
  <2>1. ASSUME NEW q \in Pdu, meta[q] # NoKey
        PROVE  keyStore'[meta[q].key] \notin retired[q]
    <3>1. meta[q].key \in KeyId /\ keyStore[meta[q].key] \notin retired[q]
      BY <1>1, <2>1, MetaTyped DEF KeyInv, OldMacsDead
    <3> QED
      BY <1>1, <1>3, <3>1, NewIsNotRetired
  <2> QED
    BY <1>2, <2>1 DEF OldMacsDead
<1>7. AckedKeyDurable' /\ MetaAccounted' /\ ServingHasKeys' /\ StartsFromDisk'
  BY <1>2 DEF KeyInv, AckedKeyDurable, MetaAccounted, ServingHasKeys, StartsFromDisk
<1> QED
  BY <1>4, <1>5, <1>6, <1>7 DEF KeyInv

(* Every step of the stack preserves the key manager's invariant. *)
LEMMA StackStep == KeyInv /\ [StackNext]_stackVars => KeyInv'
<1> SUFFICES ASSUME KeyInv, [StackNext]_stackVars PROVE KeyInv'
  OBVIOUS
<1>1. CASE [Next]_vars
  BY <1>1, KeyStep
<1>2. ASSUME NEW k \in KeyId, generate_key_pair(k)
      PROVE  KeyInv'
  BY <1>2, GeneratedStep DEF generate_key_pair
<1>3. ASSUME NEW k \in KeyId, wrap_key(k)
      PROVE  KeyInv'
  <2>1. CASE generate_symmetric_key(k)
    BY <1>3, <2>1, GeneratedStep DEF wrap_key
  <2>2. CASE UNCHANGED <<generated, keyStore>>
    <3>1. UNCHANGED vars
      BY <1>3, <2>2 DEF wrap_key, keyVars, vars
    <3> QED
      BY <3>1, <1>1
  <2> QED
    BY <1>3, <2>1, <2>2 DEF wrap_key, aes_gcm_encrypt
<1>4. ASSUME NEW p \in Pdu, compute_mac(p)
      PROVE  [Next]_vars
  BY <1>4 DEF compute_mac, Next
<1>5. ASSUME KeyManagerStep
      PROVE  [Next]_vars
  BY <1>5 DEF KeyManagerStep, Next
<1>6. ASSUME StackRestart
      PROVE  [Next]_vars
  BY <1>6 DEF StackRestart, Next
<1>7. ASSUME NEW k \in KeyId, verify_signature(k)
      PROVE  [Next]_vars
  BY <1>7 DEF verify_signature
<1>8. ASSUME NEW data \in Chunk, compute_hash(data)
      PROVE  [Next]_vars
  BY <1>8 DEF compute_hash
<1>9. ASSUME NEW c \in Context, NEW chunk \in Chunk, hash_update(c, chunk)
      PROVE  [Next]_vars
  BY <1>9 DEF hash_update
<1>10. ASSUME NEW c \in Context, hash_finish(c)
       PROVE  [Next]_vars
  BY <1>10 DEF hash_finish
<1>11. CASE UNCHANGED stackVars
  <2>1. UNCHANGED vars
    BY <1>11 DEF stackVars
  <2> QED
    BY <2>1, <1>1
<1> QED
  BY <1>1, <1>2, <1>3, <1>4, <1>5, <1>6, <1>7, <1>8, <1>9, <1>10, <1>11 DEF StackNext

(* The key manager's invariant, in every reachable state of the stack. *)
THEOREM StackKeyInvariance == StackSpec => []KeyInv
<1>1. StackInit => KeyInv
  BY KeyInit DEF StackInit
<1>2. KeyInv /\ [StackNext]_stackVars => KeyInv'
  BY StackStep
<1> QED
  BY <1>1, <1>2, PTL DEF StackSpec

(* Whoever generates keys: MACs of a replaced key verify no more. *)
THEOREM StackOldMacsDead == StackSpec => []OldMacsDead
BY StackKeyInvariance, PTL DEF KeyInv

(* ... the metadata a caller was given is what a restart finds, *)
THEOREM StackAckedKeyDurable == StackSpec => []AckedKeyDurable
BY StackKeyInvariance, PTL DEF KeyInv

(* ... and a serving process, and the next one, has a key for every profile. *)
THEOREM StackServingHasKeys == StackSpec => []ServingHasKeys
BY StackKeyInvariance, PTL DEF KeyInv
-----------------------------------------------------------------------------
(* Every nonempty set of naturals has a least element. *)
LEMMA LeastNatural ==
  ASSUME NEW T \in SUBSET Nat, T # {}
  PROVE  \E n \in T : \A m \in T : n <= m
<1> DEFINE R == OpToRel(<, Nat)
<1>1. IsWellFoundedOn(R, Nat)
  BY NatLessThanWellFounded
<1>2. R = {ss \in Nat \X Nat : ss[1] < ss[2]}
  BY DEF OpToRel
<1>3. PICK n \in T : \A m \in T : ~(<<m, n>> \in R)
  <2> HIDE DEF R
  <2> QED BY <1>1, WFMin
<1>4. \A m \in T : ~(m < n)
  BY <1>2, <1>3
<1> QED BY <1>4

(* f joins the first n elements of s, one after the other. *)
Flattens(f, s, n) ==
  f = [i \in 1 .. n |-> IF i = 1 THEN s[i] ELSE f[i - 1] \o s[i]]

(* There is such an f, of any sequence. *)
LEMMA FlattensExists ==
  ASSUME NEW s, NEW n \in Nat
  PROVE  \E f : Flattens(f, s, n)
<1> DEFINE T == {k \in Nat : ~\E f : Flattens(f, s, k)}
<1>1. SUFFICES ASSUME T # {} PROVE FALSE
  OBVIOUS
<1>2. PICK k \in T : \A m \in T : k <= m
  <2>1. T \in SUBSET Nat
    OBVIOUS
  <2> HIDE DEF T
  <2> QED BY <1>1, <2>1, LeastNatural
<1>3. k # 0
  <2>1. Flattens([i \in 1 .. 0 |-> s[i]], s, 0)
    BY DEF Flattens
  <2> QED BY <2>1
<1>4. PICK f : Flattens(f, s, k - 1)
  <2>1. k - 1 \in Nat /\ k - 1 \notin T
    BY <1>2, <1>3
  <2> QED BY <2>1
<1> DEFINE next == IF k = 1 THEN s[k] ELSE f[k - 1] \o s[k]
           g == [i \in 1 .. k |-> IF i = k THEN next ELSE f[i]]
<1>5. ASSUME NEW i \in 1 .. k PROVE g[i] = IF i = 1 THEN s[i] ELSE g[i - 1] \o s[i]
  <2>1. CASE i = k
    <3>1. i # 1 => i - 1 \in 1 .. k /\ i - 1 # k
      BY <1>3
    <3> HIDE DEF next
    <3>2. g[i] = next /\ (i # 1 => g[i - 1] = f[i - 1])
      BY <2>1, <3>1
    <3> HIDE DEF g
    <3> QED BY <2>1, <3>2 DEF next
  <2>2. CASE i # k
    <3>1. i \in 1 .. k - 1 /\ (i # 1 => i - 1 \in 1 .. k /\ i - 1 # k)
      BY <1>3, <2>2
    <3>2. f[i] = IF i = 1 THEN s[i] ELSE f[i - 1] \o s[i]
      BY <1>4, <3>1 DEF Flattens
    <3> HIDE DEF next
    <3>3. g[i] = f[i] /\ (i # 1 => g[i - 1] = f[i - 1])
      BY <2>2, <3>1
    <3> HIDE DEF g
    <3> QED BY <3>2, <3>3
  <2> QED BY <2>1, <2>2
<1>6. g = [i \in 1 .. k |-> g[i]]
  OBVIOUS
<1>7. Flattens(g, s, k)
  <2> HIDE DEF g
  <2> QED BY <1>5, <1>6 DEF Flattens
<1> HIDE DEF g
<1> QED BY <1>7

(* Joining one more chunk, as hash_update prepares it: it comes last. *)
LEMMA FlattenAppend ==
  ASSUME NEW S, NEW s \in Seq(S), NEW e \in S
  PROVE  FlattenSeq(Append(s, e)) = IF s = << >> THEN e ELSE FlattenSeq(s) \o e
<1> DEFINE n == Len(s)
           long == Append(s, e)
           f == CHOOSE h : Flattens(h, s, n)
           g == CHOOSE h : Flattens(h, long, n + 1)
<1>1. /\ n \in Nat /\ long \in Seq(S) /\ Len(long) = n + 1 /\ long[n + 1] = e
      /\ \A i \in 1 .. n : long[i] = s[i]
  BY AppendProperties, LenProperties
<1>2. FlattenSeq(long) = g[n + 1]
  <2>1. Len(long) # 0
    BY <1>1
  <2>2. FlattenSeq(long) = (CHOOSE h : Flattens(h, long, Len(long)))[Len(long)]
    <3> HIDE DEF long
    <3> QED BY <2>1 DEF FlattenSeq, Flattens
  <2> QED BY <1>1, <2>2
<1>3. s # << >> => n # 0 /\ FlattenSeq(s) = f[n]
  <2>1. s # << >> => n # 0
    BY EmptySeq
  <2> QED BY <2>1 DEF FlattenSeq, Flattens
<1>4. s = << >> => n = 0
  BY EmptySeq
<1> HIDE DEF n, long
<1>5. Flattens(f, s, n)
  BY <1>1, FlattensExists
<1>6. Flattens(g, long, n + 1)
  <2>1. n + 1 \in Nat
    BY <1>1
  <2>2. \E h : Flattens(h, long, n + 1)
    BY <2>1, FlattensExists
  <2> QED BY <2>2
<1> HIDE DEF f, g
<1> DEFINE T == {k \in 1 .. n : f[k] # g[k]}
<1>7. ASSUME NEW i \in 1 .. n
      PROVE  /\ f[i] = IF i = 1 THEN s[i] ELSE f[i - 1] \o s[i]
             /\ g[i] = IF i = 1 THEN s[i] ELSE g[i - 1] \o s[i]
  <2>1. f[i] = IF i = 1 THEN s[i] ELSE f[i - 1] \o s[i]
    BY <1>5 DEF Flattens
  <2>2. i \in 1 .. n + 1 /\ long[i] = s[i]
    BY <1>1
  <2>3. g[i] = IF i = 1 THEN long[i] ELSE g[i - 1] \o long[i]
    BY <1>6, <2>2 DEF Flattens
  <2> QED BY <2>1, <2>2, <2>3
<1>8. T = {}
  <2> SUFFICES ASSUME T # {} PROVE FALSE
    OBVIOUS
  <2>1. T \in SUBSET Nat
    BY <1>1
  <2>2. PICK k \in T : \A m \in T : k <= m
    <3> HIDE DEF T
    <3> QED BY <2>1, LeastNatural
  <2>3. k # 1 /\ f[k - 1] # g[k - 1]
    BY <1>7, <2>2
  <2>4. k - 1 \in T
    BY <1>1, <2>2, <2>3
  <2>5. k \in Nat /\ k <= k - 1
    BY <2>1, <2>2, <2>4
  <2> QED BY <2>5
<1>9. g[n + 1] = IF n = 0 THEN long[n + 1] ELSE g[n] \o long[n + 1]
  <2> DEFINE m == n + 1
  <2>1. m \in 1 .. m
    BY <1>1
  <2>2. Flattens(g, long, m)
    BY <1>6
  <2>m. m = n + 1 /\ m - 1 = n /\ (m = 1 <=> n = 0)
    BY <1>1
  <2> HIDE DEF m
  <2>3. g[m] = IF m = 1 THEN long[m] ELSE g[m - 1] \o long[m]
    BY <2>1, <2>2 DEF Flattens
  <2> QED BY <2>3, <2>m
<1>10. CASE s = << >>
  BY <1>1, <1>2, <1>4, <1>9, <1>10 DEF long
<1>11. CASE s # << >>
  <2>1. n \in 1 .. n
    BY <1>1, <1>3, <1>11
  <2>2. f[n] = g[n]
    BY <1>8, <2>1
  <2> QED BY <1>1, <1>2, <1>3, <1>9, <1>11, <2>1, <2>2 DEF long
<1> QED BY <1>10, <1>11
-----------------------------------------------------------------------------
(* A span of s is a span of what s grows to. *)
LEMMA SpanKept ==
  ASSUME NEW S, NEW s \in Seq(S), NEW t \in Seq(S),
         NEW m \in 1 .. Len(s) + 1, NEW n \in m - 1 .. Len(s)
  PROVE  SubSeq(s \o t, m, n) = SubSeq(s, m, n)
<1>1. /\ Len(s) \in Nat /\ Len(t) \in Nat /\ s \o t \in Seq(S) /\ Len(s \o t) = Len(s) + Len(t)
      /\ \A i \in 1 .. Len(s) + Len(t) :
           (s \o t)[i] = IF i <= Len(s) THEN s[i] ELSE t[i - Len(s)]
  BY LenProperties, ConcatProperties
<1>2. \A i \in m .. n : i \in 1 .. Len(s) /\ (s \o t)[i] = s[i] /\ s[i] \in S
  <2>1. \A i \in m .. n : i \in 1 .. Len(s) /\ i \in 1 .. Len(s) + Len(t) /\ i <= Len(s)
    BY <1>1
  <2> QED BY <1>1, <2>1, ElementOfSeq
<1>3. /\ SubSeq(s, m, n) \in Seq(S) /\ Len(SubSeq(s, m, n)) = IF m <= n THEN n - m + 1 ELSE 0
      /\ \A i \in 1 .. n - m + 1 : SubSeq(s, m, n)[i] = s[m + i - 1]
  BY <1>1, <1>2, SubSeqProperties
<1> DEFINE u == s \o t
<1>4. /\ SubSeq(u, m, n) \in Seq(S) /\ Len(SubSeq(u, m, n)) = IF m <= n THEN n - m + 1 ELSE 0
      /\ \A i \in 1 .. n - m + 1 : SubSeq(u, m, n)[i] = u[m + i - 1]
  BY <1>1, <1>2, SubSeqProperties
<1>5. \A i \in 1 .. n - m + 1 : m + i - 1 \in m .. n
  BY <1>1
<1>6. \A i \in 1 .. Len(SubSeq(u, m, n)) : SubSeq(u, m, n)[i] = SubSeq(s, m, n)[i]
  <2>1. \A i \in 1 .. Len(SubSeq(u, m, n)) : i \in 1 .. n - m + 1
    BY <1>1, <1>4
  <2> QED BY <1>2, <1>3, <1>4, <1>5, <2>1
<1>7. SubSeq(u, m, n) = SubSeq(s, m, n)
  BY <1>3, <1>4, <1>6, SeqEqual
<1> QED BY <1>7

(* The rest of s, continued by t, is the rest of s \o t. *)
LEMMA RestGrows ==
  ASSUME NEW S, NEW s \in Seq(S), NEW t \in Seq(S), NEW m \in 1 .. Len(s) + 1
  PROVE  SubSeq(s \o t, m, Len(s \o t)) = SubSeq(s, m, Len(s)) \o t
<1> DEFINE u == s \o t
           n == Len(s)
<1>1. /\ n \in Nat /\ Len(t) \in Nat /\ u \in Seq(S) /\ Len(u) = n + Len(t)
      /\ \A i \in 1 .. n + Len(t) : u[i] = IF i <= n THEN s[i] ELSE t[i - n]
  BY LenProperties, ConcatProperties
<1>2. SubSeq(u, m, n) = SubSeq(s, m, n)
  BY SpanKept, <1>1
<1>3. SubSeq(u, n + 1, Len(u)) = t
  <2> HIDE DEF u, n
  <2>1. \A i \in n + 1 .. Len(u) : u[i] \in S
    <3> SUFFICES ASSUME NEW i \in n + 1 .. Len(u) PROVE u[i] \in S
      OBVIOUS
    <3>1. i \in 1 .. Len(u)
      BY <1>1
    <3> QED BY <1>1, <3>1, ElementOfSeq
  <2>2. n + 1 \in Int /\ Len(u) \in Int
    BY <1>1
  <2> DEFINE a == n + 1
             b == Len(u)
             v == SubSeq(u, a, b)
  <2>3. /\ v \in Seq(S) /\ Len(v) = IF a <= b THEN b - a + 1 ELSE 0
        /\ \A i \in 1 .. b - a + 1 : v[i] = u[a + i - 1]
    <3> HIDE DEF a, b
    <3> QED BY <2>1, <2>2, SubSeqProperties, SMTT(30) DEF a, b
  <2> HIDE DEF v
  <2>4. Len(v) = Len(t)
    BY <1>1, <2>3
  <2>5. ASSUME NEW i \in 1 .. Len(v) PROVE v[i] = t[i]
    <3> DEFINE j == a + i - 1
    <3>1. i \in 1 .. b - a + 1 /\ j \in 1 .. n + Len(t) /\ ~(j <= n) /\ j - n = i
      <4>1. i \in 1 .. Len(t)
        BY <2>4
      <4> QED BY <1>1, <4>1
    <3>2. v[i] = u[j]
      <4> HIDE DEF a, b
      <4> QED BY <2>3, <3>1
    <3> HIDE DEF j
    <3>3. u[j] = t[j - n]
      BY <1>1, <3>1
    <3> QED BY <3>1, <3>2, <3>3
  <2>6. v = t
    BY <2>3, <2>4, <2>5, SeqEqual
  <2> QED BY <2>6 DEF v
<1>4. SubSeq(u, m, n) \o SubSeq(u, n + 1, Len(u)) = SubSeq(u, m, Len(u))
  <2> HIDE DEF u, n
  <2>1. m \in 1 .. Len(u) + 1 /\ n \in m - 1 .. Len(u) /\ Len(u) \in n .. Len(u)
    BY <1>1 DEF n
  <2> DEFINE b == Len(u)
  <2>2. \A k \in m - 1 .. b : \A j \in k .. b :
          SubSeq(u, m, k) \o SubSeq(u, k + 1, j) = SubSeq(u, m, j)
    BY <1>1, <2>1, ConcatAdjacentSubSeq
  <2> HIDE DEF b
  <2>3. SubSeq(u, m, n) \o SubSeq(u, n + 1, b) = SubSeq(u, m, b)
    BY <2>1, <2>2 DEF b
  <2> QED BY <2>3 DEF b
<1> QED BY <1>2, <1>3, <1>4
-----------------------------------------------------------------------------
Call == [at : Nat, digest : Seq(Data) \cup {NoDigest}]

(* How much of what was fed to c a digest has covered or has lost. *)
Spent(c) == IF finished[c] = << >> THEN 0 ELSE finished[c][Len(finished[c])].at

StreamTyped ==
  /\ contexts \in [Context -> Seq(Chunk) \cup {NoContext}]
  /\ fed \in [Context -> Seq(Data)]
  /\ finished \in [Context -> Seq(Call)]

(* The chunks of an open context are all that was fed since; nothing is owed
   to a context that is not open. *)
ContextsHold ==
  \A c \in Context :
    /\ Spent(c) <= Len(fed[c])
    /\ contexts[c] = NoContext => Spent(c) = Len(fed[c])
    /\ contexts[c] # NoContext =>
         /\ contexts[c] # << >>
         /\ FlattenSeq(contexts[c]) = SubSeq(fed[c], Spent(c) + 1, Len(fed[c]))

(* The calls of hash_finish, each at or after the one before it. *)
CallsOrdered ==
  \A c \in Context : \A i \in DOMAIN finished[c] :
    /\ finished[c][i].at <= Len(fed[c])
    /\ i # 1 => finished[c][i - 1].at <= finished[c][i].at

StreamInv == StreamTyped /\ ContextsHold /\ CallsOrdered /\ DigestsComplete

(* What has been spent is known to be a number. *)
LEMMA SpentTyped ==
  ASSUME StreamTyped, NEW c \in Context
  PROVE  /\ finished[c] \in Seq(Call) /\ DOMAIN finished[c] = 1 .. Len(finished[c])
         /\ Len(finished[c]) \in Nat /\ Spent(c) \in Nat
         /\ \A i \in DOMAIN finished[c] :
              finished[c][i].at \in Nat /\ finished[c][i].digest \in Seq(Data) \cup {NoDigest}
<1>1. /\ finished[c] \in Seq(Call) /\ DOMAIN finished[c] = 1 .. Len(finished[c])
      /\ Len(finished[c]) \in Nat
  BY LenProperties DEF StreamTyped
<1>2. ASSUME NEW i \in DOMAIN finished[c]
      PROVE  finished[c][i].at \in Nat /\ finished[c][i].digest \in Seq(Data) \cup {NoDigest}
  <2>1. finished[c][i] \in Call
    BY <1>1, ElementOfSeq
  <2> QED BY <2>1 DEF Call
<1>3. Spent(c) \in Nat
  <2>1. CASE finished[c] = << >>
    BY <2>1 DEF Spent
  <2>2. CASE finished[c] # << >>
    <3>1. Len(finished[c]) \in DOMAIN finished[c]
      BY <1>1, <2>2, EmptySeq
    <3> QED BY <1>2, <2>2, <3>1 DEF Spent
  <2> QED BY <2>1, <2>2
<1> QED BY <1>1, <1>2, <1>3

(* What is streamed depends on the three variables alone. *)
LEMMA StreamKept ==
  ASSUME StreamInv, UNCHANGED <<contexts, fed, finished>>
  PROVE  StreamInv'
BY DEF StreamInv, StreamTyped, ContextsHold, CallsOrdered, DigestsComplete, Spent

(* hash_update: one more chunk in the context, and as much more fed. *)
LEMMA UpdateStream ==
  ASSUME StreamInv, NEW c \in Context, NEW chunk \in Chunk, hash_update(c, chunk)
  PROVE  StreamInv'
<1> DEFINE open == IF contexts[c] = NoContext THEN << >> ELSE contexts[c]
<1>1. /\ StreamTyped /\ chunk \in Seq(Data) /\ fed[c] \in Seq(Data) /\ Len(fed[c]) \in Nat
      /\ Len(chunk) \in Nat
  BY StackAssumption DEF StreamInv, StreamTyped
<1>2. /\ contexts' = [contexts EXCEPT ![c] = Append(open, chunk)]
      /\ fed' = [fed EXCEPT ![c] = fed[c] \o chunk]
      /\ finished' = finished
  BY <1>1 DEF hash_update, StreamTyped
<1>3. open \in Seq(Chunk)
  BY <1>1, EmptySeq DEF StreamTyped
<1>4. open = << >> <=> contexts[c] = NoContext
  BY StackAssumption DEF StreamInv, ContextsHold
<1> HIDE DEF open
<1>5. /\ Append(open, chunk) \in Seq(Chunk) /\ Append(open, chunk) # << >>
      /\ Append(open, chunk) # NoContext
  <2>1. Append(open, chunk) \in Seq(Chunk) /\ Len(Append(open, chunk)) = Len(open) + 1
    BY <1>3, AppendProperties
  <2>2. Len(open) \in Nat
    BY <1>3, LenProperties
  <2>3. Len(Append(open, chunk)) # 0
    BY <2>1, <2>2
  <2> QED BY <2>1, <2>3, EmptySeq, StackAssumption
<1>6. /\ contexts'[c] = Append(open, chunk) /\ fed'[c] = fed[c] \o chunk
      /\ \A d \in Context \ {c} : contexts'[d] = contexts[d] /\ fed'[d] = fed[d]
  BY <1>1, <1>2 DEF StreamTyped
<1>7. fed'[c] \in Seq(Data) /\ Len(fed'[c]) = Len(fed[c]) + Len(chunk)
  BY <1>1, <1>6, ConcatProperties
<1>8. \A d \in Context : Spent(d)' = Spent(d) /\ Spent(d) \in Nat
  BY <1>1, <1>2, SpentTyped DEF Spent
<1>9. StreamTyped'
  <2>1. contexts' \in [Context -> Seq(Chunk) \cup {NoContext}]
    BY <1>1, <1>2, <1>5 DEF StreamTyped
  <2>2. fed' \in [Context -> Seq(Data)]
    BY <1>1, <1>2, <1>6, <1>7 DEF StreamTyped
  <2> QED BY <1>1, <1>2, <2>1, <2>2 DEF StreamTyped
<1>10. FlattenSeq(contexts'[c]) = SubSeq(fed'[c], Spent(c) + 1, Len(fed'[c]))
  <2>1. Spent(c) <= Len(fed[c]) /\ Spent(c) \in Nat
    BY <1>8 DEF StreamInv, ContextsHold
  <2> DEFINE m == Spent(c) + 1
  <2>2. m \in 1 .. Len(fed[c]) + 1
    BY <1>1, <2>1
  <2>3. SubSeq(fed'[c], m, Len(fed'[c])) = SubSeq(fed[c], m, Len(fed[c])) \o chunk
    <3> HIDE DEF m
    <3> QED BY <1>1, <1>6, <2>2, RestGrows
  <2>4. FlattenSeq(contexts'[c]) = IF open = << >> THEN chunk ELSE FlattenSeq(open) \o chunk
    BY <1>3, <1>6, FlattenAppend
  <2>5. CASE contexts[c] = NoContext
    <3>1. Len(fed[c]) < m /\ m \in Int /\ Len(fed[c]) \in Int
      BY <1>1, <2>5 DEF StreamInv, ContextsHold
    <3>2. SubSeq(fed[c], m, Len(fed[c])) = << >>
      <4> HIDE DEF m
      <4> QED BY <3>1, SubSeqEmpty
    <3>3. << >> \o chunk = chunk
      BY <1>1, ConcatEmptySeq
    <3> HIDE DEF m
    <3>4. FlattenSeq(contexts'[c]) = SubSeq(fed'[c], m, Len(fed'[c]))
      BY <1>4, <2>3, <2>4, <2>5, <3>2, <3>3
    <3> QED BY <3>4 DEF m
  <2>6. CASE contexts[c] # NoContext
    <3>1. FlattenSeq(contexts[c]) = SubSeq(fed[c], m, Len(fed[c])) /\ open = contexts[c]
      BY <2>6 DEF StreamInv, ContextsHold, open
    <3> HIDE DEF m
    <3>2. FlattenSeq(contexts'[c]) = SubSeq(fed'[c], m, Len(fed'[c]))
      BY <1>4, <2>3, <2>4, <2>6, <3>1
    <3> QED BY <3>2 DEF m
  <2> QED BY <2>5, <2>6
<1>11. ContextsHold'
  <2>1. ASSUME NEW d \in Context
        PROVE  /\ Spent(d) <= Len(fed'[d])
               /\ contexts'[d] = NoContext => Spent(d) = Len(fed'[d])
               /\ contexts'[d] # NoContext =>
                    /\ contexts'[d] # << >>
                    /\ FlattenSeq(contexts'[d]) = SubSeq(fed'[d], Spent(d) + 1, Len(fed'[d]))
    <3>1. CASE d = c
      <4>1. Spent(c) <= Len(fed[c]) /\ Spent(c) \in Nat
        BY <1>8 DEF StreamInv, ContextsHold
      <4>2. Spent(c) <= Len(fed'[c])
        BY <1>1, <1>7, <4>1
      <4> QED BY <1>5, <1>6, <1>10, <3>1, <4>2
    <3>2. CASE d # c
      BY <1>6, <3>2 DEF StreamInv, ContextsHold
    <3> QED BY <3>1, <3>2
  <2> QED BY <1>8, <2>1 DEF ContextsHold
<1>12. CallsOrdered'
  <2>1. ASSUME NEW d \in Context, NEW i \in DOMAIN finished[d]
        PROVE  finished[d][i].at <= Len(fed'[d])
    <3>1. finished[d][i].at \in Nat /\ finished[d][i].at <= Len(fed[d])
      BY <1>1, SpentTyped DEF StreamInv, CallsOrdered
    <3> QED BY <1>1, <1>6, <1>7, <3>1, SMTT(30)
  <2> QED BY <1>2, <2>1 DEF StreamInv, CallsOrdered
<1>13. DigestsComplete'
  <2> SUFFICES ASSUME NEW d \in Context, NEW i \in DOMAIN finished[d],
                      finished[d][i].digest # NoDigest
               PROVE  finished[d][i].digest =
                        SubSeq(fed'[d], IF i = 1 THEN 1 ELSE finished[d][i - 1].at + 1,
                               finished[d][i].at)
    BY <1>2 DEF DigestsComplete
  <2> DEFINE first == IF i = 1 THEN 1 ELSE finished[d][i - 1].at + 1
             at == finished[d][i].at
  <2>1. finished[d][i].digest = SubSeq(fed[d], first, at)
    BY DEF StreamInv, DigestsComplete
  <2>2. CASE d = c
    <3>1. first \in 1 .. Len(fed[d]) + 1 /\ at \in first - 1 .. Len(fed[d])
      <4>1. at \in Nat /\ at <= Len(fed[d]) /\ Len(fed[d]) \in Nat
        BY <1>1, <2>2, SpentTyped DEF StreamInv, CallsOrdered
      <4>2. CASE i = 1
        BY <4>1, <4>2
      <4>3. CASE i # 1
        <5>1. i - 1 \in DOMAIN finished[d]
          BY <1>1, <4>3, SpentTyped
        <5>2. finished[d][i - 1].at \in Nat /\ finished[d][i - 1].at <= at
          BY <1>1, <4>3, <5>1, SpentTyped DEF StreamInv, CallsOrdered
        <5> HIDE DEF at
        <5> QED BY <4>1, <4>3, <5>2
      <4> QED BY <4>2, <4>3
    <3> HIDE DEF first, at
    <3>2. SubSeq(fed[d] \o chunk, first, at) = SubSeq(fed[d], first, at)
      BY <1>1, <2>2, <3>1, SpanKept
    <3> QED BY <1>6, <2>1, <2>2, <3>2 DEF first, at
  <2>3. CASE d # c
    BY <1>6, <2>1, <2>3
  <2> QED BY <2>2, <2>3
<1> QED BY <1>9, <1>11, <1>12, <1>13 DEF StreamInv

(* hash_finish: the digest, if there is one, is all that was fed since the
   call before; either way the context is gone and owes nothing. *)
LEMMA FinishStream ==
  ASSUME StreamInv, NEW c \in Context, hash_finish(c)
  PROVE  StreamInv'
<1> DEFINE old == finished[c]
           n == Len(old)
           d0 == sha256(FlattenSeq(contexts[c]))
           call == [at |-> Len(fed[c]), digest |-> d0]
<1>1. /\ StreamTyped /\ contexts[c] # NoContext /\ fed' = fed
      /\ contexts' = [contexts EXCEPT ![c] = NoContext]
      /\ finished' = [finished EXCEPT ![c] = Append(old, call)]
  BY DEF StreamInv, StreamTyped, hash_finish, Finish
<1>2. /\ fed[c] \in Seq(Data) /\ Len(fed[c]) \in Nat /\ old \in Seq(Call) /\ n \in Nat
      /\ Spent(c) \in Nat /\ Spent(c) <= Len(fed[c]) /\ DOMAIN old = 1 .. n
  BY <1>1, SpentTyped DEF StreamInv, StreamTyped, ContextsHold
<1>3. FlattenSeq(contexts[c]) = SubSeq(fed[c], Spent(c) + 1, Len(fed[c]))
  BY <1>1 DEF StreamInv, ContextsHold
<1>4. d0 # NoDigest => d0 = SubSeq(fed[c], Spent(c) + 1, Len(fed[c]))
  BY <1>3 DEF sha256
<1>5. call \in Call
  <2>1. SubSeq(fed[c], Spent(c) + 1, Len(fed[c])) \in Seq(Data)
    <3> DEFINE m == Spent(c) + 1
    <3>1. m \in 1 .. Len(fed[c]) + 1
      BY <1>2
    <3> HIDE DEF m
    <3> QED BY <1>2, <3>1
  <2>2. d0 \in Seq(Data) \cup {NoDigest}
    BY <1>4, <2>1
  <2> HIDE DEF d0
  <2> QED BY <1>2, <2>2 DEF Call
<1>6. call.at = Len(fed[c]) /\ call.digest = d0
  OBVIOUS
<1> HIDE DEF call, d0
<1>7. /\ Append(old, call) \in Seq(Call) /\ Len(Append(old, call)) = n + 1
      /\ \A i \in 1 .. n : Append(old, call)[i] = old[i]
      /\ Append(old, call)[n + 1] = call
  BY <1>2, <1>5, AppendProperties
<1>8. /\ finished'[c] = Append(old, call) /\ contexts'[c] = NoContext
      /\ \A d \in Context \ {c} : finished'[d] = finished[d] /\ contexts'[d] = contexts[d]
  BY <1>1 DEF StreamTyped
<1>9. /\ n + 1 \in Nat /\ n + 1 # 0 /\ DOMAIN finished'[c] = 1 .. n + 1
      /\ finished'[c] # << >>
  BY <1>2, <1>7, <1>8, LenProperties, EmptySeq
<1>10. /\ Spent(c)' = Len(fed[c])
       /\ \A d \in Context \ {c} : Spent(d)' = Spent(d)
  BY <1>6, <1>7, <1>8, <1>9 DEF Spent
<1>11. StreamTyped'
  <2>1. contexts' \in [Context -> Seq(Chunk) \cup {NoContext}]
    BY <1>1 DEF StreamTyped
  <2>2. finished' \in [Context -> Seq(Call)]
    BY <1>1, <1>7 DEF StreamTyped
  <2> QED BY <1>1, <2>1, <2>2 DEF StreamTyped
<1>12. ContextsHold'
  <2>1. ASSUME NEW d \in Context
        PROVE  /\ Spent(d)' <= Len(fed[d])
               /\ contexts'[d] = NoContext => Spent(d)' = Len(fed[d])
               /\ contexts'[d] # NoContext =>
                    /\ contexts'[d] # << >>
                    /\ FlattenSeq(contexts'[d]) = SubSeq(fed[d], Spent(d)' + 1, Len(fed[d]))
    <3>1. CASE d = c
      BY <1>2, <1>8, <1>10, <3>1
    <3>2. CASE d # c
      BY <1>8, <1>10, <3>2 DEF StreamInv, ContextsHold
    <3> QED BY <3>1, <3>2
  <2> QED BY <1>1, <2>1 DEF ContextsHold
<1>13. \A i \in 1 .. n : finished'[c][i] = old[i]
  BY <1>7, <1>8
<1>14. finished'[c][n + 1] = call
  BY <1>7, <1>8
<1>15. Spent(c) = IF n = 0 THEN 0 ELSE old[n].at
  <2>1. old = << >> <=> n = 0
    BY <1>2, EmptySeq
  <2> QED BY <2>1 DEF Spent
<1>16. CallsOrdered'
  <2>1. ASSUME NEW d \in Context, NEW i \in DOMAIN finished'[d]
        PROVE  /\ finished'[d][i].at <= Len(fed[d])
               /\ i # 1 => finished'[d][i - 1].at <= finished'[d][i].at
    <3>1. CASE d # c
      BY <1>8, <2>1, <3>1 DEF StreamInv, CallsOrdered
    <3>2. CASE d = c /\ i = n + 1
      <4>1. finished'[c][i].at = Len(fed[c])
        BY <1>6, <1>14, <3>2
      <4>2. i # 1 => n # 0 /\ n \in 1 .. n /\ i - 1 = n
        BY <1>2, <3>2
      <4>3. i # 1 => finished'[c][i - 1].at = Spent(c)
        BY <1>13, <1>15, <4>2
      <4> QED BY <1>2, <3>2, <4>1, <4>3
    <3>3. CASE d = c /\ i # n + 1
      <4>1. i \in 1 .. n /\ (i # 1 => i - 1 \in 1 .. n)
        BY <1>2, <1>9, <3>3
      <4>2. old[i].at <= Len(fed[c]) /\ (i # 1 => old[i - 1].at <= old[i].at)
        BY <1>2, <4>1 DEF StreamInv, CallsOrdered
      <4> QED BY <1>13, <3>3, <4>1, <4>2
    <3> QED BY <3>1, <3>2, <3>3
  <2> QED BY <1>1, <2>1 DEF CallsOrdered
<1>17. DigestsComplete'
  <2> DEFINE Whole(d, i) ==
        finished'[d][i].digest # NoDigest =>
          finished'[d][i].digest =
            SubSeq(fed[d], IF i = 1 THEN 1 ELSE finished'[d][i - 1].at + 1, finished'[d][i].at)
  <2>0. SUFFICES ASSUME NEW d \in Context, NEW i \in DOMAIN finished'[d] PROVE Whole(d, i)
    <3>1. fed' = fed
      BY <1>1
    <3> QED BY <3>1 DEF DigestsComplete
  <2>1. CASE d # c
    BY <1>8, <2>1 DEF StreamInv, DigestsComplete
  <2>2. CASE d = c /\ i = n + 1
    <3>1. finished'[c][i].at = Len(fed[c]) /\ finished'[c][i].digest = d0
      BY <1>6, <1>14, <2>2
    <3>2. i = 1 <=> n = 0
      BY <1>2, <2>2
    <3>3. n # 0 => n \in 1 .. n /\ i - 1 = n
      BY <1>2, <2>2
    <3>4. (IF i = 1 THEN 1 ELSE finished'[c][i - 1].at + 1) = Spent(c) + 1
      BY <1>13, <1>15, <3>2, <3>3
    <3> QED BY <1>4, <2>2, <3>1, <3>4
  <2>3. CASE d = c /\ i # n + 1
    <3>1. i \in 1 .. n /\ (i # 1 => i - 1 \in 1 .. n)
      BY <1>2, <1>9, <2>3
    <3>2. old[i].digest # NoDigest =>
            old[i].digest = SubSeq(fed[c], IF i = 1 THEN 1 ELSE old[i - 1].at + 1, old[i].at)
      BY <1>2, <3>1 DEF StreamInv, DigestsComplete
    <3> QED BY <1>13, <2>3, <3>1, <3>2
  <2> QED BY <2>1, <2>2, <2>3
<1> QED BY <1>11, <1>12, <1>16, <1>17 DEF StreamInv

(* A key the HSM holds is held until the process dies. *)
LEMMA HeldKept ==
  ASSUME KeyInv, NEW k \in KeyId, generate_symmetric_key(k)
  PROVE  /\ keyStore' \in [KeyId -> Nat] /\ keyStore'[k] # 0
         /\ \A j \in KeyId : keyStore[j] # 0 => keyStore'[j] # 0
<1>1. /\ generated \in Nat /\ keyStore'[k] = generated + 1 /\ keyStore' \in [KeyId -> Nat]
      /\ \A j \in KeyId : keyStore'[j] = keyStore[j] \/ keyStore'[j] = generated + 1
  BY GenerateStep DEF KeyInv, TypeOK
<1>2. generated + 1 # 0
  BY <1>1
<1> QED BY <1>1, <1>2

Held == pairs \subseteq {k \in KeyId : keyStore[k] # 0}

StackInv ==
  /\ KeyInv /\ StreamInv /\ Held
  /\ job \in CSMState \ {"ACTIVE"} /\ updates \in Nat

(* The invariant of the stack, in every reachable state. *)
LEMMA StackInvAlways == StackSpec => []StackInv
<1>1. ASSUME StackInit PROVE StackInv
  <2>1. /\ contexts = [c \in Context |-> NoContext] /\ fed = [c \in Context |-> << >>]
        /\ finished = [c \in Context |-> << >>] /\ pairs = {} /\ job = "IDLE" /\ updates = 0
    BY <1>1 DEF StackInit
  <2>2. ASSUME NEW c \in Context
        PROVE  /\ contexts[c] = NoContext /\ fed[c] = << >> /\ finished[c] = << >>
               /\ fed[c] \in Seq(Data) /\ finished[c] \in Seq(Call) /\ Len(fed[c]) = 0
               /\ DOMAIN finished[c] = {}
    BY <2>1, EmptySeq
  <2>3. StreamTyped
    BY <2>1, EmptySeq DEF StreamTyped
  <2>4. ContextsHold /\ CallsOrdered /\ DigestsComplete
    BY <2>2 DEF ContextsHold, CallsOrdered, DigestsComplete, Spent
  <2>5. KeyInv
    BY <1>1, KeyInit DEF StackInit
  <2>6. Held /\ job \in CSMState \ {"ACTIVE"} /\ updates \in Nat
    BY <2>1 DEF Held, CSMState
  <2> QED BY <2>3, <2>4, <2>5, <2>6 DEF StackInv, StreamInv
<1>2. ASSUME StackInv, [StackNext]_stackVars PROVE StackInv'
  <2>1. KeyInv'
    BY <1>2, StackStep DEF StackInv
  <2>2. /\ KeyInv /\ StreamInv /\ Held /\ job \in CSMState \ {"ACTIVE"} /\ updates \in Nat
        /\ keyStore \in [KeyId -> Nat]
    BY <1>2 DEF StackInv, KeyInv, TypeOK
  <2> DEFINE Rest == Held' /\ job' \in CSMState \ {"ACTIVE"} /\ updates' \in Nat
  <2>3. ASSUME NEW ok \in BOOLEAN, JobEnds(ok) PROVE job' \in CSMState \ {"ACTIVE"}
    BY <2>3 DEF JobEnds, CSMState
  <2>4. ASSUME KeyManagerStep PROVE StreamInv' /\ Rest
    <3>1. StreamInv'
      BY <2>2, <2>4, StreamKept DEF KeyManagerStep, streamVars
    <3>2. pairs' = {k \in pairs : keyStore'[k] = keyStore[k]}
      BY <2>4 DEF KeyManagerStep
    <3>3. Held'
      BY <2>2, <3>2 DEF Held
    <3> QED BY <2>2, <2>4, <3>1, <3>3 DEF KeyManagerStep, streamVars
  <2>5. ASSUME NEW p \in Pdu, compute_mac(p) PROVE StreamInv' /\ Rest
    <3>1. meta[p].key \in KeyId
      BY <2>2, <2>5, MetaTyped DEF compute_mac, KeyInv
    <3>2. keyStore' = keyStore \/ generate_symmetric_key(meta[p].key)
      BY <2>5 DEF compute_mac, hmac_sha256, vars
    <3>3. Held'
      BY <2>2, <2>5, <3>1, <3>2, HeldKept DEF Held, compute_mac
    <3>4. job' \in CSMState \ {"ACTIVE"}
      BY <2>5 DEF compute_mac, JobEnds, CSMState
    <3>5. StreamInv' /\ updates' \in Nat
      BY <2>2, <2>5, StreamKept DEF compute_mac, streamVars
    <3> QED BY <3>3, <3>4, <3>5
  <2>6. ASSUME NEW k \in KeyId, generate_key_pair(k) PROVE StreamInv' /\ Rest
    <3>1. StreamInv' /\ job' = job /\ updates' = updates
      BY <2>2, <2>6, StreamKept DEF generate_key_pair, streamVars
    <3>2. Held'
      BY <2>2, <2>6, HeldKept DEF Held, generate_key_pair
    <3> QED BY <2>2, <3>1, <3>2
  <2>7. ASSUME NEW k \in KeyId, wrap_key(k) PROVE StreamInv' /\ Rest
    <3>1. keyStore' = keyStore \/ generate_symmetric_key(k)
      BY <2>7 DEF wrap_key, aes_gcm_encrypt
    <3>2. Held'
      BY <2>2, <2>7, <3>1, HeldKept DEF Held, wrap_key
    <3>3. job' \in CSMState \ {"ACTIVE"}
      BY <2>7 DEF wrap_key, JobEnds, CSMState
    <3>4. StreamInv' /\ updates' \in Nat
      BY <2>2, <2>7, StreamKept DEF wrap_key, streamVars
    <3> QED BY <3>2, <3>3, <3>4
  <2>8. ASSUME NEW k \in KeyId, verify_signature(k) PROVE StreamInv' /\ Rest
    <3>1. job' \in CSMState \ {"ACTIVE"}
      BY <2>8 DEF verify_signature, JobEnds, CSMState
    <3>2. StreamInv' /\ updates' \in Nat /\ Held'
      BY <2>2, <2>8, StreamKept DEF verify_signature, streamVars, vars, Held
    <3> QED BY <3>1, <3>2
  <2>9. ASSUME NEW data \in Chunk, compute_hash(data) PROVE StreamInv' /\ Rest
    <3>1. job' \in CSMState \ {"ACTIVE"}
      BY <2>9 DEF compute_hash, JobEnds, CSMState
    <3>2. StreamInv' /\ updates' \in Nat /\ Held'
      BY <2>2, <2>9, StreamKept DEF compute_hash, streamVars, vars, Held
    <3> QED BY <3>1, <3>2
  <2>10. ASSUME NEW c \in Context, NEW chunk \in Chunk, hash_update(c, chunk)
         PROVE  StreamInv' /\ Rest
    <3>1. StreamInv'
      BY <2>2, <2>10, UpdateStream
    <3>2. updates' = updates + 1 /\ pairs' = pairs /\ keyStore' = keyStore /\ job' = job
      BY <2>10 DEF hash_update, vars
    <3> QED BY <2>2, <3>1, <3>2 DEF Held
  <2>11. ASSUME NEW c \in Context, hash_finish(c) PROVE StreamInv' /\ Rest
    <3>1. StreamInv'
      BY <2>2, <2>11, FinishStream
    <3>2. updates' = updates /\ pairs' = pairs /\ keyStore' = keyStore /\ job' = job
      BY <2>11 DEF hash_finish, vars
    <3> QED BY <2>2, <3>1, <3>2 DEF Held
  <2>12. ASSUME StackRestart PROVE StreamInv' /\ Rest
    <3>1. /\ contexts' = [c \in Context |-> NoContext] /\ fed' = [c \in Context |-> << >>]
          /\ finished' = [c \in Context |-> << >>]
          /\ pairs' = {} /\ job' = "IDLE" /\ updates' = updates
      BY <2>12 DEF StackRestart
    <3>2. ASSUME NEW c \in Context
          PROVE  /\ contexts'[c] = NoContext /\ fed'[c] = << >> /\ finished'[c] = << >>
                 /\ Len(fed'[c]) = 0 /\ DOMAIN finished'[c] = {}
      BY <3>1, EmptySeq
    <3>3. StreamTyped'
      BY <3>1, EmptySeq DEF StreamTyped
    <3>4. ContextsHold' /\ CallsOrdered' /\ DigestsComplete'
      BY <3>2 DEF ContextsHold, CallsOrdered, DigestsComplete, Spent
    <3>5. Rest
      BY <2>2, <3>1 DEF Held, CSMState
    <3> QED BY <3>3, <3>4, <3>5 DEF StreamInv
  <2>13. ASSUME UNCHANGED stackVars PROVE StreamInv' /\ Rest
    BY <2>2, <2>13, StreamKept DEF stackVars, streamVars, vars, Held
  <2>14. StreamInv' /\ Rest
    BY <1>2, <2>4, <2>5, <2>6, <2>7, <2>8, <2>9, <2>10, <2>11, <2>12, <2>13 DEF StackNext
  <2> QED BY <2>1, <2>14 DEF StackInv
<1> QED BY <1>1, <1>2, PTL DEF StackSpec

(* Every variable of the stack keeps its type; a key_id that is a key pair is
   one the HSM holds. *)
THEOREM StackTypes == StackSpec => []StackTypeOK
<1>1. StackInv => StackTypeOK
  BY DEF StackInv, KeyInv, StreamInv, StreamTyped, StackTypeOK, Held, Call
<1> QED BY <1>1, StackInvAlways, PTL

(* A streamed digest is over all that was fed to its context since the call
   before, in order, and over nothing else: for any contexts, any chunks, any
   number of calls, whatever the HSM failed in between. *)
THEOREM DigestsCompleteHolds == StackSpec => []DigestsComplete
<1>1. StackInv => DigestsComplete
  BY DEF StackInv, StreamInv
<1> QED BY <1>1, StackInvAlways, PTL
=============================================================================
