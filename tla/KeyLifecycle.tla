----------------------------- MODULE KeyLifecycle -----------------------------
(***************************************************************************)
(* sim/key_manager.py between the two places it writes to: the HSM's key   *)
(* store, which dies with the process, and the key metadata of             *)
(* sim/key_storage.py in the NvM, which does not.  Keys are provisioned at *)
(* start-up (AppState), provisioned and rotated on request, and made on    *)
(* first use by hmac_sha256; the HSM may be made to fail, a flush may fail *)
(* after the dictionary in memory was changed, and the process may be      *)
(* restarted at any step.                                                  *)
(*                                                                         *)
(* Key material is a number that is never drawn twice (os.urandom(32)); a  *)
(* MAC verifies iff the PDU's active key has the material it was made      *)
(* with.  That a flush is atomic on disk is FreshnessStore's FileWhole.    *)
(***************************************************************************)
EXTENDS Naturals

CONSTANTS
  Pdu,          \* PDUs with a security profile
  KeyId,        \* logical key identifiers
  ProfileKey,   \* the key_id of each profile
  NoKey,        \* get_key_metadata's None
  MaxMaterial,  \* bound: keys generated
  MaxVersion    \* bound: key version

ASSUME KeyAssumption ==
  /\ ProfileKey \in [Pdu -> KeyId]
  /\ NoKey \notin [key : KeyId, version : Nat]

VARIABLES
  serving,   \* AppState.__init__ is over
  meta,      \* key metadata, NvM._store
  disk,      \* key metadata, nvm_store.json
  keyStore,  \* HSM._key_store: material by key_id, 0 for none
  failing,   \* HSM._fail_mode
  generated, \* materials drawn so far
  made,      \* history: materials the PDU's MACs were made with
  retired,   \* history: made, as it was when the PDU's key was last changed
  acked,     \* history: the metadata last returned to a caller
  unacked    \* history: what may be found instead, after failures since

histVars == <<made, retired, acked, unacked>>
vars == <<serving, meta, disk, keyStore, failing, generated, histVars>>

KeyMetadata == [key : KeyId, version : Nat]

Init ==
  /\ serving = FALSE
  /\ meta = [p \in Pdu |-> NoKey]
  /\ disk = meta
  /\ keyStore = [k \in KeyId |-> 0]
  /\ failing = FALSE
  /\ generated = 0
  /\ made = [p \in Pdu |-> {}]
  /\ retired = [p \in Pdu |-> {}]
  /\ acked = meta
  /\ unacked = [p \in Pdu |-> {}]
-----------------------------------------------------------------------------
(* Mutation: a key_id the HSM holds already keeps its material. *)
generate_symmetric_keyOnce(k) ==
  /\ ~failing
  /\ generated < MaxMaterial
  /\ generated' = generated + 1
  /\ keyStore' = [keyStore EXCEPT ![k] = IF @ = 0 THEN generated + 1 ELSE @]

(* A failing HSM raises; otherwise whatever the key_id stood for is
   overwritten. *)
generate_symmetric_key(k) ==
  /\ ~failing
  /\ generated < MaxMaterial
  /\ generated' = generated + 1
  /\ keyStore' = [keyStore EXCEPT ![k] = generated + 1]

(* Mutation: the error of a failed flush does not reach the caller. *)
save_key_metadataQuiet(p, r) ==
  /\ meta' = [meta EXCEPT ![p] = r]
  /\ disk' = meta' \/ disk' = disk
  /\ acked' = [acked EXCEPT ![p] = r]
  /\ unacked' = [unacked EXCEPT ![p] = {}]

(* NvM.write: into the dictionary, then the flush, which writes every record
   or raises and leaves the file as it was. *)
save_key_metadata(p, r) ==
  /\ meta' = [meta EXCEPT ![p] = r]
  /\ \/ /\ disk' = meta'
        /\ acked' = [acked EXCEPT ![p] = r]
        /\ unacked' = [unacked EXCEPT ![p] = {}]
     \/ /\ unacked' = [unacked EXCEPT ![p] = @ \cup {r}]
        /\ UNCHANGED <<disk, acked>>

(* Mutation: the saved record has no version. *)
InstallUnversioned(p, r) ==
  /\ generate_symmetric_key(r.key)
  /\ save_key_metadata(p, [key |-> r.key])
  /\ retired' = [retired EXCEPT ![p] = made[p]]
  /\ UNCHANGED <<failing, made>>

(* provision_key and rotate_key: the key first, then its metadata. *)
Install(p, r) ==
  /\ generate_symmetric_key(r.key)
  /\ save_key_metadata(p, r)
  /\ retired' = [retired EXCEPT ![p] = made[p]]
  /\ UNCHANGED <<failing, made>>

provision_key(p, k) ==
  /\ serving
  /\ Install(p, [key |-> k, version |-> 1])
  /\ UNCHANGED serving

(* KeyError when nothing is provisioned. *)
rotate_key(p, k) ==
  /\ serving
  /\ meta[p] # NoKey
  /\ meta[p].version < MaxVersion
  /\ Install(p, [key |-> k, version |-> meta[p].version + 1])
  /\ UNCHANGED serving

(* AppState._provision_keys for one profile whose flush succeeds: otherwise
   start-up fails, and Restart follows. *)
provision_keys(p) ==
  /\ ~serving
  /\ meta[p] = NoKey
  /\ Install(p, [key |-> ProfileKey[p], version |-> 1])
  /\ disk' = meta'
  /\ UNCHANGED serving

(* Mutation: start-up does not wait for the keys. *)
ServeEarly ==
  /\ ~serving
  /\ serving' = TRUE
  /\ UNCHANGED <<meta, disk, keyStore, failing, generated, histVars>>

(* Every profile resolves to a key: AppState is built. *)
Serve ==
  /\ ~serving
  /\ \A p \in Pdu : meta[p] # NoKey
  /\ serving' = TRUE
  /\ UNCHANGED <<meta, disk, keyStore, failing, generated, histVars>>

(* Authenticator.generate_mac and verify_mac: the active key is resolved and
   the HSM makes it up if it does not hold it. *)
hmac_sha256(p) ==
  /\ serving
  /\ meta[p] # NoKey
  /\ ~failing
  /\ IF keyStore[meta[p].key] = 0
     THEN generate_symmetric_key(meta[p].key)
     ELSE UNCHANGED <<generated, keyStore>>
  /\ made' = [made EXCEPT ![p] = @ \cup {keyStore'[meta[p].key]}]
  /\ UNCHANGED <<serving, meta, disk, failing, retired, acked, unacked>>

simulate_failure(fail) ==
  /\ serving
  /\ failing' = fail
  /\ UNCHANGED <<serving, meta, disk, keyStore, generated, histVars>>

(* Any other NvM.write, of a freshness counter say, writes the metadata of
   the dictionary too. *)
flush ==
  /\ serving
  /\ disk' = meta
  /\ UNCHANGED <<serving, meta, keyStore, failing, generated, histVars>>

(* NvM._load: a file that cannot be read makes an empty dictionary, and stays
   as it is until the next flush. *)
load ==
  \/ meta' = disk /\ UNCHANGED unacked
  \/ /\ meta' = [p \in Pdu |-> NoKey]
     /\ unacked' = [p \in Pdu |-> unacked[p] \cup {NoKey}]

(* The process dies, in service or while starting, and is started again. *)
Restart ==
  /\ serving' = FALSE
  /\ load
  /\ keyStore' = [k \in KeyId |-> 0]
  /\ failing' = FALSE
  /\ UNCHANGED <<disk, generated, made, retired, acked>>

Next ==
  \/ \E p \in Pdu, k \in KeyId : provision_key(p, k)
  \/ \E p \in Pdu, k \in KeyId : rotate_key(p, k)
  \/ \E p \in Pdu : provision_keys(p)
  \/ Serve
  \/ \E p \in Pdu : hmac_sha256(p)
  \/ \E fail \in BOOLEAN : simulate_failure(fail)
  \/ flush
  \/ Restart

Spec == Init /\ [][Next]_vars
-----------------------------------------------------------------------------
(* Type invariant. *)
TypeOK ==
  /\ serving \in BOOLEAN
  /\ meta \in [Pdu -> KeyMetadata \cup {NoKey}]
  /\ disk \in [Pdu -> KeyMetadata \cup {NoKey}]
  /\ keyStore \in [KeyId -> Nat]
  /\ failing \in BOOLEAN
  /\ generated \in Nat
  /\ made \in [Pdu -> SUBSET Nat]
  /\ retired \in [Pdu -> SUBSET Nat]
  /\ acked \in [Pdu -> KeyMetadata \cup {NoKey}]
  /\ unacked \in [Pdu -> SUBSET (KeyMetadata \cup {NoKey})]

(* A MAC made before the PDU's key was last changed verifies no more, though
   key identifiers are chosen by the caller, are shared and come back, and
   though a failed save leaves memory and disk with different keys. *)
OldMacsDead ==
  \A p \in Pdu : meta[p] # NoKey => keyStore[meta[p].key] \notin retired[p]

(* What provision_key or rotate_key returned is what the file holds, unless a
   later attempt failed half way: then that one may be found instead.  Or
   nothing may: a start that could not read the file begins with no keys, and
   its first flush writes just that, over keys that were acknowledged. *)
AckedKeyDurable ==
  \A p \in Pdu : disk[p] \in {acked[p]} \cup unacked[p]

(* A serving process can resolve a key for every profile, and so can the
   next one: no crash during start-up leaves a PDU without one. *)
ServingHasKeys ==
  serving => \A p \in Pdu : meta[p] # NoKey /\ disk[p] # NoKey

(* A failing HSM means no key operation takes effect at all: rotate_key does
   not leave metadata of a key that was never made. *)
FailureInert == [][failing /\ failing' => UNCHANGED <<keyStore, meta>>]_vars

(* What makes them inductive: what was drawn lies below the next draw, and
   what memory holds was acknowledged or attempted or is lost, and is on disk
   as long as the process has not begun to serve, or nothing was read. *)
Drawn ==
  /\ \A k \in KeyId : keyStore[k] <= generated
  /\ \A p \in Pdu : \A n \in made[p] \cup retired[p] : 0 < n /\ n <= generated

MetaAccounted == \A p \in Pdu : meta[p] \in {acked[p]} \cup unacked[p]

StartsFromDisk == ~serving => meta = disk \/ \A p \in Pdu : meta[p] = NoKey

KeyInv ==
  /\ TypeOK
  /\ OldMacsDead
  /\ AckedKeyDurable
  /\ ServingHasKeys
  /\ Drawn
  /\ MetaAccounted
  /\ StartsFromDisk
=============================================================================
