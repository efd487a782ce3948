------------------------------ MODULE CryptoStack ------------------------------
(***************************************************************************)
(* The crypto stack below the authenticator and the key manager:           *)
(* sim/csm.py (jobs with a state, streaming hashes) over sim/cryif.py      *)
(* (which only passes calls on) over sim/hsm.py (one key store for MAC     *)
(* keys, AES keys and ECDSA key pairs, all under the same key_ids), with   *)
(* the key manager of KeyLifecycle on top of the same HSM.                 *)
(*                                                                         *)
(* A chunk is the sequence of its data; SHA-256 is injective, so a digest  *)
(* is the data it was computed over.  sign, aes_gcm_decrypt,               *)
(* get_public_key_pem and generate_nonce read the key store or nothing.    *)
(***************************************************************************)
EXTENDS KeyLifecycle, SequencesExt

CONSTANTS
  Context,   \* hash context identifiers
  Data,      \* pieces of data
  Chunk,     \* what hash_update is given: sequences over Data
  NoContext, \* not in CSM._hash_contexts
  NoDigest,  \* hash_finish raised
  MaxWork    \* bound: keys generated and chunks fed, together

ASSUME StackAssumption ==
  /\ Chunk \subseteq Seq(Data)
  /\ NoContext \notin Seq(Chunk)
  /\ NoDigest \notin Seq(Data)

VARIABLES
  pairs,     \* key_ids whose entry in HSM._key_store is an EC private key
  job,       \* CSM._state
  contexts,  \* CSM._hash_contexts
  fed,       \* history: the data fed to each context
  finished,  \* history: the hash_finish calls of each context
  updates    \* calls of hash_update so far

streamVars == <<contexts, fed, finished, updates>>
keyVars == <<serving, meta, disk, failing, histVars>>
stackVars == <<vars, pairs, job, streamVars>>

CSMState == {"IDLE", "ACTIVE", "FINISHED", "FAILED"}

StackInit ==
  /\ Init
  /\ pairs = {}
  /\ job = "IDLE"
  /\ contexts = [c \in Context |-> NoContext]
  /\ fed = [c \in Context |-> << >>]
  /\ finished = [c \in Context |-> << >>]
  /\ updates = 0
-----------------------------------------------------------------------------
(* HSM.generate_key_pair, whatever the key_id stood for. *)
generate_key_pair(k) ==
  /\ serving
  /\ generate_symmetric_key(k)
  /\ pairs' = pairs \cup {k}
  /\ UNCHANGED <<keyVars, job, streamVars>>

(* A CSM job runs from ACTIVE to one of its ends within the call; an error of
   the HSM becomes CSMError("job_failed"). *)
JobEnds(ok) == job' = IF ok THEN "FINISHED" ELSE "FAILED"

(* Neither "unavailable" nor "wrong_key_type". *)
Symmetric(k) == ~failing /\ k \notin pairs

compute_mac(p) ==
  /\ serving
  /\ meta[p] # NoKey
  /\ LET ok == Symmetric(meta[p].key)
     IN  /\ IF ok THEN hmac_sha256(p) ELSE UNCHANGED vars
         /\ JobEnds(ok)
  /\ UNCHANGED <<pairs, streamVars>>

(* An unknown key_id gets a key, as in hmac_sha256. *)
aes_gcm_encrypt(k) ==
  IF Symmetric(k) /\ keyStore[k] = 0
  THEN generate_symmetric_key(k)
  ELSE UNCHANGED <<generated, keyStore>>

wrap_key(k) ==
  /\ serving
  /\ aes_gcm_encrypt(k)
  /\ JobEnds(Symmetric(k))
  /\ UNCHANGED <<keyVars, pairs, streamVars>>

(* Neither "unavailable" nor "unknown_key": a signature that does not verify,
   under a symmetric key too, is the result False and no error. *)
Verifies(k) == ~failing /\ keyStore[k] # 0

verify_signature(k) ==
  /\ serving
  /\ JobEnds(Verifies(k))
  /\ UNCHANGED <<vars, pairs, streamVars>>

sha256(data) == IF failing THEN NoDigest ELSE data

compute_hash(data) ==
  /\ serving
  /\ JobEnds(sha256(data) # NoDigest)
  /\ UNCHANGED <<vars, pairs, streamVars>>

(* The first chunk opens the context; the HSM is not asked, and neither
   streaming call has a job state. *)
hash_update(c, chunk) ==
  /\ serving
  /\ contexts' = [contexts EXCEPT ![c] = Append(IF @ = NoContext THEN << >> ELSE @, chunk)]
  /\ fed' = [fed EXCEPT ![c] = @ \o chunk]
  /\ updates' = updates + 1
  /\ UNCHANGED <<vars, pairs, job, finished>>

Finish(c, digest) ==
  finished' = [finished EXCEPT ![c] = Append(@, [at |-> Len(fed[c]), digest |-> digest])]

(* Mutation: the context is read and not removed. *)
hash_finishKept(c) ==
  /\ serving
  /\ contexts[c] # NoContext
  /\ Finish(c, sha256(FlattenSeq(contexts[c])))
  /\ UNCHANGED <<vars, pairs, job, contexts, fed, updates>>

(* "no_context" without one; otherwise the context is gone before the HSM is
   asked, and a failing HSM's error reaches the caller as it is. *)
hash_finish(c) ==
  /\ serving
  /\ contexts[c] # NoContext
  /\ contexts' = [contexts EXCEPT ![c] = NoContext]
  /\ Finish(c, sha256(FlattenSeq(contexts[c])))
  /\ UNCHANGED <<vars, pairs, job, fed, updates>>

(* The key manager's steps: a new key under a key_id is 32 bytes again. *)
KeyManagerStep ==
  /\ \/ \E p \in Pdu, k \in KeyId : provision_key(p, k) \/ rotate_key(p, k)
     \/ \E p \in Pdu : provision_keys(p)
     \/ Serve
     \/ \E fail \in BOOLEAN : simulate_failure(fail)
     \/ flush
  /\ pairs' = {k \in pairs : keyStore'[k] = keyStore[k]}
  /\ UNCHANGED <<job, streamVars>>

StackRestart ==
  /\ Restart
  /\ pairs' = {}
  /\ job' = "IDLE"
  /\ contexts' = [c \in Context |-> NoContext]
  /\ fed' = [c \in Context |-> << >>]
  /\ finished' = [c \in Context |-> << >>]
  /\ UNCHANGED updates

StackNext ==
  /\ \/ KeyManagerStep
     \/ \E p \in Pdu : compute_mac(p)
     \/ \E k \in KeyId : generate_key_pair(k) \/ wrap_key(k) \/ verify_signature(k)
     \/ \E chunk \in Chunk : compute_hash(chunk)
     \/ \E c \in Context, chunk \in Chunk : hash_update(c, chunk)
     \/ \E c \in Context : hash_finish(c)
     \/ StackRestart
  /\ generated' + updates' <= MaxWork

StackSpec == StackInit /\ [][StackNext]_stackVars
-----------------------------------------------------------------------------
(* Type invariant. *)
StackTypeOK ==
  /\ TypeOK
  /\ pairs \subseteq {k \in KeyId : keyStore[k] # 0}
  /\ job \in CSMState \ {"ACTIVE"}
  /\ contexts \in [Context -> Seq(Chunk) \cup {NoContext}]
  /\ fed \in [Context -> Seq(Data)]
  /\ finished \in [Context -> Seq([at : Nat, digest : Seq(Data) \cup {NoDigest}])]
  /\ updates \in Nat

(* "SHA-256 digest of all accumulated chunks" (CSM.hash_finish): a digest
   covers what was fed to its own context since the context's last
   hash_finish, in order, with other contexts and jobs in between.  A
   hash_finish that the HSM failed has lost its chunks: they are neither
   hashed by a second try nor by the next digest. *)
DigestsComplete ==
  \A c \in Context : \A i \in DOMAIN finished[c] :
    LET call  == finished[c][i]
        first == IF i = 1 THEN 1 ELSE finished[c][i - 1].at + 1
    IN  call.digest # NoDigest => call.digest = SubSeq(fed[c], first, call.at)
=============================================================================
