----------------------------- MODULE Persistence -----------------------------
(***************************************************************************)
(* The server process and its two files, from one start to the next:       *)
(* AppState.__init__ of api/state.py loads nvm_store.json and the profiles *)
(* provisions what is missing, and has sim/secure_boot.py compare the      *)
(* golden hashes of the NvM with the firmware that runs; then requests are *)
(* served, commits of counters, other NvM writes and profile updates, none *)
(* of them concurrently.  The process may die at any step, and the         *)
(* firmware may be another one at the next start.                          *)
(*                                                                         *)
(* The golden hashes are records of FreshnessStore's one dictionary, and   *)
(* are flushed and loaded with it.  SHA-256 is taken to be injective: a    *)
(* hash is the firmware it was computed from.  The keys that _provision_   *)
(* keys makes are KeyLifecycle's; here they are flushes.                   *)
(***************************************************************************)
EXTENDS FreshnessStore, ProfileStore

CONSTANTS Component,  \* _COMPONENTS, in the order they are verified
          Firmware,   \* what _CURRENT_SNAPSHOT may be
          NoHash      \* NvM.read's None

ASSUME BootAssumption ==
  /\ Component \in Seq(STRING) /\ Component # << >>
  /\ NoHash \notin Firmware

VARIABLES
  phase,       \* of AppState.__init__: "keys", "hashes"; then "serving"
  firmware,    \* the snapshot of the code that runs, or is to be started
  golden,      \* the boot_golden_hash_* records: NvM._store
  goldenTmp,   \* ... nvm_store.tmp, when it is whole
  goldenFile,  \* ... nvm_store.json, when it is whole
  bootOk,      \* SecureBoot._boot_integrity_ok
  failedComponent, \* SecureBoot._failed_component; 0 for None
  misread,     \* history: this start-up could not read the file
  provisioned  \* history: the hash each record first had on disk; anew when
               \* a process that misread the file writes it

hashVars == <<golden, goldenTmp, goldenFile, misread, provisioned>>
bootVars == <<phase, firmware, bootOk, failedComponent>>
allVars == <<vars, profileVars, hashVars, bootVars>>

Components == DOMAIN Component
NoHashes == [c \in Components |-> NoHash]

PersistInit ==
  /\ Init
  /\ ProfileInit
  /\ phase = "keys"
  /\ firmware \in Firmware
  /\ golden = NoHashes /\ goldenTmp = NoHashes /\ goldenFile = NoHashes
  /\ bootOk = FALSE /\ failedComponent = 0
  /\ misread = FALSE
  /\ provisioned = NoHashes
-----------------------------------------------------------------------------
(* No flush and no update is under way: the loop takes the next request, or
   __init__ goes on. *)
Quiet == up /\ pc = "idle" /\ updating = None

(* NvM.flush, step by step. *)
Open == open_tmp /\ UNCHANGED <<profileVars, hashVars, bootVars>>

Write ==
  /\ write_text
  /\ goldenTmp' = golden
  /\ UNCHANGED <<profileVars, golden, goldenFile, misread, provisioned, bootVars>>

Rename ==
  /\ replace
  /\ goldenFile' = goldenTmp
  /\ provisioned' = [c \in Components |->
                       IF misread \/ provisioned[c] = NoHash THEN goldenTmp[c]
                                                            ELSE provisioned[c]]
  /\ UNCHANGED <<profileVars, golden, goldenTmp, misread, bootVars>>

(* An exception in __init__ ends the process: see Die. *)
FlushFails ==
  /\ phase = "serving"
  /\ flush_fails
  /\ UNCHANGED <<profileVars, hashVars, bootVars>>

(* A write of another record, by _provision_keys or for a request. *)
OtherWrite ==
  /\ Quiet /\ phase \in {"keys", "serving"}
  /\ save_key_metadata
  /\ UNCHANGED <<profileVars, hashVars, bootVars>>

KeysProvisioned ==
  /\ Quiet /\ phase = "keys"
  /\ phase' = "hashes"
  /\ UNCHANGED <<vars, profileVars, hashVars, firmware, bootOk, failedComponent>>

(* Mutation: a start of another firmware provisions its own hashes. *)
MissingAlways(c) == golden[c] # firmware

Missing(c) == golden[c] = NoHash

(* _provision_boot_golden_hashes: the first record that is missing. *)
ProvisionHash(c) ==
  /\ Quiet /\ phase = "hashes"
  /\ Missing(c) /\ \A d \in 1 .. c - 1 : ~Missing(d)
  /\ golden' = [golden EXCEPT ![c] = firmware]
  /\ save_key_metadata
  /\ UNCHANGED <<profileVars, goldenTmp, goldenFile, misread, provisioned, bootVars>>

Verified(c) == golden[c] = firmware

(* verify_boot_integrity stops at the first component that differs; what
   follows is the same either way. *)
Boot ==
  /\ Quiet /\ phase = "hashes"
  /\ \A c \in Components : ~Missing(c)
  /\ bootOk' = \A c \in Components : Verified(c)
  /\ \/ bootOk' /\ failedComponent' = 0
     \/ \E c \in Components :
          /\ ~Verified(c) /\ \A d \in 1 .. c - 1 : Verified(d)
          /\ failedComponent' = c
  /\ phase' = "serving"
  /\ UNCHANGED <<vars, profileVars, hashVars, firmware>>

(* POST /secoc/receive of a frame that passes its checks. *)
Receive(p, n) ==
  /\ Quiet /\ phase = "serving"
  /\ commit_freshness(p, n)
  /\ UNCHANGED <<profileVars, hashVars, bootVars>>

(* POST /profiles/{pdu_id}/version. *)
UpdateProfile ==
  /\ up /\ pc = "idle" /\ phase = "serving"
  /\ \/ \E p \in Profile, v \in Version : update_profile_version(p, v)
     \/ write_profiles
     \/ replace_profiles
     \/ update_fails
  /\ UNCHANGED <<vars, hashVars, bootVars>>

(* The process dies, or __init__ raises.  What is installed next may be
   another firmware. *)
Die ==
  /\ Crash
  /\ firmware' \in Firmware
  /\ updating' = None
  /\ UNCHANGED <<versions, config, returned, hashVars, phase, bootOk, failedComponent>>

Start ==
  /\ reload
  /\ phase' = "keys"
  /\ bootOk' = FALSE /\ failedComponent' = 0
  /\ \/ /\ load
        /\ golden' = IF file.state = "whole" THEN goldenFile ELSE NoHashes
        /\ misread' = FALSE
     \/ /\ load_fails
        /\ golden' = NoHashes
        /\ misread' = TRUE
  /\ UNCHANGED <<firmware, goldenTmp, goldenFile, provisioned>>

PersistNext ==
  \/ Open \/ Write \/ Rename \/ FlushFails
  \/ OtherWrite
  \/ KeysProvisioned
  \/ \E c \in Components : ProvisionHash(c)
  \/ Boot
  \/ \E p \in Pdu : \E n \in store[p] + 1 .. store[p] + Window : Receive(p, n)
  \/ UpdateProfile
  \/ Die
  \/ Start

PersistSpec == PersistInit /\ [][PersistNext]_allVars
-----------------------------------------------------------------------------
(* Type invariant. *)
PersistTypeOK ==
  /\ TypeOK
  /\ ProfileTyped
  /\ phase \in {"keys", "hashes", "serving"}
  /\ firmware \in Firmware
  /\ {golden, goldenTmp, goldenFile, provisioned} \subseteq [Components -> Firmware \cup {NoHash}]
  /\ {bootOk, misread} \subseteq BOOLEAN
  /\ failedComponent \in Components \cup {0}

(* A process that serves knows the truth about its firmware: the boot check
   passed if and only if every component's hash, as it was first written to
   disk, is that of the firmware that runs.  No crash while hashes are
   written, and no later start that could read the file, provisions a hash a
   second time, which would make a changed firmware its own reference. *)
TamperDetected ==
  up /\ phase = "serving" => (bootOk <=> \A c \in Components : provisioned[c] = firmware)

(* What makes it inductive: the hashes on disk are the ones provisioned, a
   process that read the file has those and perhaps more, what is about to be
   renamed is what memory holds, and a process serves only with what is on
   disk, having compared just that. *)
HashesTyped ==
  /\ golden \in [Components -> Firmware \cup {NoHash}]
  /\ goldenTmp \in [Components -> Firmware \cup {NoHash}]
  /\ goldenFile \in [Components -> Firmware \cup {NoHash}]

HashesOnDisk ==
  /\ provisioned = goldenFile
  /\ file.state # "whole" => goldenFile = NoHashes
  /\ pc = "replace" => goldenTmp = golden

HashesInMemory ==
  up =>
    /\ ~misread => \A c \in Components : goldenFile[c] \in {NoHash, golden[c]}
    /\ \/ golden = goldenFile
       \/ misread /\ golden = NoHashes
       \/ phase = "hashes" /\ pc # "idle"

ServesVerified ==
  up /\ phase = "serving" =>
    /\ golden = goldenFile
    /\ bootOk <=> \A c \in Components : Verified(c)

BootInv ==
  /\ firmware \in Firmware
  /\ HashesTyped
  /\ HashesOnDisk
  /\ HashesInMemory
  /\ ServesVerified

ProfileInv == ProfileTyped /\ ProfilesReturned /\ UpdateInProgress
=============================================================================
