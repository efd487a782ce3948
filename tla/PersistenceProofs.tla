-------------------------- MODULE PersistenceProofs --------------------------
(***************************************************************************)
(* FreshnessStore: what is delivered is durable and is delivered once, for *)
(* every set of PDUs, every window and every placement of crashes and file *)
(* errors.                                                                 *)
(*                                                                         *)
(* Then Persistence: the server process implements the store it is built   *)
(* on, so everything shown of FreshnessStore holds of it; golden hashes    *)
(* are provisioned once; and failed profile updates never reach the file.  *)
(***************************************************************************)
EXTENDS Persistence, TLAPS

(* The invariant holds of a first start with no file. *)
LEMMA DurableInit == Init => DurableInv
<1> SUFFICES ASSUME Init PROVE DurableInv
  OBVIOUS
<1>1. TypeOK
  BY DEF Init, TypeOK, Counters, NoFile, Metadata, File, Job
<1>2. FileWhole /\ CommitInProgress
  BY DEF Init, FileWhole, CommitInProgress, NoFile, Partial
<1>3. DeliveredDurable /\ DeliveredOnce
  BY DEF Init, DeliveredDurable, DeliveredOnce
<1>4. DeliveredInMemory
  BY DEF Init, DeliveredInMemory
<1> QED
  BY <1>1, <1>2, <1>3, <1>4 DEF DurableInv

(* A step that leaves the stored counters, the file and the deliveries alone
   keeps the three properties of the deliveries. *)
LEMMA DeliveriesKept ==
  ASSUME DurableInv, UNCHANGED <<file, delivered>>
  PROVE  FileWhole' /\ DeliveredDurable' /\ DeliveredOnce'
BY DEF DurableInv, FileWhole, DeliveredDurable, DeliveredOnce, Stored

(* A commit is begun with a counter above the one in memory, hence above the
   one on disk and above every delivered one. *)
LEMMA CommitStep ==
  ASSUME DurableInv, NEW p \in Pdu, NEW n \in store[p] + 1 .. store[p] + Window,
         commit_freshness(p, n)
  PROVE  DurableInv'
<1> USE DEF DurableInv
<1>1. /\ up /\ pc = "idle" /\ up' = up
      /\ store' = [store EXCEPT ![p] = n]
      /\ job' = Commit(p, n, 1) /\ pc' = "open"
      /\ UNCHANGED <<tmp, file, delivered>>
  BY DEF commit_freshness
<1>2. store[p] \in Nat /\ n \in Nat /\ store[p] < n
  BY StoreAssumption DEF TypeOK, Counters
<1>3. TypeOK'
  BY <1>1, <1>2 DEF TypeOK, Counters, Job, Commit
<1>4. FileWhole' /\ DeliveredDurable' /\ DeliveredOnce'
  BY <1>1, DeliveriesKept
<1>5. \A q \in Pdu : store[q] \in Nat /\ store'[q] \in Nat /\ store[q] <= store'[q]
  BY <1>1, <1>2 DEF TypeOK, Counters
<1>6. DeliveredInMemory'
  <2> SUFFICES ASSUME NEW q \in Pdu, NEW i \in DOMAIN delivered[q]
               PROVE  delivered[q][i] <= store'[q]
    BY <1>1 DEF DeliveredInMemory
  <2>1. delivered[q][i] \in Nat /\ delivered[q][i] <= store[q]
    BY <1>1 DEF TypeOK, DeliveredInMemory
  <2> QED
    BY <2>1, <1>5
<1>7. store'[p] = n
  BY <1>1 DEF TypeOK, Counters
<1>8. \A i \in DOMAIN delivered[p] : delivered[p][i] < n
  <2> SUFFICES ASSUME NEW i \in DOMAIN delivered[p] PROVE delivered[p][i] < n
    OBVIOUS
  <2>1. delivered[p][i] \in Nat /\ delivered[p][i] <= store[p]
    BY <1>1 DEF TypeOK, DeliveredInMemory
  <2> QED
    BY <2>1, <1>2
<1>9. CommitInProgress'
  BY <1>1, <1>7, <1>8 DEF CommitInProgress, Commit
<1> QED
  BY <1>3, <1>4, <1>6, <1>9

(* os.replace makes the counter durable; the second one is followed by the
   delivery, of a counter above all earlier ones. *)
LEMMA ReplaceStep ==
  ASSUME DurableInv, replace
  PROVE  DurableInv'
<1> USE DEF DurableInv
<1>1. /\ up /\ up' = up /\ pc = "replace"
      /\ file' = Whole(store) /\ tmp' = NoFile /\ store' = store
      /\ AfterFlush
  BY DEF replace, CommitInProgress
<1>2. /\ file'.state = "whole" /\ file'.counters = store
      /\ \A q \in Pdu : Stored(q)' = store[q] /\ store[q] \in Nat /\ Stored(q) \in Nat
  BY <1>1 DEF Stored, Whole, TypeOK, Counters, File
<1>3. FileWhole'
  BY <1>2 DEF FileWhole, Partial
<1>4. TypeOK'
  <2>1. file' \in File /\ tmp' \in File
    BY <1>1 DEF TypeOK, File, Whole, NoFile
  <2>2. job' \in Job /\ pc' \in {"idle", "open", "write", "replace"}
    BY <1>1 DEF AfterFlush, TypeOK, Job
  <2>3. delivered' \in [Pdu -> Seq(Nat)]
    <3>1. CASE delivered' = delivered
      BY <3>1 DEF TypeOK
    <3>2. CASE /\ job.kind = "commit"
               /\ delivered' = [delivered EXCEPT ![job.pdu] = Append(@, job.value)]
      <4>1. job.pdu \in Pdu /\ job.value \in Nat
        BY <3>2 DEF TypeOK, Job
      <4>2. delivered[job.pdu] \in Seq(Nat)
        BY <4>1 DEF TypeOK
      <4>3. Append(delivered[job.pdu], job.value) \in Seq(Nat)
        BY <4>1, <4>2
      <4> QED
        BY <3>2, <4>3 DEF TypeOK
    <3> QED
      BY <1>1, <3>1, <3>2 DEF AfterFlush
  <2> QED
    BY <1>1, <2>1, <2>2, <2>3 DEF TypeOK
<1>5. \A q \in Pdu : \A i \in DOMAIN delivered[q] :
        delivered[q][i] \in Nat /\ delivered[q][i] <= Stored(q)'
  BY <1>1, <1>2 DEF TypeOK, DeliveredInMemory
<1>6. DeliveredDurable' => DeliveredInMemory'
  BY <1>1, <1>2 DEF DeliveredDurable, DeliveredInMemory
<1>7. CASE job.kind = "commit" /\ job.flush = 2
  <2>0. job.pdu \in Pdu /\ job.value \in Nat
    BY <1>7 DEF TypeOK, Job
  <2> PICK p \in Pdu, v \in Nat : p = job.pdu /\ v = job.value
    BY <2>0
  <2> PICK n \in Nat : n = Len(delivered[p])
    BY DEF TypeOK
  <2>1. p \in Pdu /\ v \in Nat /\ store[p] = v
    BY <1>1, <1>7 DEF CommitInProgress
  <2>2. \A i \in DOMAIN delivered[p] : delivered[p][i] < v
    BY <1>1, <1>7 DEF CommitInProgress
  <2>3. delivered' = [delivered EXCEPT ![p] = Append(@, v)] /\ pc' = "idle"
    BY <1>1, <1>7 DEF AfterFlush
  <2>4. delivered[p] \in Seq(Nat)
    BY <2>1 DEF TypeOK
  <2>5. /\ n \in Nat
        /\ DOMAIN delivered[p] = 1 .. n
        /\ \A i \in 1 .. n : delivered[p][i] \in Nat
    BY <2>4
  <2>6. delivered'[p] = Append(delivered[p], v) /\ \A q \in Pdu \ {p} : delivered'[q] = delivered[q]
    BY <2>1, <2>3 DEF TypeOK
  <2>7. /\ DOMAIN delivered'[p] = 1 .. n + 1
        /\ \A i \in 1 .. n : delivered'[p][i] = delivered[p][i]
        /\ delivered'[p][n + 1] = v
    BY <2>1, <2>4, <2>6
  <2>8. DeliveredDurable'
    <3>1. ASSUME NEW q \in Pdu \ {p}, NEW i \in DOMAIN delivered'[q]
          PROVE  delivered'[q][i] <= Stored(q)'
      <4>1. delivered'[q][i] = delivered[q][i] /\ i \in DOMAIN delivered[q]
        BY <2>6, <3>1
      <4> QED
        BY <4>1, <1>5
    <3>2. ASSUME NEW i \in DOMAIN delivered'[p]
          PROVE  delivered'[p][i] <= Stored(p)'
      <4>1. Stored(p)' = v
        BY <1>2, <2>1
      <4>2. i \in 1 .. n \/ i = n + 1
        BY <2>5, <2>7, <3>2
      <4>3. CASE i \in 1 .. n
        <5>1. /\ delivered'[p][i] = delivered[p][i] /\ delivered[p][i] < v
              /\ delivered[p][i] \in Nat
          BY <4>3, <2>2, <2>5, <2>7
        <5> QED
          BY <2>1, <4>1, <5>1
      <4>4. CASE i = n + 1
        <5>1. delivered'[p][i] = v
          BY <4>4, <2>7
        <5> QED
          BY <2>1, <4>1, <5>1
      <4> QED
        BY <4>2, <4>3, <4>4
    <3> QED
      BY <3>1, <3>2 DEF DeliveredDurable
  <2>9. DeliveredOnce'
    <3>1. ASSUME NEW q \in Pdu \ {p}, NEW i \in DOMAIN delivered'[q],
                 NEW j \in DOMAIN delivered'[q], i < j
          PROVE  delivered'[q][i] < delivered'[q][j]
      BY <2>6, <3>1 DEF DeliveredOnce
    <3>2. ASSUME NEW i \in 1 .. n + 1, NEW j \in 1 .. n + 1, i < j
          PROVE  delivered'[p][i] < delivered'[p][j]
      <4>1. i \in 1 .. n
        BY <2>5, <3>2
      <4>2. CASE j \in 1 .. n
        BY <4>1, <4>2, <3>2, <2>1, <2>5, <2>7 DEF DeliveredOnce
      <4>3. CASE j = n + 1
        BY <4>1, <4>3, <2>2, <2>5, <2>7
      <4> QED
        BY <2>5, <4>2, <4>3, SMTT(30)
    <3> QED
      BY <2>7, <3>1, <3>2 DEF DeliveredOnce
  <2>10. CommitInProgress'
    BY <2>3 DEF CommitInProgress
  <2> QED
    BY <1>3, <1>6, <1>4, <2>8, <2>9, <2>10
<1>8. CASE ~(job.kind = "commit" /\ job.flush = 2)
  <2>1. delivered' = delivered
    BY <1>1, <1>8 DEF AfterFlush
  <2>2. DeliveredDurable'
    <3> SUFFICES ASSUME NEW q \in Pdu, NEW i \in DOMAIN delivered[q]
                 PROVE  delivered[q][i] <= Stored(q)'
      BY <2>1 DEF DeliveredDurable
    <3> QED
      BY <1>5
  <2>3. DeliveredOnce'
    BY <2>1 DEF DeliveredOnce
  <2>4. CASE job.kind = "commit" /\ job.flush = 1
    <3>1. job' = [job EXCEPT !.flush = 2] /\ pc' = "open"
      BY <1>1, <2>4 DEF AfterFlush
    <3>2. /\ job.pdu \in Pdu /\ job' \in Job
          /\ job'.pdu = job.pdu /\ job'.value = job.value
      BY <3>1, <2>4, <1>4 DEF TypeOK, Job
    <3>3. /\ store[job.pdu] = job.value
          /\ \A i \in DOMAIN delivered[job.pdu] : delivered[job.pdu][i] < job.value
      BY <1>1, <2>4 DEF CommitInProgress
    <3> QED
      BY <1>1, <1>2, <1>3, <1>6, <1>4, <2>1, <2>2, <2>3, <3>1, <3>2, <3>3 DEF CommitInProgress
  <2>5. CASE job.kind = "key_metadata"
    <3>1. pc' = "idle"
      BY <1>1, <2>5 DEF AfterFlush
    <3> QED
      BY <1>3, <1>6, <1>4, <2>2, <2>3, <3>1 DEF CommitInProgress
  <2> QED
    BY <1>1, <1>8, <2>4, <2>5 DEF AfterFlush
<1> QED
  BY <1>7, <1>8

(* Every step of the store preserves the invariant. *)
LEMMA DurableStep == DurableInv /\ [Next]_vars => DurableInv'
<1> SUFFICES ASSUME DurableInv, [Next]_vars PROVE DurableInv'
  OBVIOUS
<1> USE DEF DurableInv
<1>1. ASSUME NEW p \in Pdu, NEW n \in store[p] + 1 .. store[p] + Window, commit_freshness(p, n)
      PROVE  DurableInv'
  BY <1>1, CommitStep
<1>2. CASE save_key_metadata
  <2>1. TypeOK' /\ CommitInProgress'
    BY <1>2 DEF save_key_metadata, TypeOK, CommitInProgress, Metadata, Job
  <2>2. DeliveredInMemory' /\ UNCHANGED <<file, delivered>>
    BY <1>2 DEF save_key_metadata, DeliveredInMemory
  <2> QED
    BY <2>1, <2>2, DeliveriesKept
<1>3. CASE open_tmp
  <2>1. TypeOK' /\ CommitInProgress'
    BY <1>3 DEF open_tmp, TypeOK, CommitInProgress, Partial, File, Stored
  <2>2. DeliveredInMemory' /\ UNCHANGED <<file, delivered>>
    BY <1>3 DEF open_tmp, DeliveredInMemory
  <2> QED
    BY <2>1, <2>2, DeliveriesKept
<1>4. CASE write_text
  <2>1. TypeOK' /\ CommitInProgress'
    BY <1>4 DEF write_text, TypeOK, CommitInProgress, Whole, File, Stored
  <2>2. DeliveredInMemory' /\ UNCHANGED <<file, delivered>>
    BY <1>4 DEF write_text, DeliveredInMemory
  <2> QED
    BY <2>1, <2>2, DeliveriesKept
<1>5. CASE replace
  BY <1>5, ReplaceStep
<1>6. CASE flush_fails \/ Crash
  <2>1. TypeOK' /\ CommitInProgress'
    BY <1>6 DEF flush_fails, Crash, TypeOK, CommitInProgress
  <2>2. DeliveredInMemory' /\ UNCHANGED <<file, delivered>>
    BY <1>6 DEF flush_fails, Crash, DeliveredInMemory
  <2> QED
    BY <2>1, <2>2, DeliveriesKept
<1>7. CASE load
  <2>1. /\ store' = [p \in Pdu |-> Stored(p)]
        /\ UNCHANGED <<file, tmp, job, delivered, pc>>
        /\ up' /\ ~up
    BY <1>7 DEF load, Stored, TypeOK, File, Counters
  <2>2. \A p \in Pdu : Stored(p) \in Nat
    BY DEF Stored, TypeOK, File, Counters
  <2>3. TypeOK'
    BY <1>7, <2>1, <2>2 DEF load, TypeOK, Counters
  <2>4. CommitInProgress'
    BY <2>1 DEF CommitInProgress
  <2>5. DeliveredInMemory'
    BY <2>1 DEF DeliveredInMemory, DeliveredDurable
  <2> QED
    BY <2>1, <2>3, <2>4, <2>5, DeliveriesKept
<1>8. CASE load_fails
  <2>1. TypeOK' /\ FileWhole' /\ CommitInProgress'
    BY <1>8 DEF load_fails, TypeOK, Counters, FileWhole, CommitInProgress
  <2>2. DeliveredDurable' /\ DeliveredOnce' /\ DeliveredInMemory'
    BY <1>8 DEF load_fails, DeliveredDurable, DeliveredOnce, DeliveredInMemory
  <2> QED
    BY <2>1, <2>2
<1>9. CASE UNCHANGED vars
  BY <1>9 DEF vars, TypeOK, FileWhole, DeliveredDurable, DeliveredOnce, DeliveredInMemory,
              CommitInProgress, Stored
<1> QED
  BY <1>1, <1>2, <1>3, <1>4, <1>5, <1>6, <1>7, <1>8, <1>9 DEF Next

(* The invariant, in every reachable state. *)
THEOREM DurableInvariance == Spec => []DurableInv
<1>1. Init => DurableInv
  BY DurableInit
<1>2. DurableInv /\ [Next]_vars => DurableInv'
  BY DurableStep
<1> QED
  BY <1>1, <1>2, PTL DEF Spec

(* nvm_store.json is never half written. *)
THEOREM FileWholeHolds == Spec => []FileWhole
BY DurableInvariance, PTL DEF DurableInv

(* A published frame's counter is on disk. *)
THEOREM DeliveredDurableHolds == Spec => []DeliveredDurable
BY DurableInvariance, PTL DEF DurableInv

(* Delivered counters rise strictly, across any crashes and errors of
   writing. *)
THEOREM DeliveredOnceHolds == Spec => []DeliveredOnce
BY DurableInvariance, PTL DEF DurableInv
-----------------------------------------------------------------------------
(* What the process does to the NvM is what the store may do, start-up,
   boot check and profile updates included. *)
LEMMA StepOfStore == [PersistNext]_allVars => [Next]_vars
<1> SUFFICES ASSUME [PersistNext]_allVars PROVE [Next]_vars
  OBVIOUS
<1>1. CASE Open \/ Write \/ Rename \/ FlushFails \/ OtherWrite
  BY <1>1 DEF Open, Write, Rename, FlushFails, OtherWrite, Next
<1>2. ASSUME NEW c \in Components, ProvisionHash(c) PROVE [Next]_vars
  BY <1>2 DEF ProvisionHash, Next
<1>3. ASSUME NEW p \in Pdu, NEW n \in store[p] + 1 .. store[p] + Window, Receive(p, n)
      PROVE  [Next]_vars
  BY <1>3 DEF Receive, Next
<1>4. CASE KeysProvisioned \/ Boot \/ UpdateProfile
  BY <1>4 DEF KeysProvisioned, Boot, UpdateProfile
<1>5. CASE Die
  BY <1>5 DEF Die, Next
<1>6. CASE Start
  BY <1>6 DEF Start, Next
<1>7. CASE UNCHANGED allVars
  BY <1>7 DEF allVars
<1> QED
  BY <1>1, <1>2, <1>3, <1>4, <1>5, <1>6, <1>7 DEF PersistNext

(* The server process implements the store. *)
THEOREM StoreImplemented == PersistSpec => Spec
<1>1. PersistInit => Init
  BY DEF PersistInit
<1>2. [PersistNext]_allVars => [Next]_vars
  BY StepOfStore
<1> QED
  BY <1>1, <1>2, PTL DEF PersistSpec, Spec

(* The NvM file of the process is absent or complete. *)
THEOREM ProcessFileWhole == PersistSpec => []FileWhole
BY StoreImplemented, FileWholeHolds, PTL

(* The counter of every frame the process published is on disk. *)
THEOREM ProcessDeliveredDurable == PersistSpec => []DeliveredDurable
BY StoreImplemented, DeliveredDurableHolds, PTL

(* The process publishes no counter twice, over any number of starts. *)
THEOREM ProcessDeliveredOnce == PersistSpec => []DeliveredOnce
BY StoreImplemented, DeliveredOnceHolds, PTL
-----------------------------------------------------------------------------
(* A step of an update keeps the file what callers were told it is. *)
LEMMA UpdateStep ==
  ASSUME ProfileInv, UpdateProfile
  PROVE  ProfileInv'
<1> USE DEF ProfileInv, ProfileTyped, ProfilesReturned, UpdateInProgress
<1>1. ASSUME NEW p \in Profile, NEW v \in Version, update_profile_version(p, v)
      PROVE  ProfileInv'
  <2>1. /\ versions' = [versions EXCEPT ![p] = v]
        /\ updating' = Begun(p, v)
        /\ config' = config /\ returned' = returned
    BY <1>1 DEF update_profile_version
  <2>2. updating' \in Update /\ updating'.state # "written"
    BY <2>1 DEF Update, Begun
  <2> QED
    BY <2>1, <2>2 DEF Versions
<1>2. CASE write_profiles
  <2>1. /\ updating.state = "begun"
        /\ updating' = Written(updating.profile, updating.version,
                               [config EXCEPT ![updating.profile] = updating.version])
        /\ UNCHANGED <<versions, config, returned>>
    BY <1>2 DEF write_profiles
  <2>2. updating.profile \in Profile /\ updating.version \in Version
    BY <2>1 DEF Update, None, Begun, Written
  <2>3. [config EXCEPT ![updating.profile] = updating.version] \in Versions
    BY <2>2 DEF Versions
  <2>4. updating' \in Update
    <3>1. PICK p \in Profile, v \in Version, f \in Versions : updating' = Written(p, v, f)
      BY <2>1, <2>2, <2>3
    <3> QED
      BY <3>1 DEF Update
  <2> QED
    BY <2>1, <2>4 DEF Written
<1>3. CASE replace_profiles
  <2>1. /\ updating.state = "written"
        /\ config' = updating.tmp
        /\ returned' = [returned EXCEPT ![updating.profile] = updating.version]
        /\ updating' = None /\ versions' = versions
    BY <1>3 DEF replace_profiles
  <2>2. updating.tmp \in Versions /\ updating.tmp = [config EXCEPT ![updating.profile] = updating.version]
    BY <2>1 DEF Update, None, Begun, Written
  <2>3. config' = returned' /\ config' \in Versions
    BY <2>1, <2>2
  <2>4. updating' \in Update /\ updating'.state # "written"
    BY <2>1 DEF Update, None
  <2> QED
    BY <2>1, <2>3, <2>4
<1>4. CASE update_fails
  BY <1>4 DEF update_fails, Update, None
<1> QED
  BY <1>1, <1>2, <1>3, <1>4 DEF UpdateProfile

(* The profile file's invariant, in every reachable state. *)
LEMMA ProfileInvariance == PersistSpec => []ProfileInv
<1>1. PersistInit => ProfileInv
  BY ProfileAssumption DEF PersistInit, ProfileInit, ProfileInv, ProfileTyped,
     ProfilesReturned, UpdateInProgress, Versions, Update, None
<1>2. ProfileInv /\ [PersistNext]_allVars => ProfileInv'
  <2> SUFFICES ASSUME ProfileInv, [PersistNext]_allVars PROVE ProfileInv'
    OBVIOUS
  <2>1. CASE UNCHANGED profileVars
    BY <2>1 DEF profileVars, ProfileInv, ProfileTyped, ProfilesReturned, UpdateInProgress
  <2>2. CASE UpdateProfile
    BY <2>2, UpdateStep
  <2>3. CASE Die
    BY <2>3 DEF Die, ProfileInv, ProfileTyped, ProfilesReturned, UpdateInProgress, Update, None
  <2>4. CASE Start
    BY <2>4 DEF Start, reload, ProfileInv, ProfileTyped, ProfilesReturned, UpdateInProgress
  <2>5. ASSUME NEW c \in Components, ProvisionHash(c) PROVE UNCHANGED profileVars
    BY <2>5 DEF ProvisionHash
  <2>6. ASSUME NEW p \in Pdu, NEW n \in store[p] + 1 .. store[p] + Window, Receive(p, n)
        PROVE  UNCHANGED profileVars
    BY <2>6 DEF Receive
  <2>7. ASSUME Open \/ Write \/ Rename \/ FlushFails \/ OtherWrite \/ KeysProvisioned \/ Boot
        PROVE  UNCHANGED profileVars
    BY <2>7 DEF Open, Write, Rename, FlushFails, OtherWrite, KeysProvisioned, Boot
  <2> QED
    BY <2>1, <2>2, <2>3, <2>4, <2>5, <2>6, <2>7 DEF PersistNext, allVars
<1> QED
  BY <1>1, <1>2, PTL DEF PersistSpec

(* The profile file holds the versions callers were told it holds. *)
THEOREM ProfilesReturnedHolds == PersistSpec => []ProfilesReturned
<1>1. ProfileInv => ProfilesReturned
  BY DEF ProfileInv
<1> QED
  BY <1>1, ProfileInvariance, PTL
-----------------------------------------------------------------------------
(* A first start has no hashes anywhere. *)
LEMMA BootInit == PersistInit => BootInv
BY BootAssumption DEF PersistInit, Init, BootInv, HashesTyped, HashesOnDisk, HashesInMemory,
   ServesVerified, NoHashes

(* A rename puts what memory holds on disk, and what a process that read the
   file puts there has the hashes that were there. *)
LEMMA RenameStep ==
  ASSUME BootInv, DurableInv, Rename
  PROVE  BootInv'
<1>1. /\ up /\ pc = "replace" /\ file' = tmp /\ up' = up
      /\ goldenFile' = goldenTmp /\ goldenTmp = golden
      /\ UNCHANGED <<golden, goldenTmp, misread, phase, firmware, bootOk>>
  BY DEF Rename, replace, bootVars, BootInv, HashesOnDisk
<1>2. file'.state = "whole"
  BY <1>1 DEF DurableInv, CommitInProgress, Whole
<1>3. pc' # "replace"
  BY DEF Rename, replace, AfterFlush
<1>4. HashesTyped'
  BY <1>1 DEF BootInv, HashesTyped
<1>5. provisioned' = goldenFile'
  <2>1. provisioned' = [c \in Components |->
                          IF misread \/ provisioned[c] = NoHash THEN goldenTmp[c]
                                                               ELSE provisioned[c]]
    BY DEF Rename
  <2>2. provisioned = goldenFile /\ golden \in [Components -> Firmware \cup {NoHash}]
    BY DEF BootInv, HashesTyped, HashesOnDisk
  <2>3. ASSUME NEW c \in Components, ~misread, provisioned[c] # NoHash
        PROVE  provisioned[c] = goldenTmp[c]
    BY <1>1, <2>2, <2>3 DEF BootInv, HashesInMemory
  <2>4. provisioned' = [c \in Components |-> goldenTmp[c]]
    BY <2>1, <2>3
  <2> QED
    BY <1>1, <2>2, <2>4
<1>6. HashesOnDisk'
  BY <1>2, <1>3, <1>5 DEF HashesOnDisk
<1>7. HashesInMemory'
  BY <1>1 DEF HashesInMemory
<1>8. ServesVerified'
  BY <1>1 DEF BootInv, ServesVerified, Verified
<1> QED
  BY <1>1, <1>4, <1>6, <1>7, <1>8 DEF BootInv

(* Start-up provisions only what the disk lacks. *)
LEMMA ProvisionStep ==
  ASSUME BootInv, NEW c \in Components, ProvisionHash(c)
  PROVE  BootInv'
<1>1. /\ up /\ up' /\ phase = "hashes" /\ pc' = "open" /\ golden[c] = NoHash
      /\ golden' = [golden EXCEPT ![c] = firmware]
      /\ UNCHANGED <<file, goldenTmp, goldenFile, misread, provisioned, phase, firmware, bootOk>>
  BY DEF ProvisionHash, Quiet, Missing, save_key_metadata, bootVars
<1>2. HashesTyped'
  BY <1>1 DEF BootInv, HashesTyped
<1>3. HashesOnDisk'
  BY <1>1 DEF BootInv, HashesOnDisk
<1>4. HashesInMemory'
  <2>1. ASSUME ~misread, NEW d \in Components PROVE goldenFile[d] \in {NoHash, golden'[d]}
    <3>1. goldenFile[d] \in {NoHash, golden[d]}
      BY <1>1, <2>1 DEF BootInv, HashesInMemory
    <3>2. d # c => golden'[d] = golden[d]
      BY <1>1 DEF BootInv, HashesTyped
    <3> QED
      BY <1>1, <3>1, <3>2
  <2> QED
    BY <1>1, <2>1 DEF HashesInMemory
<1> QED
  BY <1>1, <1>2, <1>3, <1>4 DEF BootInv, ServesVerified

(* The boot check compares what is on disk: every hash is there, so memory
   is not the empty one of a start that could not read the file. *)
LEMMA BootStep ==
  ASSUME BootInv, Boot
  PROVE  BootInv'
<1>1. /\ up /\ pc = "idle" /\ phase = "hashes" /\ phase' = "serving"
      /\ \A c \in Components : golden[c] # NoHash
      /\ bootOk' = \A c \in Components : Verified(c)
      /\ UNCHANGED <<vars, hashVars, firmware>>
  BY DEF Boot, Quiet, Missing
<1>2. UNCHANGED <<up, pc, file, golden, goldenTmp, goldenFile, misread, provisioned>>
  BY <1>1 DEF vars, hashVars
<1>3. golden # NoHashes
  <2>1. PICK c : c \in Components
    BY BootAssumption DEF Components
  <2> QED
    BY <1>1, <2>1 DEF NoHashes
<1>4. golden = goldenFile
  BY <1>1, <1>3 DEF BootInv, HashesInMemory
<1>5. HashesTyped' /\ HashesOnDisk'
  BY <1>2 DEF BootInv, HashesTyped, HashesOnDisk
<1>6. HashesInMemory'
  BY <1>2, <1>4 DEF BootInv, HashesInMemory
<1>7. ServesVerified'
  BY <1>1, <1>2, <1>4 DEF ServesVerified, Verified
<1> QED
  BY <1>1, <1>5, <1>6, <1>7 DEF BootInv

(* The next start has the hashes of the disk, or none and knows it. *)
LEMMA StartStep ==
  ASSUME BootInv, DurableInv, Start
  PROVE  BootInv'
<1>1. /\ phase' = "keys" /\ pc' = pc /\ file' = file
      /\ UNCHANGED <<firmware, goldenTmp, goldenFile, provisioned>>
  BY DEF Start, load, load_fails
<1>2. /\ ~up /\ pc # "replace"
  BY DEF Start, load, load_fails, DurableInv, CommitInProgress
<1>3. HashesOnDisk'
  BY <1>1, <1>2 DEF BootInv, HashesOnDisk
<1>4. CASE golden' = goldenFile /\ misread' = FALSE
  BY <1>1, <1>3, <1>4 DEF BootInv, HashesTyped, HashesInMemory, ServesVerified
<1>5. CASE golden' = NoHashes /\ misread' = TRUE
  BY <1>1, <1>3, <1>5 DEF BootInv, HashesTyped, HashesInMemory, ServesVerified, NoHashes
<1>6. file.state # "whole" => goldenFile = NoHashes
  BY DEF BootInv, HashesOnDisk
<1> QED
  BY <1>4, <1>5, <1>6 DEF Start

(* Every other step of a flush, request or file error leaves the hashes of
   memory and disk alone. *)
LEMMA HashesKept ==
  ASSUME BootInv, UNCHANGED <<golden, goldenTmp, goldenFile, misread, provisioned>>,
         UNCHANGED <<file, phase, firmware, bootOk>>,
         pc' = "replace" => pc = "replace",
         up' => up /\ (phase = "hashes" /\ pc # "idle" => pc' # "idle")
  PROVE  BootInv'
<1>1. HashesTyped' /\ HashesOnDisk'
  BY DEF BootInv, HashesTyped, HashesOnDisk
<1>2. HashesInMemory'
  BY DEF BootInv, HashesInMemory
<1>3. ServesVerified'
  BY DEF BootInv, ServesVerified, Verified
<1> QED
  BY <1>1, <1>2, <1>3 DEF BootInv

(* Every step preserves the invariant. *)
LEMMA BootInvStep == BootInv /\ DurableInv /\ [PersistNext]_allVars => BootInv'
<1> SUFFICES ASSUME BootInv, DurableInv, [PersistNext]_allVars PROVE BootInv'
  OBVIOUS
<1>1. CASE Open
  BY <1>1, HashesKept DEF Open, open_tmp, hashVars, bootVars
<1>2. CASE Write
  <2>1. /\ up' = up /\ pc # "idle" /\ pc' = "replace" /\ goldenTmp' = golden
        /\ UNCHANGED <<file, golden, goldenFile, misread, provisioned, phase, firmware, bootOk>>
    BY <1>2 DEF Write, write_text, bootVars
  <2>2. HashesTyped' /\ HashesOnDisk'
    BY <2>1 DEF BootInv, HashesTyped, HashesOnDisk
  <2>3. HashesInMemory' /\ ServesVerified'
    BY <2>1 DEF BootInv, HashesInMemory, ServesVerified, Verified
  <2> QED
    BY <2>1, <2>2, <2>3 DEF BootInv
<1>3. CASE Rename
  BY <1>3, RenameStep
<1>4. CASE FlushFails
  BY <1>4, HashesKept DEF FlushFails, flush_fails, hashVars, bootVars
<1>5. CASE OtherWrite
  BY <1>5, HashesKept DEF OtherWrite, Quiet, save_key_metadata, hashVars, bootVars
<1>6. CASE KeysProvisioned
  <2>1. /\ up /\ pc = "idle" /\ phase' = "hashes"
        /\ UNCHANGED <<up, pc, file, golden, goldenTmp, goldenFile, misread, provisioned, firmware>>
        /\ phase = "keys"
    BY <1>6 DEF KeysProvisioned, Quiet, vars, hashVars
  <2>2. HashesTyped' /\ HashesOnDisk' /\ HashesInMemory' /\ ServesVerified'
    BY <2>1 DEF BootInv, HashesTyped, HashesOnDisk, HashesInMemory, ServesVerified
  <2> QED
    BY <2>1, <2>2 DEF BootInv
<1>7. ASSUME NEW c \in Components, ProvisionHash(c) PROVE BootInv'
  BY <1>7, ProvisionStep
<1>8. CASE Boot
  BY <1>8, BootStep
<1>9. ASSUME NEW p \in Pdu, NEW n \in store[p] + 1 .. store[p] + Window, Receive(p, n)
      PROVE  BootInv'
  BY <1>9, HashesKept DEF Receive, Quiet, commit_freshness, hashVars, bootVars
<1>10. CASE UpdateProfile
  BY <1>10, HashesKept DEF UpdateProfile, vars, hashVars, bootVars
<1>11. CASE Die
  <2>1. /\ ~up' /\ pc' = "idle" /\ firmware' \in Firmware
        /\ UNCHANGED <<file, golden, goldenTmp, goldenFile, misread, provisioned>>
    BY <1>11 DEF Die, Crash, hashVars
  <2>2. HashesTyped' /\ HashesOnDisk' /\ HashesInMemory' /\ ServesVerified'
    BY <2>1 DEF BootInv, HashesTyped, HashesOnDisk, HashesInMemory, ServesVerified
  <2> QED
    BY <2>1, <2>2 DEF BootInv
<1>12. CASE Start
  BY <1>12, StartStep
<1>13. CASE UNCHANGED allVars
  BY <1>13, HashesKept DEF allVars, vars, hashVars, bootVars
<1> QED
  BY <1>1, <1>2, <1>3, <1>4, <1>5, <1>6, <1>7, <1>8, <1>9, <1>10, <1>11, <1>12, <1>13
     DEF PersistNext

(* The boot invariant, in every reachable state. *)
THEOREM BootInvariance == PersistSpec => []BootInv
<1>1. PersistInit => BootInv
  BY BootInit
<1>2. BootInv /\ DurableInv /\ [PersistNext]_allVars => BootInv'
  BY BootInvStep
<1> QED
  BY <1>1, <1>2, StoreImplemented, DurableInvariance, PTL DEF PersistSpec

(* A process that serves knows the truth about its firmware. *)
THEOREM TamperDetectedHolds == PersistSpec => []TamperDetected
<1>1. BootInv => TamperDetected
  BY DEF BootInv, HashesOnDisk, ServesVerified, TamperDetected, Verified
<1> QED
  BY <1>1, BootInvariance, PTL
-----------------------------------------------------------------------------
(* What start-up and the boot check keep, beside the hashes. *)
PhaseTyped ==
  /\ phase \in {"keys", "hashes", "serving"}
  /\ bootOk \in BOOLEAN
  /\ misread \in BOOLEAN
  /\ failedComponent \in Components \cup {0}

(* Every step keeps it. *)
LEMMA PhaseAlways == PersistSpec => []PhaseTyped
<1>1. PersistInit => PhaseTyped
  BY DEF PersistInit, PhaseTyped
<1>2. ASSUME PhaseTyped, [PersistNext]_allVars PROVE PhaseTyped'
  <2>1. CASE UNCHANGED <<phase, bootOk, misread, failedComponent>>
    BY <1>2, <2>1 DEF PhaseTyped
  <2>2. CASE KeysProvisioned
    BY <1>2, <2>2 DEF PhaseTyped, KeysProvisioned, hashVars
  <2>3. CASE Boot
    BY <1>2, <2>3 DEF PhaseTyped, Boot, hashVars
  <2>4. CASE Start
    BY <1>2, <2>4 DEF PhaseTyped, Start
  <2>5. ASSUME \/ Open \/ Write \/ Rename \/ FlushFails \/ OtherWrite \/ UpdateProfile \/ Die
               \/ \E c \in Components : ProvisionHash(c)
               \/ \E p \in Pdu : \E n \in store[p] + 1 .. store[p] + Window : Receive(p, n)
               \/ UNCHANGED allVars
        PROVE  UNCHANGED <<phase, bootOk, misread, failedComponent>>
    BY <2>5 DEF Open, Write, Rename, FlushFails, OtherWrite, UpdateProfile, Die, ProvisionHash,
                Receive, allVars, hashVars, bootVars
  <2> QED BY <1>2, <2>1, <2>2, <2>3, <2>4, <2>5 DEF PersistNext
<1> QED BY <1>1, <1>2, PTL DEF PersistSpec

(* Every variable of the server process keeps its type, whatever crashes,
   errors, updates and firmware it lives through. *)
THEOREM PersistTypes == PersistSpec => []PersistTypeOK
<1>1. DurableInv /\ ProfileInv /\ BootInv /\ PhaseTyped => PersistTypeOK
  <2> SUFFICES ASSUME DurableInv, ProfileInv, BootInv, PhaseTyped PROVE PersistTypeOK
    OBVIOUS
  <2>1. TypeOK /\ ProfileTyped
    BY DEF DurableInv, ProfileInv
  <2>2. /\ {golden, goldenTmp, goldenFile, provisioned} \subseteq [Components -> Firmware \cup {NoHash}]
        /\ firmware \in Firmware
    BY DEF BootInv, HashesTyped, HashesOnDisk
  <2>3. /\ phase \in {"keys", "hashes", "serving"} /\ {bootOk, misread} \subseteq BOOLEAN
        /\ failedComponent \in Components \cup {0}
    BY DEF PhaseTyped
  <2> QED BY <2>1, <2>2, <2>3 DEF PersistTypeOK
<1> QED
  BY <1>1, StoreImplemented, DurableInvariance, ProfileInvariance, BootInvariance, PhaseAlways, PTL
=============================================================================
