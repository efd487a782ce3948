---------------------------- MODULE FreshnessStore ----------------------------
(***************************************************************************)
(* sim/nvm.py under sim/freshness_manager.py: the committed counters as    *)
(* they are in memory, in the temporary file and in nvm_store.json, step   *)
(* by step through commit_freshness, with crashes of the process and file  *)
(* errors between any two steps.  It refines what SecOC!Accept takes as    *)
(* one step: commit_freshness, then the frame's publication.               *)
(*                                                                         *)
(* The NvM is one dictionary in one file: a flush writes all of it.  It is *)
(* modelled by the counters alone; save_key_metadata stands for the other  *)
(* writers of the file.  The anti-replay window record is always [] and    *)
(* never read, so its write is a second flush of the same content.         *)
(***************************************************************************)
EXTENDS Integers, Sequences

CONSTANTS Pdu,
          Window,      \* FreshnessManager._window_size
          MaxFreshness \* bound: counter value

ASSUME StoreAssumption == Window \in Nat \ {0}

VARIABLES
  up,        \* the process is running
  store,     \* NvM._store: the counter of each PDU
  tmp,       \* nvm_store.tmp
  file,      \* nvm_store.json
  pc,        \* "idle", or the next step of a flush: "open", "write", "replace"
  job,       \* who is flushing
  delivered  \* history: counters of the frames published after their commit,
             \* since the last start-up that could not read the file

vars == <<up, store, tmp, file, pc, job, delivered>>

Counters == [Pdu -> Nat]
NoFile == [state |-> "absent"]
Partial == [state |-> "partial"]   \* opened for writing, not yet complete
Whole(s) == [state |-> "whole", counters |-> s]
File == [state : {"absent", "partial"}] \cup [state : {"whole"}, counters : Counters]

(* A commit flushes twice: last_valid, then anti_replay_window. *)
Commit(p, n, flush) == [kind |-> "commit", pdu |-> p, value |-> n, flush |-> flush]
Metadata == [kind |-> "key_metadata"]
Job == [kind : {"commit"}, pdu : Pdu, value : Nat, flush : {1, 2}]
         \cup [kind : {"key_metadata"}]

Init ==
  /\ up = TRUE
  /\ store = [p \in Pdu |-> 0]
  /\ tmp = NoFile
  /\ file = NoFile
  /\ pc = "idle"
  /\ job = Metadata
  /\ delivered = [p \in Pdu |-> << >>]
-----------------------------------------------------------------------------
(* Mutation: the value goes to the file but not into the dictionary. *)
commit_freshnessUnstored(p, n) ==
  /\ up /\ pc = "idle"
  /\ n <= MaxFreshness
  /\ job' = Commit(p, n, 1)
  /\ pc' = "open"
  /\ UNCHANGED <<up, store, tmp, file, delivered>>

(* commit_freshness of a frame whose counter is in the window: NvM.write
   changes the dictionary in memory and then flushes. *)
commit_freshness(p, n) ==
  /\ up /\ pc = "idle"
  /\ n <= MaxFreshness
  /\ store' = [store EXCEPT ![p] = n]
  /\ job' = Commit(p, n, 1)
  /\ pc' = "open"
  /\ UNCHANGED <<up, tmp, file, delivered>>

(* KeyStorage writes a record of its own to the same file. *)
save_key_metadata ==
  /\ up /\ pc = "idle"
  /\ job' = Metadata
  /\ pc' = "open"
  /\ UNCHANGED <<up, store, tmp, file, delivered>>

(* Mutation: the file itself is opened for writing. *)
open_in_place ==
  /\ up /\ pc = "open"
  /\ tmp' = Partial
  /\ file' = Partial
  /\ pc' = "write"
  /\ UNCHANGED <<up, store, job, delivered>>

(* flush: write_text truncates nvm_store.tmp ... *)
open_tmp ==
  /\ up /\ pc = "open"
  /\ tmp' = Partial
  /\ pc' = "write"
  /\ UNCHANGED <<up, store, file, job, delivered>>

(* ... and fills it with the whole dictionary. *)
write_text ==
  /\ up /\ pc = "write"
  /\ tmp' = Whole(store)
  /\ pc' = "replace"
  /\ UNCHANGED <<up, store, file, job, delivered>>

(* Mutation: the commit goes on flushing. *)
AfterFlushMore ==
  /\ pc' = "open"
  /\ job' = IF job.kind = "commit" THEN [job EXCEPT !.flush = @ + 1] ELSE job
  /\ UNCHANGED delivered

(* A commit's second flush is followed by the frame's publication. *)
AfterFlush ==
  \/ /\ job.kind = "commit" /\ job.flush = 1
     /\ job' = [job EXCEPT !.flush = 2]
     /\ pc' = "open"
     /\ UNCHANGED delivered
  \/ /\ job.kind = "commit" /\ job.flush = 2
     /\ delivered' = [delivered EXCEPT ![job.pdu] = Append(@, job.value)]
     /\ pc' = "idle"
     /\ UNCHANGED job
  \/ /\ job.kind = "key_metadata"
     /\ pc' = "idle"
     /\ UNCHANGED <<job, delivered>>

(* Mutation: the temporary file is never renamed. *)
replace_skipped ==
  /\ up /\ pc = "replace"
  /\ AfterFlush
  /\ UNCHANGED <<up, store, tmp, file>>

(* os.replace is atomic. *)
replace ==
  /\ up /\ pc = "replace"
  /\ file' = tmp
  /\ tmp' = NoFile
  /\ AfterFlush
  /\ UNCHANGED <<up, store>>

(* An OSError of any of the three steps goes to the caller; the dictionary
   keeps what was put in it, the files stay as they are. *)
flush_fails ==
  /\ up /\ pc # "idle"
  /\ pc' = "idle"
  /\ UNCHANGED <<up, store, tmp, file, job, delivered>>

Crash ==
  /\ up
  /\ up' = FALSE
  /\ pc' = "idle"
  /\ UNCHANGED <<store, tmp, file, job, delivered>>

(* _load: the file's dictionary; an empty one when there is no file or it
   does not parse.  A left-over temporary file is ignored. *)
load ==
  /\ ~up
  /\ up' = TRUE
  /\ store' = IF file.state = "whole" THEN file.counters ELSE [p \in Pdu |-> 0]
  /\ UNCHANGED <<tmp, file, pc, job, delivered>>

(* An OSError of reading makes it an empty one too, of which the next flush
   makes the file. *)
load_fails ==
  /\ ~up
  /\ file # NoFile
  /\ up' = TRUE
  /\ store' = [p \in Pdu |-> 0]
  /\ delivered' = [p \in Pdu |-> << >>]
  /\ UNCHANGED <<tmp, file, pc, job>>

Next ==
  \/ \E p \in Pdu : \E n \in store[p] + 1 .. store[p] + Window : commit_freshness(p, n)
  \/ save_key_metadata
  \/ open_tmp
  \/ write_text
  \/ replace
  \/ flush_fails
  \/ Crash
  \/ load
  \/ load_fails

Spec == Init /\ [][Next]_vars
-----------------------------------------------------------------------------
(* Type invariant. *)
TypeOK ==
  /\ up \in BOOLEAN
  /\ store \in Counters
  /\ tmp \in File
  /\ file \in File
  /\ pc \in {"idle", "open", "write", "replace"}
  /\ job \in Job
  /\ delivered \in [Pdu -> Seq(Nat)]

(* The counter a restart would come up with. *)
Stored(p) == IF file.state = "whole" THEN file.counters[p] ELSE 0

(* Wherever the process dies, nvm_store.json is absent or complete: NvM's
   "atomic write semantics". *)
FileWhole == file # Partial

(* A published frame's counter is on disk: no crash or error of writing can
   make the receiver take it a second time. *)
DeliveredDurable ==
  \A p \in Pdu : \A i \in DOMAIN delivered[p] : delivered[p][i] <= Stored(p)

(* No counter value is delivered twice, whatever crashes and errors of
   writing lie between: freshness rises strictly across restarts, but for
   one that could not read the file.  _load does not tell that from none. *)
DeliveredOnce ==
  \A p \in Pdu : \A i, j \in DOMAIN delivered[p] :
    i < j => delivered[p][i] < delivered[p][j]

(* What makes the above inductive: what was delivered is in memory too, a
   commit in progress carries the counter in memory, which was never
   delivered, once its first flush is over that is on disk, and what is
   about to be renamed is the dictionary. *)
DeliveredInMemory ==
  up => \A p \in Pdu : \A i \in DOMAIN delivered[p] : delivered[p][i] <= store[p]

CommitInProgress ==
  /\ pc # "idle" => up
  /\ pc = "replace" => tmp = Whole(store)
  /\ pc # "idle" /\ job.kind = "commit" =>
       /\ store[job.pdu] = job.value
       /\ \A i \in DOMAIN delivered[job.pdu] : delivered[job.pdu][i] < job.value
       /\ job.flush = 2 => Stored(job.pdu) = job.value

DurableInv ==
  /\ TypeOK
  /\ FileWhole
  /\ DeliveredDurable
  /\ DeliveredOnce
  /\ DeliveredInMemory
  /\ CommitInProgress
=============================================================================
