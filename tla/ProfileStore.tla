----------------------------- MODULE ProfileStore -----------------------------
(***************************************************************************)
(* SecurityProfile of sim/security_profile.py between its dictionary and   *)
(* config/secoc_profiles.json: update_profile_version changes the entry in *)
(* memory, reads the file again, changes the entry of that PDU in what it  *)
(* read, and replaces the file.  Each access to a file may fail or be the  *)
(* process's last act; the file is renamed into place and never partial.   *)
(*                                                                         *)
(* Of an entry only its version is kept: nothing writes the other fields.  *)
(***************************************************************************)
EXTENDS Naturals

CONSTANTS Profile,  \* pdu_ids with a profile
          Version,  \* profile_version strings
          Shipped   \* the version each profile is delivered with

ASSUME ProfileAssumption == Shipped \in [Profile -> Version]

VARIABLES
  versions, \* SecurityProfile._profiles
  config,   \* secoc_profiles.json
  updating, \* the update under way: its arguments and what it read, or None
  returned  \* history: the version last written for a caller who was told so

profileVars == <<versions, config, updating, returned>>

Versions == [Profile -> Version]
None == [state |-> "none"]
Begun(p, v) == [state |-> "begun", profile |-> p, version |-> v]
Written(p, v, f) == [state |-> "written", profile |-> p, version |-> v, tmp |-> f]

Update ==
  {None} \cup {Begun(p, v) : p \in Profile, v \in Version}
         \cup {Written(p, v, f) : p \in Profile, v \in Version, f \in Versions}

ProfileInit ==
  /\ versions = Shipped
  /\ config = Shipped
  /\ updating = None
  /\ returned = Shipped
-----------------------------------------------------------------------------
(* update_profile_version of a known pdu_id: memory first. *)
update_profile_version(p, v) ==
  /\ updating = None
  /\ versions' = [versions EXCEPT ![p] = v]
  /\ updating' = Begun(p, v)
  /\ UNCHANGED <<config, returned>>

(* Mutation: what is written is the dictionary. *)
write_profilesMemory ==
  /\ updating.state = "begun"
  /\ updating' = Written(updating.profile, updating.version, versions)
  /\ UNCHANGED <<versions, config, returned>>

(* The file is read, changed, and written to the temporary one. *)
write_profiles ==
  /\ updating.state = "begun"
  /\ updating' = Written(updating.profile, updating.version,
                         [config EXCEPT ![updating.profile] = updating.version])
  /\ UNCHANGED <<versions, config, returned>>

replace_profiles ==
  /\ updating.state = "written"
  /\ config' = updating.tmp
  /\ returned' = [returned EXCEPT ![updating.profile] = updating.version]
  /\ updating' = None
  /\ UNCHANGED versions

(* An error of reading, writing or renaming goes to the caller. *)
update_fails ==
  /\ updating # None
  /\ updating' = None
  /\ UNCHANGED <<versions, config, returned>>

(* The next process loads the file. *)
reload ==
  /\ versions' = config
  /\ UNCHANGED <<config, updating, returned>>
-----------------------------------------------------------------------------
ProfileTyped ==
  /\ versions \in Versions
  /\ config \in Versions
  /\ updating \in Update
  /\ returned \in Versions

(* The file holds what callers were told it holds: the version of an update
   that failed stays in memory until the next start, and no later update, of
   this PDU or another, takes it along to the file. *)
ProfilesReturned == config = returned

(* What is about to be renamed is the file with the one change. *)
UpdateInProgress ==
  updating.state = "written" =>
    updating.tmp = [config EXCEPT ![updating.profile] = updating.version]
=============================================================================
