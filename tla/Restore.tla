------------------------------- MODULE Restore -------------------------------
(***************************************************************************)
(* The Backup and the GameServer reconciler of one manager, over one store *)
(* and one set of informer caches: a GameServer whose restoreFrom names a  *)
(* Backup taken of the GameServer of that name, the restore in place that  *)
(* docs/backups.md describes.  The Backup reconciler wants the GameServer  *)
(* to exist before it reports the Backup Ready, the GameServer reconciler  *)
(* wants the Backup Ready before it makes a volume.                        *)
(*                                                                         *)
(* The Backup's side is BackupController.  Of the GameServer's side, all   *)
(* of which is in GameServerController, this is what touches the volume;   *)
(* the template accepts the config, and the rest of a pass, which could    *)
(* only ask for further ones, ends with applyPVC.                          *)
(***************************************************************************)
EXTENDS BackupController

VARIABLES
  volume,    \* the PersistentVolumeClaim, as stored (api) and as cached
  serving,   \* the GameServer pass in flight
  waiting    \* whether the GameServer's key is in its workqueue

server == <<volume, serving, waiting>>

\* The data source a volume is created with.
Sources == {"none", "snapshot"}

Claim == [owner : Nat, source : Sources]

ASSUME ClaimAssumption == Absent \notin Claim

RestoreTypeOK ==
  /\ TypeOK
  /\ volume \in [api : Claim \union {Absent}, cache : Claim \union {Absent}]
  /\ serving \in [pc : {"Idle", "ResolveRestoreSource", "ApplyPVC"}, uid : Nat, source : Sources]
  /\ waiting \in BOOLEAN

NoPass == [pc |-> "Idle", uid |-> 0, source |-> "none"]

\* A GameServer that is there has its volume, made without a source.
RestoreInit ==
  /\ Init
  /\ LET pvc == IF api.gs = 0 THEN Absent ELSE [owner |-> api.gs, source |-> "none"]
     IN  volume = [api |-> pvc, cache |-> pvc]
  /\ serving = NoPass
  /\ waiting = (api.gs # 0)

-----------------------------------------------------------------------------
(* The GameServer's pass *)

End(requeue) ==
  /\ serving' = NoPass
  /\ waiting' = (waiting \/ requeue)
  /\ UNCHANGED vars

ReconcileServer ==
  /\ serving.pc = "Idle"
  /\ waiting
  /\ waiting' = FALSE
  /\ serving' = IF cache.gs = 0 THEN NoPass
                ELSE [NoPass EXCEPT !.pc = "ResolveRestoreSource", !.uid = cache.gs]
  /\ UNCHANGED <<vars, volume>>

Restorable == cache.bk # Absent /\ cache.bk.phase = "Ready" /\ cache.bk.name

\* Mutant: the pass waits for an event of the Backup.
RestoreUnavailableWaits ==
  /\ serving.pc = "ResolveRestoreSource"
  /\ volume.cache = Absent
  /\ ~Restorable
  /\ End(FALSE)
  /\ UNCHANGED volume

\* Degraded, and tried again: Backups are not watched.
RestoreUnavailable ==
  /\ serving.pc = "ResolveRestoreSource"
  /\ volume.cache = Absent
  /\ ~Restorable
  /\ End(TRUE)
  /\ UNCHANGED volume

ResolveRestoreSource ==
  /\ serving.pc = "ResolveRestoreSource"
  /\ volume.cache = Absent => Restorable
  /\ serving' = [serving EXCEPT !.pc = "ApplyPVC",
                                !.source = IF volume.cache = Absent THEN "snapshot" ELSE "none"]
  /\ UNCHANGED <<vars, volume, waiting>>

\* Looked up again: created if missing, and left alone otherwise.
ApplyPVC ==
  /\ serving.pc = "ApplyPVC"
  /\ volume' = IF volume.cache # Absent \/ volume.api # Absent THEN volume
               ELSE [volume EXCEPT !.api = [owner |-> serving.uid, source |-> serving.source]]
  /\ End(volume.cache = Absent /\ volume.api # Absent)

ServerPassStep ==
  \/ ReconcileServer
  \/ RestoreUnavailable
  \/ ResolveRestoreSource
  \/ ApplyPVC

-----------------------------------------------------------------------------
(* What the GameServer reconciler is told, the garbage collector, faults *)

SyncVolume ==
  /\ volume.cache # volume.api
  /\ volume' = [volume EXCEPT !.cache = volume.api]
  /\ waiting' = TRUE
  /\ UNCHANGED <<vars, serving>>

\* The Backup reconciler hears nothing of GameServers, theirs does.
SyncServerBoth ==
  /\ SyncServer
  /\ waiting' = TRUE
  /\ UNCHANGED <<volume, serving>>

CollectVolume ==
  /\ volume.api # Absent
  /\ volume.api.owner # api.gs
  /\ volume' = [volume EXCEPT !.api = Absent]
  /\ UNCHANGED <<vars, serving, waiting>>

ServerCallFails ==
  /\ Fault
  /\ serving.pc # "Idle"
  /\ serving' = NoPass
  /\ waiting' = TRUE
  /\ UNCHANGED <<api, cache, pass, queued, edits, volume>>

\* One process runs both reconcilers.
RestartBoth ==
  /\ Restart
  /\ serving' = NoPass
  /\ waiting' = TRUE
  /\ volume' = [volume EXCEPT !.cache = volume.api]

-----------------------------------------------------------------------------

RestoreNext ==
  \/ BackupStep /\ UNCHANGED server
  \/ ServerPassStep
  \/ SyncVolume
  \/ SyncServerBoth
  \/ CollectVolume
  \/ ServerCallFails
  \/ RestartBoth

all == <<vars, server>>

RestoreSpec == RestoreInit /\ [][RestoreNext]_all

\* Each worker runs, every watch delivers on its own (a pass working on a stale
\* Backup and the collector can keep one another, and one watch, busy for ever),
\* garbage is collected.  Nothing says that a snapshot ever becomes ready.
FairRestoreSpec ==
  /\ RestoreSpec
  /\ WF_all(PassStep /\ UNCHANGED server)
  /\ WF_all(SyncBackup /\ UNCHANGED server)
  /\ WF_all(SyncSnapshot /\ UNCHANGED server)
  /\ WF_all(CollectSnapshot /\ UNCHANGED server)
  /\ WF_all(ServerPassStep)
  /\ WF_all(SyncVolume)
  /\ WF_all(SyncServerBoth)
  /\ WF_all(CollectVolume)

-----------------------------------------------------------------------------
(* Properties *)

\* The two reconcilers never wait for each other for good: deleting the
\* GameServer takes the Backup's Ready back, and re-applying it with restoreFrom
\* asks for a Ready Backup.  Whatever is deleted, re-created, lost or restarted
\* on the way, once the snapshot is usable the GameServer gets a volume of its own.
RestoreSettles ==
  <>[](/\ api.gs # 0
       /\ api.bk # Absent
       /\ api.vs # Absent
       /\ api.vs.state = "Ready"
       => /\ volume.api # Absent
          /\ volume.api.owner = api.gs)

\* The safety half of it: when neither reconciler has anything left to look at,
\* no pass waits for the other's: a GameServer has a volume of its own.
RestIsRestored ==
  (/\ serving.pc = "Idle" /\ ~waiting
   /\ cache.gs = api.gs /\ volume.cache = volume.api
   /\ api.gs # 0
   /\ volume.api # Absent => volume.api.owner = api.gs)
    => volume.api # Absent
=============================================================================
