-------------------------- MODULE BackupController --------------------------
(***************************************************************************)
(* The Backup reconciler (internal/controller/backup_controller.go with    *)
(* snapshot_builders.go) for one Backup name: the VolumeSnapshot it creates *)
(* under the same name and mirrors, next to the users, the snapshot        *)
(* controller, the garbage collector and the informer caches.              *)
(*                                                                         *)
(* As in GameServerController, api is what the API server stores, cache    *)
(* what Get reads, pass the reconcile in flight, and queued stands for a   *)
(* timed requeue or a rate-limited retry, whose delay is left out.         *)
(***************************************************************************)
EXTENDS Naturals

CONSTANTS
  Absent,      \* stands for an object that does not exist
  MaxEdits,    \* bound on what users do
  MaxFaults    \* bound on API errors, restarts and failed snapshots

VARIABLES api, cache, pass, queued, edits, faults

vars == <<api, cache, pass, queued, edits, faults>>

Phases == {"", "Pending", "InProgress", "Ready", "Failed"}

\* gen stands for the spec; ready is the Ready condition, name whether
\* volumeSnapshotName is set.  The other status fields are copies.
Backup == [uid : Nat, gen : Nat, phase : Phases, name : BOOLEAN,
           ready : {"Unknown", "True", "False"}]

\* state: status.readyToUse, status.error or neither yet.
Snapshot == [owner : Nat, state : {"Pending", "Ready", "Error"}]

ASSUME AbsentAssumption == Absent \notin Backup /\ Absent \notin Snapshot

ASSUME BoundsAssumption == MaxEdits \in Nat /\ MaxFaults \in Nat

\* gs: the uid of the GameServer the Backup refers to, 0 if there is none.
Objects == [gs : Nat, bk : Backup \union {Absent}, vs : Snapshot \union {Absent}]

\* A pass past its first Get holds a Backup that exists.
Passes == [pc : {"Idle"}, bk : {Absent}] \union
          [pc : {"FetchServer", "FetchSnapshot", "Created"}, bk : Backup]

TypeOK ==
  /\ api \in Objects
  /\ cache \in Objects
  /\ pass \in Passes
  /\ queued \in BOOLEAN
  /\ edits \in 0..MaxEdits
  /\ faults \in 0..MaxFaults

Idle == [pc |-> "Idle", bk |-> Absent]

NewBackup(uid) == [uid |-> uid, gen |-> 1, phase |-> "", name |-> FALSE, ready |-> "Unknown"]

\* At most a GameServer exists, or it and a Backup just created.
Init ==
  /\ api \in [gs : {0, 1}, bk : {Absent, NewBackup(1)}, vs : {Absent}]
  /\ api.gs = 0 => api.bk = Absent
  /\ cache = api
  /\ pass = Idle
  /\ queued = (api.bk # Absent)
  /\ edits = 0
  /\ faults = 0

-----------------------------------------------------------------------------
(* The reconcile pass *)

Return(requeue) ==
  /\ pass' = Idle
  /\ queued' = (queued \/ requeue)
  /\ UNCHANGED <<cache, edits, faults>>

\* Status().Update is refused unless the Backup is still the one read.
Unchanged == api.bk = pass.bk

UpdateStatus(bk) == api' = IF Unchanged THEN [api EXCEPT !.bk = bk] ELSE api

\* Mutant: NotFound is not told apart.
ReconcileMissing ==
  /\ pass.pc = "Idle"
  /\ queued
  /\ queued' = FALSE
  /\ pass' = [pc |-> "FetchServer", bk |-> cache.bk]
  /\ UNCHANGED <<api, cache, edits, faults>>

\* The worker takes the key and reads the Backup; a deleted one is done.
Reconcile ==
  /\ pass.pc = "Idle"
  /\ queued
  /\ queued' = FALSE
  /\ pass' = IF cache.bk = Absent THEN Idle
             ELSE [pc |-> "FetchServer", bk |-> cache.bk]
  /\ UNCHANGED <<api, cache, edits, faults>>

Pending == [pass.bk EXCEPT !.phase = "Pending", !.ready = "False"]

\* Reported whatever the Backup's phase was; an update error is only logged.
GameServerMissing ==
  /\ pass.pc = "FetchServer"
  /\ cache.gs = 0
  /\ UpdateStatus(Pending)
  /\ Return(TRUE)

GameServerFound ==
  /\ pass.pc = "FetchServer"
  /\ cache.gs # 0
  /\ pass' = [pass EXCEPT !.pc = "FetchSnapshot"]
  /\ UNCHANGED <<api, cache, queued, edits, faults>>

\* Mutant: SetControllerReference forgotten.
UnownedSnapshot == [owner |-> 0, state |-> "Pending"]

\* BuildVolumeSnapshot and SetControllerReference.
BuildVolumeSnapshot == [owner |-> pass.bk.uid, state |-> "Pending"]

\* The cache has no VolumeSnapshot: create one.  AlreadyExists is an error.
CreateSnapshot ==
  /\ pass.pc = "FetchSnapshot"
  /\ cache.vs = Absent
  /\ IF api.vs = Absent
       THEN /\ api' = [api EXCEPT !.vs = BuildVolumeSnapshot]
            /\ pass' = [pass EXCEPT !.pc = "Created"]
            /\ UNCHANGED <<cache, queued, edits, faults>>
       ELSE UNCHANGED api /\ Return(TRUE)

\* The status update after the creation; the Ready condition is left as it was.
ReportCreated ==
  /\ pass.pc = "Created"
  /\ UpdateStatus([pass.bk EXCEPT !.phase = "InProgress", !.name = TRUE])
  /\ Return(TRUE)

\* What a pass makes of the snapshot it finds.
Mirrored(bk, vs) ==
  [bk EXCEPT !.name = TRUE,
     !.phase = CASE vs.state = "Ready" -> "Ready"
                 [] vs.state = "Error" -> "Failed"
                 [] OTHER -> "InProgress",
     !.ready = IF vs.state = "Ready" THEN "True" ELSE "False"]

\* Mutant: a finished Backup is not looked at again.
MirrorUnlessFinished ==
  /\ pass.pc = "FetchSnapshot"
  /\ cache.vs # Absent
  /\ IF pass.bk.phase \in {"Ready", "Failed"}
       THEN UNCHANGED api /\ Return(FALSE)
       ELSE /\ UpdateStatus(Mirrored(pass.bk, cache.vs))
            /\ Return(~Unchanged \/ cache.vs.state = "Pending")

\* A refused update is an error; a snapshot in progress is looked at again.
Mirror ==
  /\ pass.pc = "FetchSnapshot"
  /\ cache.vs # Absent
  /\ UpdateStatus(Mirrored(pass.bk, cache.vs))
  /\ Return(~Unchanged \/ cache.vs.state = "Pending")

PassStep ==
  \/ Reconcile
  \/ GameServerMissing
  \/ GameServerFound
  \/ CreateSnapshot
  \/ ReportCreated
  \/ Mirror

-----------------------------------------------------------------------------
(* The watches: Backups and the VolumeSnapshots they own enqueue, the        *)
(* GameServer is not watched.                                               *)

SyncBackup ==
  /\ cache.bk # api.bk
  /\ cache' = [cache EXCEPT !.bk = api.bk]
  /\ queued' = TRUE
  /\ UNCHANGED <<api, pass, edits, faults>>

SyncSnapshot ==
  /\ cache.vs # api.vs
  /\ cache' = [cache EXCEPT !.vs = api.vs]
  /\ queued' = TRUE
  /\ UNCHANGED <<api, pass, edits, faults>>

SyncServer ==
  /\ cache.gs # api.gs
  /\ cache' = [cache EXCEPT !.gs = api.gs]
  /\ UNCHANGED <<api, pass, queued, edits, faults>>

-----------------------------------------------------------------------------
(* The cluster: the snapshot controller and the garbage collector *)

SnapshotReady ==
  /\ api.vs # Absent
  /\ api.vs.state # "Ready"
  /\ api' = [api EXCEPT !.vs.state = "Ready"]
  /\ UNCHANGED <<cache, pass, queued, edits, faults>>

Fault == faults < MaxFaults /\ faults' = faults + 1

\* An error does not end it: the snapshot controller may try again.
SnapshotFails ==
  /\ Fault
  /\ api.vs # Absent
  /\ api.vs.state = "Pending"
  /\ api' = [api EXCEPT !.vs.state = "Error"]
  /\ UNCHANGED <<cache, pass, queued, edits>>

Alive(uid) == api.bk # Absent /\ api.bk.uid = uid

CollectSnapshot ==
  /\ api.vs # Absent
  /\ api.vs.owner # 0
  /\ ~Alive(api.vs.owner)
  /\ api' = [api EXCEPT !.vs = Absent]
  /\ UNCHANGED <<cache, pass, queued, edits, faults>>

-----------------------------------------------------------------------------
(* The users: people, and the BackupSchedule controller *)

Edit == edits < MaxEdits /\ edits' = edits + 1

\* Uids are never used again; edits numbers them.
CreateBackup ==
  /\ Edit
  /\ api.bk = Absent
  /\ api' = [api EXCEPT !.bk = NewBackup(edits + 1)]
  /\ UNCHANGED <<cache, pass, queued, faults>>

\* A change of the spec, such as retainForever.
EditBackup ==
  /\ Edit
  /\ api.bk # Absent
  /\ api' = [api EXCEPT !.bk.gen = @ + 1]
  /\ UNCHANGED <<cache, pass, queued, faults>>

DeleteBackup ==
  /\ Edit
  /\ api.bk # Absent
  /\ api' = [api EXCEPT !.bk = Absent]
  /\ UNCHANGED <<cache, pass, queued, faults>>

\* The GameServer is created or deleted.
ToggleServer ==
  /\ Edit
  /\ api' = [api EXCEPT !.gs = IF @ = 0 THEN edits + 1 ELSE 0]
  /\ UNCHANGED <<cache, pass, queued, faults>>

DeleteSnapshot ==
  /\ Edit
  /\ api.vs # Absent
  /\ api' = [api EXCEPT !.vs = Absent]
  /\ UNCHANGED <<cache, pass, queued, faults>>

UserStep ==
  \/ CreateBackup
  \/ EditBackup
  \/ DeleteBackup
  \/ ToggleServer
  \/ DeleteSnapshot

-----------------------------------------------------------------------------
(* The process *)

\* A call fails: the pass ends with an error.
CallFails ==
  /\ Fault
  /\ pass.pc # "Idle"
  /\ pass' = Idle
  /\ queued' = TRUE
  /\ UNCHANGED <<api, cache, edits>>

\* Also a lost answer: the pass is gone, the caches are listed afresh.
Restart ==
  /\ Fault
  /\ pass' = Idle
  /\ queued' = TRUE
  /\ cache' = api
  /\ UNCHANGED <<api, edits>>

-----------------------------------------------------------------------------

BackupStep ==
  \/ PassStep
  \/ SyncBackup
  \/ SyncSnapshot
  \/ SnapshotReady
  \/ SnapshotFails
  \/ CollectSnapshot
  \/ UserStep
  \/ CallFails

Next == BackupStep \/ SyncServer \/ Restart

Spec == Init /\ [][Next]_vars

-----------------------------------------------------------------------------
(* Properties *)

\* However Backups of the name came and went, snapshots failed, recovered or
\* were deleted, and the GameServer appeared late: in the end the Backup has a
\* VolumeSnapshot of its own and reports what has become of it.
PhaseSettles ==
  <>[](api.gs # 0 /\ api.bk # Absent =>
         /\ api.vs # Absent
         /\ api.vs.owner = api.bk.uid
         /\ api.bk = Mirrored(api.bk, api.vs))

\* The safety half of it: a Backup that no pass is going to look at has its own
\* VolumeSnapshot and reports its state, once garbage is collected.
RestIsMirrored ==
  (/\ pass.pc = "Idle" /\ ~queued
   /\ cache.bk = api.bk /\ cache.vs = api.vs
   /\ api.bk # Absent
   /\ api.vs # Absent => Alive(api.vs.owner))
    => /\ api.vs # Absent
       /\ api.vs.owner = api.bk.uid
       /\ api.bk = Mirrored(api.bk, api.vs)

\* No VolumeSnapshot outlives its Backup, not even one that a pass working on
\* a stale Backup creates after the deletion.
SnapshotsCollected == <>[](api.bk = Absent => api.vs = Absent)
=============================================================================
