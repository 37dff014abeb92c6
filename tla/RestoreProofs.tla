---------------------------- MODULE RestoreProofs ----------------------------
(* Theorems about BackupController and Restore. *)
EXTENDS Restore, TLAPS

-----------------------------------------------------------------------------
(* The Backup reconciler *)

LEMMA NewBackupType == \A uid \in Nat : NewBackup(uid) \in Backup
  BY DEF NewBackup, Backup, Phases

LEMMA InitType == Init => TypeOK
<1>1. {0, 1} \subseteq Nat
  OBVIOUS
<1>2. {Absent, NewBackup(1)} \subseteq Backup \union {Absent}
  BY NewBackupType
<1>3. [gs : {0, 1}, bk : {Absent, NewBackup(1)}, vs : {Absent}] \subseteq Objects
  BY <1>1, <1>2 DEF Objects
<1> QED
  BY <1>3, BoundsAssumption DEF Init, TypeOK, Passes, Idle

\* A status update leaves a Backup where there was one.
LEMMA UpdateType ==
  ASSUME TypeOK, NEW bk \in Backup, UpdateStatus(bk)
  PROVE  api' \in Objects
  BY DEF TypeOK, Objects, UpdateStatus

LEMMA MirroredType ==
  ASSUME NEW bk \in Backup, NEW vs \in Snapshot
  PROVE  Mirrored(bk, vs) \in Backup
<1> DEFINE phase == CASE vs.state = "Ready" -> "Ready"
                      [] vs.state = "Error" -> "Failed"
                      [] OTHER -> "InProgress"
           ready == IF vs.state = "Ready" THEN "True" ELSE "False"
<1>1. phase \in Phases /\ ready \in {"Unknown", "True", "False"}
  BY DEF Snapshot, Phases
<1>2. Mirrored(bk, vs) = [bk EXCEPT !.name = TRUE, !.phase = phase, !.ready = ready]
  BY DEF Mirrored
<1> HIDE DEF phase, ready
<1> QED
  BY <1>1, <1>2 DEF Backup

\* A pass that works on a Backup has one in its hands.
LEMMA PassHoldsBackup ==
  ASSUME TypeOK, pass.pc # "Idle"
  PROVE  pass.bk \in Backup
  BY DEF TypeOK, Passes

LEMMA ReturnType ==
  ASSUME TypeOK, NEW requeue \in BOOLEAN, Return(requeue), api' \in Objects
  PROVE  TypeOK'
  BY DEF TypeOK, Return, Passes, Idle

LEMMA PassStepType ==
  ASSUME TypeOK, PassStep
  PROVE  TypeOK'
<1>1. CASE Reconcile
  BY <1>1 DEF Reconcile, TypeOK, Objects, Passes, Idle
<1>2. CASE GameServerMissing
  <2>1. Pending \in Backup
    BY <1>2, PassHoldsBackup DEF GameServerMissing, Pending, Backup, Phases
  <2>2. api' \in Objects
    BY <1>2, <2>1, UpdateType DEF GameServerMissing
  <2> QED
    BY <1>2, <2>2, ReturnType DEF GameServerMissing
<1>3. CASE GameServerFound
  BY <1>3 DEF GameServerFound, TypeOK, Passes
<1>4. CASE CreateSnapshot
  <2>1. pass.bk \in Backup
    BY <1>4, PassHoldsBackup DEF CreateSnapshot
  <2>2. BuildVolumeSnapshot \in Snapshot
    BY <2>1 DEF BuildVolumeSnapshot, Backup, Snapshot
  <2>3. CASE api.vs = Absent
    <3>1. api' \in Objects
      BY <1>4, <2>2, <2>3 DEF CreateSnapshot, TypeOK, Objects
    <3>2. pass' \in Passes
      BY <1>4, <2>1, <2>3 DEF CreateSnapshot, TypeOK, Passes
    <3> QED
      BY <1>4, <2>3, <3>1, <3>2 DEF CreateSnapshot, TypeOK
  <2>4. CASE api.vs # Absent
    <3>1. api' \in Objects
      BY <1>4, <2>4 DEF CreateSnapshot, TypeOK
    <3> QED
      BY <1>4, <2>4, <3>1, ReturnType DEF CreateSnapshot
  <2> QED
    BY <2>3, <2>4
<1>5. CASE ReportCreated
  <2>1. [pass.bk EXCEPT !.phase = "InProgress", !.name = TRUE] \in Backup
    BY <1>5, PassHoldsBackup DEF ReportCreated, Backup, Phases
  <2>2. api' \in Objects
    BY <1>5, <2>1, UpdateType DEF ReportCreated
  <2> QED
    BY <1>5, <2>2, ReturnType DEF ReportCreated
<1>6. CASE Mirror
  <2>1. cache.vs \in Snapshot
    BY <1>6 DEF Mirror, TypeOK, Objects
  <2>2. Mirrored(pass.bk, cache.vs) \in Backup
    BY <1>6, <2>1, PassHoldsBackup, MirroredType DEF Mirror
  <2>3. api' \in Objects
    BY <1>6, <2>2, UpdateType DEF Mirror
  <2>4. (~Unchanged \/ cache.vs.state = "Pending") \in BOOLEAN
    OBVIOUS
  <2> QED
    BY <1>6, <2>3, <2>4, ReturnType DEF Mirror
<1> QED
  BY <1>1, <1>2, <1>3, <1>4, <1>5, <1>6 DEF PassStep

LEMMA UserStepType ==
  ASSUME TypeOK, UserStep
  PROVE  TypeOK'
<1> USE BoundsAssumption
<1>1. edits' \in 0..MaxEdits /\ edits + 1 \in Nat
  BY DEF UserStep, CreateBackup, EditBackup, DeleteBackup, ToggleServer, DeleteSnapshot, Edit, TypeOK
<1>2. CASE CreateBackup
  <2>1. NewBackup(edits + 1) \in Backup
    BY <1>1, NewBackupType
  <2> QED
    BY <1>1, <1>2, <2>1 DEF CreateBackup, TypeOK, Objects
<1>3. CASE EditBackup
  <2>1. [api.bk EXCEPT !.gen = @ + 1] \in Backup
    BY <1>3 DEF EditBackup, TypeOK, Objects, Backup
  <2>2. api' = [api EXCEPT !.bk = [api.bk EXCEPT !.gen = @ + 1]]
    BY <1>3 DEF EditBackup, TypeOK, Objects
  <2> QED
    BY <1>1, <1>3, <2>1, <2>2 DEF EditBackup, TypeOK, Objects
<1>4. CASE DeleteBackup
  BY <1>1, <1>4 DEF DeleteBackup, TypeOK, Objects
<1>5. CASE ToggleServer
  BY <1>1, <1>5 DEF ToggleServer, TypeOK, Objects
<1>6. CASE DeleteSnapshot
  BY <1>1, <1>6 DEF DeleteSnapshot, TypeOK, Objects
<1> QED
  BY <1>2, <1>3, <1>4, <1>5, <1>6 DEF UserStep

LEMMA ClusterType ==
  ASSUME TypeOK, SnapshotReady \/ SnapshotFails \/ CollectSnapshot
  PROVE  TypeOK'
<1>1. CASE SnapshotReady
  <2>1. api' = [api EXCEPT !.vs = [api.vs EXCEPT !.state = "Ready"]]
    BY <1>1 DEF SnapshotReady, TypeOK, Objects
  <2>2. [api.vs EXCEPT !.state = "Ready"] \in Snapshot
    BY <1>1 DEF SnapshotReady, TypeOK, Objects, Snapshot
  <2> QED
    BY <1>1, <2>1, <2>2 DEF SnapshotReady, TypeOK, Objects
<1>2. CASE SnapshotFails
  <2>1. api' = [api EXCEPT !.vs = [api.vs EXCEPT !.state = "Error"]]
    BY <1>2 DEF SnapshotFails, TypeOK, Objects
  <2>2. [api.vs EXCEPT !.state = "Error"] \in Snapshot
    BY <1>2 DEF SnapshotFails, TypeOK, Objects, Snapshot
  <2>3. faults' \in 0..MaxFaults
    BY <1>2, BoundsAssumption DEF SnapshotFails, Fault, TypeOK
  <2> QED
    BY <1>2, <2>1, <2>2, <2>3 DEF SnapshotFails, TypeOK, Objects
<1>3. CASE CollectSnapshot
  BY <1>3 DEF CollectSnapshot, TypeOK, Objects
<1> QED
  BY <1>1, <1>2, <1>3

LEMMA ManagerType ==
  ASSUME TypeOK, SyncBackup \/ SyncSnapshot \/ SyncServer \/ CallFails \/ Restart
  PROVE  TypeOK'
<1>1. CASE SyncBackup \/ SyncSnapshot \/ SyncServer
  BY <1>1 DEF SyncBackup, SyncSnapshot, SyncServer, TypeOK, Objects
<1>2. CASE CallFails \/ Restart
  <2>1. faults' \in 0..MaxFaults
    BY <1>2, BoundsAssumption DEF CallFails, Restart, Fault, TypeOK
  <2>2. pass' = Idle /\ Idle \in Passes
    BY <1>2 DEF CallFails, Restart, Passes, Idle
  <2>3. api' \in Objects /\ cache' \in Objects /\ edits' \in 0..MaxEdits
    BY <1>2 DEF CallFails, Restart, TypeOK
  <2>4. queued' \in BOOLEAN
    BY <1>2 DEF CallFails, Restart
  <2> QED
    BY <2>1, <2>2, <2>3, <2>4 DEF TypeOK
<1> QED
  BY <1>1, <1>2

\* In every behaviour of the Backup reconciler, whatever the bounds, a pass past
\* its first Get holds a Backup and the store keeps its types.
THEOREM BackupTypeCorrect == Spec => []TypeOK
<1>1. TypeOK /\ [Next]_vars => TypeOK'
  <2> SUFFICES ASSUME TypeOK, [Next]_vars PROVE TypeOK'
    OBVIOUS
  <2>1. CASE UNCHANGED vars
    BY <2>1 DEF vars, TypeOK
  <2> QED
    BY <2>1, PassStepType, UserStepType, ClusterType, ManagerType DEF Next, BackupStep
<1> QED
  BY <1>1, InitType, PTL DEF Spec

-----------------------------------------------------------------------------
(* The composition *)

LEMMA RestoreInitType == RestoreInit => RestoreTypeOK
<1> SUFFICES ASSUME RestoreInit PROVE RestoreTypeOK
  OBVIOUS
<1>1. TypeOK
  BY InitType DEF RestoreInit
<1>2. api.gs # 0 => [owner |-> api.gs, source |-> "none"] \in Claim
  BY <1>1 DEF TypeOK, Objects, Claim, Sources
<1> QED
  BY <1>1, <1>2 DEF RestoreInit, RestoreTypeOK, NoPass, Sources

\* The GameServer's side leaves the Backup's alone, but for the count of faults.
LEMMA ServerSideType ==
  ASSUME RestoreTypeOK,
         ServerPassStep \/ SyncVolume \/ CollectVolume \/ ServerCallFails
  PROVE  RestoreTypeOK'
<1>1. TypeOK'
  <2>1. CASE UNCHANGED vars
    BY <2>1 DEF vars, TypeOK, RestoreTypeOK
  <2>2. CASE ServerCallFails
    BY <2>2, BoundsAssumption DEF ServerCallFails, Fault, TypeOK, RestoreTypeOK
  <2> QED
    BY <2>1, <2>2 DEF ServerPassStep, ReconcileServer, RestoreUnavailable,
      ResolveRestoreSource, ApplyPVC, End, SyncVolume, CollectVolume
<1>2. CASE ReconcileServer
  BY <1>1, <1>2 DEF ReconcileServer, RestoreTypeOK, TypeOK, Objects, NoPass, Sources
<1>3. CASE RestoreUnavailable
  BY <1>1, <1>3 DEF RestoreUnavailable, End, RestoreTypeOK, NoPass, Sources
<1>4. CASE ResolveRestoreSource
  BY <1>1, <1>4 DEF ResolveRestoreSource, RestoreTypeOK, Sources
<1>5. CASE ApplyPVC
  <2>1. [owner |-> serving.uid, source |-> serving.source] \in Claim
    BY DEF RestoreTypeOK, Claim
  <2>2. volume' \in [api : Claim \union {Absent}, cache : Claim \union {Absent}]
    BY <1>5, <2>1 DEF ApplyPVC, RestoreTypeOK
  <2>3. serving' = NoPass /\ waiting' \in BOOLEAN
    BY <1>5 DEF ApplyPVC, End
  <2> QED
    BY <1>1, <2>2, <2>3 DEF RestoreTypeOK, NoPass, Sources
<1>6. CASE SyncVolume \/ CollectVolume
  BY <1>1, <1>6 DEF SyncVolume, CollectVolume, RestoreTypeOK
<1>7. CASE ServerCallFails
  BY <1>1, <1>7 DEF ServerCallFails, RestoreTypeOK, NoPass, Sources
<1> QED
  BY <1>2, <1>3, <1>4, <1>5, <1>6, <1>7 DEF ServerPassStep

\* Both reconcilers in one manager, over one store and one set of caches: each
\* pass holds what it needs past its first Get, whatever the other deletes,
\* re-creates or takes back meanwhile.
THEOREM RestoreTypeCorrect == RestoreSpec => []RestoreTypeOK
<1>1. RestoreTypeOK /\ [RestoreNext]_all => RestoreTypeOK'
  <2> SUFFICES ASSUME RestoreTypeOK, [RestoreNext]_all PROVE RestoreTypeOK'
    OBVIOUS
  <2>1. TypeOK
    BY DEF RestoreTypeOK
  <2>2. CASE BackupStep /\ UNCHANGED server
    <3>1. TypeOK'
      BY <2>1, <2>2, PassStepType, UserStepType, ClusterType, ManagerType DEF BackupStep
    <3> QED
      BY <2>2, <3>1 DEF server, RestoreTypeOK
  <2>3. CASE SyncServerBoth \/ RestartBoth
    <3>1. TypeOK'
      BY <2>1, <2>3, ManagerType DEF SyncServerBoth, RestartBoth
    <3>2. CASE SyncServerBoth
      BY <3>1, <3>2 DEF SyncServerBoth, RestoreTypeOK
    <3>3. CASE RestartBoth
      BY <3>1, <3>3 DEF RestartBoth, RestoreTypeOK, NoPass, Sources
    <3> QED
      BY <2>3, <3>2, <3>3
  <2>4. CASE UNCHANGED all
    BY <2>4 DEF all, server, vars, RestoreTypeOK, TypeOK
  <2> QED
    BY <2>2, <2>3, <2>4, ServerSideType DEF RestoreNext
<1> QED
  BY <1>1, RestoreInitType, PTL DEF RestoreSpec

-----------------------------------------------------------------------------
(* No wake-up of the Backup reconciler is lost *)

\* The cached Backup is an earlier version of the stored one: no write brings
\* the stored one back to it.
BackupFresh ==
  /\ api.bk # Absent => api.bk.uid <= edits + 1
  /\ cache.bk # Absent =>
       /\ cache.bk.uid <= edits + 1
       /\ api.bk = Absent => cache.bk.uid <= edits
       /\ (api.bk # Absent /\ cache.bk.uid = api.bk.uid) => cache.bk.gen <= api.bk.gen

\* A pass that no event will repeat works on the cached Backup; between passes
\* it mirrors the cached snapshot, or its next version is on its way.
MirrorAwake ==
  ~queued =>
    /\ pass.pc # "Idle" => pass.bk = cache.bk
    /\ (pass.pc = "Idle" /\ cache.bk # Absent) =>
         \/ cache.bk # api.bk
         \/ cache.vs # Absent /\ cache.bk = Mirrored(cache.bk, cache.vs)

MirrorInv == BackupFresh /\ MirrorAwake

\* A status update leaves the uid and the generation.
LEMMA UpdateFresh ==
  ASSUME TypeOK, BackupFresh, NEW bk \in Backup, UpdateStatus(bk),
         bk.uid = pass.bk.uid, bk.gen = pass.bk.gen, pass.pc # "Idle",
         cache' = cache, edits' = edits
  PROVE  BackupFresh'
<1>1. bk # Absent /\ pass.bk # Absent
  BY PassHoldsBackup, AbsentAssumption
<1>2. CASE Unchanged
  <2>1. api'.bk = bk
    BY <1>2 DEF UpdateStatus, TypeOK, Objects
  <2> QED
    BY <1>1, <1>2, <2>1 DEF Unchanged, BackupFresh
<1>3. CASE ~Unchanged
  BY <1>3 DEF UpdateStatus, BackupFresh
<1> QED
  BY <1>2, <1>3

LEMMA MirroredSame ==
  ASSUME NEW bk \in Backup, NEW vs \in Snapshot
  PROVE  Mirrored(bk, vs).uid = bk.uid /\ Mirrored(bk, vs).gen = bk.gen
BY DEF Mirrored, Backup

\* Mirror asks for nothing more only when its update went through and the
\* snapshot is done; what is cached is then that version or an older one.
LEMMA MirrorKept == ASSUME TypeOK, MirrorInv, Mirror PROVE MirrorInv'
<1>1. /\ pass.bk \in Backup /\ cache.vs \in Snapshot /\ cache.vs # Absent
      /\ pass.pc # "Idle" /\ pass' = Idle /\ cache' = cache /\ edits' = edits
      /\ UpdateStatus(Mirrored(pass.bk, cache.vs))
  BY PassHoldsBackup DEF Mirror, Return, TypeOK, Objects
<1>2. Mirrored(pass.bk, cache.vs) \in Backup
  BY <1>1, MirroredType
<1>3. BackupFresh'
  BY <1>1, <1>2, MirroredSame, UpdateFresh DEF MirrorInv
<1>4. MirrorAwake'
  <2> SUFFICES ASSUME ~queued', cache.bk # Absent, cache.bk = api'.bk
               PROVE  cache.bk = Mirrored(cache.bk, cache.vs)
    BY <1>1 DEF MirrorAwake, Idle
  <2>1. ~queued /\ Unchanged
    BY DEF Mirror, Return
  <2>2. pass.bk = cache.bk
    BY <1>1, <2>1 DEF MirrorInv, MirrorAwake
  <2>3. api'.bk = Mirrored(pass.bk, cache.vs)
    BY <1>1, <2>1 DEF UpdateStatus, TypeOK, Objects
  <2> QED
    BY <2>2, <2>3
<1> QED
  BY <1>3, <1>4 DEF MirrorInv

LEMMA PassStepMirror == ASSUME TypeOK, MirrorInv, PassStep PROVE MirrorInv'
<1>1. CASE Reconcile
  <2>1. /\ UNCHANGED <<api, cache, edits>> /\ pass.pc = "Idle"
        /\ IF cache.bk = Absent THEN pass' = Idle
           ELSE pass'.pc = "FetchServer" /\ pass'.bk = cache.bk
    BY <1>1 DEF Reconcile
  <2> QED
    BY <2>1 DEF MirrorInv, BackupFresh, MirrorAwake, Idle
<1>2. CASE GameServerMissing
  <2>1. /\ pass.bk \in Backup /\ pass.pc # "Idle" /\ cache' = cache /\ edits' = edits
        /\ UpdateStatus(Pending) /\ queued'
    BY <1>2, PassHoldsBackup DEF GameServerMissing, Return
  <2>2. Pending \in Backup /\ Pending.uid = pass.bk.uid /\ Pending.gen = pass.bk.gen
    BY <2>1 DEF Pending, Backup, Phases
  <2>3. BackupFresh'
    BY <2>1, <2>2, UpdateFresh DEF MirrorInv
  <2> QED
    BY <2>1, <2>3 DEF MirrorInv, MirrorAwake
<1>3. CASE GameServerFound
  <2>1. /\ UNCHANGED <<api, cache, queued, edits>> /\ pass.pc # "Idle"
        /\ pass'.pc = "FetchSnapshot" /\ pass'.bk = pass.bk
    BY <1>3 DEF GameServerFound, TypeOK, Passes
  <2> QED
    BY <2>1 DEF MirrorInv, BackupFresh, MirrorAwake
<1>4. CASE CreateSnapshot
  <2>1. api'.bk = api.bk /\ cache' = cache /\ edits' = edits /\ pass.pc # "Idle"
    BY <1>4 DEF CreateSnapshot, Return, TypeOK, Objects
  <2>2. BackupFresh'
    BY <2>1 DEF MirrorInv, BackupFresh
  <2>3. queued' \/ (queued' = queued /\ pass'.pc = "Created" /\ pass'.bk = pass.bk)
    BY <1>4 DEF CreateSnapshot, Return, TypeOK, Passes
  <2> QED
    BY <2>1, <2>2, <2>3 DEF MirrorInv, MirrorAwake
<1>5. CASE ReportCreated
  <2> DEFINE bk == [pass.bk EXCEPT !.phase = "InProgress", !.name = TRUE]
  <2>1. /\ pass.bk \in Backup /\ pass.pc # "Idle" /\ cache' = cache /\ edits' = edits
        /\ UpdateStatus(bk) /\ queued'
    BY <1>5, PassHoldsBackup DEF ReportCreated, Return
  <2>2. bk \in Backup /\ bk.uid = pass.bk.uid /\ bk.gen = pass.bk.gen
    BY <2>1 DEF Backup, Phases
  <2>3. BackupFresh'
    BY <2>1, <2>2, UpdateFresh DEF MirrorInv
  <2> QED
    BY <2>1, <2>3 DEF MirrorInv, MirrorAwake
<1> QED
  BY <1>1, <1>2, <1>3, <1>4, <1>5, MirrorKept DEF PassStep

\* What users do to a Backup makes it differ from the cached version.
LEMMA UserStepMirror == ASSUME TypeOK, MirrorInv, UserStep PROVE MirrorInv'
<1>1. /\ UNCHANGED <<cache, pass, queued>> /\ edits' = edits + 1 /\ edits \in Nat
      /\ api \in Objects /\ cache \in Objects
  BY DEF UserStep, CreateBackup, EditBackup, DeleteBackup, ToggleServer, DeleteSnapshot,
     Edit, TypeOK
<1>2. /\ api.bk # Absent => api.bk \in Backup
      /\ cache.bk # Absent => cache.bk \in Backup /\ cache.bk.uid \in Nat /\ cache.bk.gen \in Nat
  BY <1>1 DEF Objects, Backup
<1>3. BackupFresh' /\ (api'.bk = api.bk \/ cache.bk = Absent \/ cache.bk # api'.bk)
  <2>1. CASE CreateBackup
    <3>1. api.bk = Absent /\ api'.bk = NewBackup(edits + 1)
      BY <1>1, <2>1 DEF CreateBackup, Objects
    <3>2. \A n : NewBackup(n).uid = n
      BY DEF NewBackup
    <3>3. api'.bk.uid = edits + 1
      BY <3>1, <3>2
    <3> QED
      BY <1>1, <1>2, <3>1, <3>3 DEF MirrorInv, BackupFresh
  <2>2. CASE EditBackup
    <3> DEFINE gen == api.bk.gen + 1
               new == [api.bk EXCEPT !.gen = gen]
    <3>1. api.bk \in Backup /\ api.bk # Absent /\ api.bk.gen \in Nat /\ api.bk.uid \in Nat
      BY <1>2, <2>2 DEF EditBackup, Backup
    <3>2. new \in Backup /\ new.uid = api.bk.uid /\ new.gen = gen
      BY <3>1 DEF Backup
    <3>3. api'.bk = new
      BY <1>1, <2>2 DEF EditBackup, Objects
    <3> HIDE DEF new
    <3> QED
      BY <1>1, <1>2, <3>1, <3>2, <3>3, AbsentAssumption DEF MirrorInv, BackupFresh
  <2>3. CASE DeleteBackup
    <3>1. api.bk # Absent /\ api'.bk = Absent
      BY <1>1, <2>3 DEF DeleteBackup, Objects
    <3> QED
      BY <1>1, <1>2, <3>1 DEF MirrorInv, BackupFresh
  <2>4. CASE ToggleServer \/ DeleteSnapshot
    <3>1. api'.bk = api.bk
      BY <1>1, <2>4 DEF ToggleServer, DeleteSnapshot, Objects
    <3>2. api.bk # Absent => api.bk.uid \in Nat
      BY <1>2 DEF Backup
    <3> QED
      BY <1>1, <1>2, <3>1, <3>2 DEF MirrorInv, BackupFresh
  <2> QED
    BY <2>1, <2>2, <2>3, <2>4 DEF UserStep
<1> QED
  BY <1>1, <1>3 DEF MirrorInv, MirrorAwake

LEMMA OthersMirror ==
  ASSUME TypeOK, MirrorInv,
         \/ SyncBackup \/ SyncSnapshot \/ SyncServer \/ CallFails \/ Restart
         \/ SnapshotReady \/ SnapshotFails \/ CollectSnapshot
         \/ UNCHANGED <<api, cache, pass, queued, edits>>
  PROVE  MirrorInv'
<1>1. /\ api \in Objects /\ cache \in Objects
      /\ api.bk # Absent => api.bk \in Backup
  BY DEF TypeOK, Objects
<1>2. CASE SyncBackup \/ SyncSnapshot \/ CallFails \/ Restart
  <2>1. queued' /\ api' = api /\ edits' = edits /\ cache'.bk \in {cache.bk, api.bk}
    <3>1. CASE SyncBackup \/ SyncSnapshot
      BY <1>1, <3>1 DEF SyncBackup, SyncSnapshot, Objects
    <3>2. CASE CallFails \/ Restart
      BY <3>2 DEF CallFails, Restart
    <3> QED
      BY <1>2, <3>1, <3>2
  <2>2. BackupFresh'
    <3>1. CASE cache'.bk = cache.bk
      BY <2>1, <3>1 DEF MirrorInv, BackupFresh
    <3>2. CASE cache'.bk = api.bk
      BY <1>1, <2>1, <3>2 DEF MirrorInv, BackupFresh, Backup
    <3> QED
      BY <2>1, <3>1, <3>2
  <2> QED
    BY <2>1, <2>2 DEF MirrorInv, MirrorAwake
<1>3. CASE \/ SyncServer \/ SnapshotReady \/ SnapshotFails \/ CollectSnapshot
           \/ UNCHANGED <<api, cache, pass, queued, edits>>
  <2>1. /\ UNCHANGED <<pass, queued, edits>>
        /\ api'.bk = api.bk /\ cache'.bk = cache.bk /\ cache'.vs = cache.vs
    <3>1. CASE SyncServer \/ CollectSnapshot \/ UNCHANGED <<api, cache, pass, queued, edits>>
      BY <1>1, <3>1 DEF SyncServer, CollectSnapshot, Objects
    <3>2. CASE SnapshotReady
      BY <1>1, <3>2 DEF SnapshotReady, Objects
    <3>3. CASE SnapshotFails
      BY <1>1, <3>3 DEF SnapshotFails, Objects
    <3> QED
      BY <1>3, <3>1, <3>2, <3>3
  <2> QED
    BY <2>1 DEF MirrorInv, BackupFresh, MirrorAwake
<1> QED
  BY <1>2, <1>3

LEMMA MirrorInit == Init => MirrorInv
<1> SUFFICES ASSUME Init PROVE MirrorInv
  OBVIOUS
<1>1. /\ api.bk \in {Absent, NewBackup(1)} /\ cache = api /\ edits = 0
      /\ pass.pc = "Idle" /\ queued = (api.bk # Absent)
  BY DEF Init, Idle
<1>2. CASE api.bk = Absent
  BY <1>1, <1>2 DEF MirrorInv, BackupFresh, MirrorAwake
<1>3. CASE api.bk = NewBackup(1)
  <2>1. NewBackup(1) \in Backup /\ NewBackup(1).uid = 1 /\ NewBackup(1).gen = 1
    BY NewBackupType DEF NewBackup
  <2>2. cache.bk.uid = 1 /\ api.bk.uid = 1 /\ cache.bk.gen = 1 /\ api.bk.gen = 1
        /\ api.bk # Absent /\ queued
    BY <1>1, <1>3, <2>1, AbsentAssumption
  <2> QED
    BY <1>1, <2>2 DEF MirrorInv, BackupFresh, MirrorAwake
<1> QED
  BY <1>1, <1>2, <1>3

\* No wake-up is lost between the Backup, its snapshot, the two caches and the
\* pass, whatever is edited, re-created or refused meanwhile.
THEOREM MirrorInvariant == Spec => []MirrorInv
<1>1. TypeOK /\ MirrorInv /\ [Next]_vars => MirrorInv'
  BY PassStepMirror, UserStepMirror, OthersMirror DEF Next, BackupStep, vars
<1> QED
  BY <1>1, MirrorInit, BackupTypeCorrect, PTL DEF Spec

LEMMA AwakeIsMirrored == MirrorInv => RestIsMirrored
BY DEF MirrorInv, MirrorAwake, RestIsMirrored, Alive

\* A Backup that no pass is going to look at again has a VolumeSnapshot of its
\* own and reports what has become of it.
THEOREM MirroredAtRest == Spec => []RestIsMirrored
BY MirrorInvariant, AwakeIsMirrored, PTL

-----------------------------------------------------------------------------
(* No wake-up of the GameServer reconciler is lost *)

ServerFresh ==
  /\ api.gs <= edits + 1
  /\ cache.gs <= edits + 1
  /\ api.gs = 0 => cache.gs <= edits

\* A pass that no event will repeat works for the cached GameServer; between
\* passes that one is on its way out, or its volume is cached, or the volume just
\* made for it is still to be heard of, which the collector leaves alone.
RestoreAwake ==
  (~waiting /\ cache.gs # 0) =>
    /\ serving.pc # "Idle" => serving.uid = cache.gs
    /\ serving.pc = "Idle" =>
         \/ cache.gs # api.gs
         \/ volume.cache # Absent
         \/ volume.api # Absent /\ volume.api.owner = cache.gs

RestoreInv == MirrorInv /\ ServerFresh /\ RestoreAwake

LEMMA RestoreInitInv == RestoreInit => RestoreInv
<1> SUFFICES ASSUME RestoreInit PROVE RestoreInv
  OBVIOUS
<1>1. MirrorInv
  BY MirrorInit DEF RestoreInit
<1>2. /\ api.gs \in {0, 1} /\ cache.gs = api.gs /\ edits = 0
      /\ api.gs # 0 => waiting
  BY DEF RestoreInit, Init
<1>3. ServerFresh
  BY <1>2 DEF ServerFresh
<1>4. RestoreAwake
  BY <1>2 DEF RestoreAwake
<1> QED
  BY <1>1, <1>3, <1>4 DEF RestoreInv

\* What the Backup's side does to the GameServer: users re-create it, under a
\* uid no cache has seen.
LEMMA BackupStepServer ==
  ASSUME TypeOK, ServerFresh, RestoreAwake, BackupStep, UNCHANGED server
  PROVE  ServerFresh' /\ RestoreAwake'
<1>1. /\ api \in Objects /\ cache \in Objects /\ edits \in Nat
      /\ api.gs \in Nat /\ cache.gs \in Nat
  BY DEF TypeOK, Objects
<1>2. cache'.gs = cache.gs
  BY <1>1 DEF BackupStep, PassStep, Reconcile, GameServerMissing, GameServerFound,
     CreateSnapshot, ReportCreated, Mirror, Return, SyncBackup, SyncSnapshot,
     SnapshotReady, SnapshotFails, CollectSnapshot, UserStep, CreateBackup, EditBackup,
     DeleteBackup, ToggleServer, DeleteSnapshot, CallFails, Objects
<1>3. CASE ToggleServer
  <2>1. api'.gs = (IF api.gs = 0 THEN edits + 1 ELSE 0) /\ edits' = edits + 1
    BY <1>1, <1>3 DEF ToggleServer, Edit, Objects
  <2>2. ServerFresh'
    BY <1>1, <1>2, <2>1 DEF ServerFresh
  <2>3. cache.gs = 0 \/ cache'.gs # api'.gs
    BY <1>1, <1>2, <2>1 DEF ServerFresh
  <2> QED
    BY <1>2, <2>2, <2>3 DEF RestoreAwake, server
<1>4. CASE ~ToggleServer
  <2>1. api'.gs = api.gs
    <3>1. CASE PassStep
      BY <1>1, <3>1 DEF PassStep, Reconcile, GameServerMissing, GameServerFound,
         CreateSnapshot, ReportCreated, Mirror, Return, UpdateStatus, Objects
    <3>2. CASE SyncBackup \/ SyncSnapshot \/ CallFails
      BY <3>2 DEF SyncBackup, SyncSnapshot, CallFails
    <3>3. CASE SnapshotReady
      BY <1>1, <3>3 DEF SnapshotReady, Objects
    <3>4. CASE SnapshotFails
      BY <1>1, <3>4 DEF SnapshotFails, Objects
    <3>5. CASE CollectSnapshot
      BY <1>1, <3>5 DEF CollectSnapshot, Objects
    <3>6. CASE UserStep
      BY <1>1, <1>4, <3>6 DEF UserStep, CreateBackup, EditBackup, DeleteBackup,
         DeleteSnapshot, Objects
    <3> QED
      BY <3>1, <3>2, <3>3, <3>4, <3>5, <3>6 DEF BackupStep
  <2>2. edits' = edits \/ edits' = edits + 1
    BY DEF BackupStep, PassStep, Reconcile, GameServerMissing, GameServerFound,
       CreateSnapshot, ReportCreated, Mirror, Return, SyncBackup, SyncSnapshot,
       SnapshotReady, SnapshotFails, CollectSnapshot, UserStep, CreateBackup, EditBackup,
       DeleteBackup, ToggleServer, DeleteSnapshot, CallFails, Edit
  <2>3. ServerFresh'
    BY <1>1, <1>2, <2>1, <2>2 DEF ServerFresh
  <2> QED
    BY <1>2, <2>1, <2>3 DEF RestoreAwake, server
<1> QED
  BY <1>3, <1>4

LEMMA ServerSideServer ==
  ASSUME RestoreTypeOK, ServerFresh, RestoreAwake,
         ServerPassStep \/ SyncVolume \/ CollectVolume \/ ServerCallFails
  PROVE  ServerFresh' /\ RestoreAwake'
<1>1. UNCHANGED <<api, cache, edits>>
  BY DEF ServerPassStep, ReconcileServer, RestoreUnavailable, ResolveRestoreSource,
     ApplyPVC, End, SyncVolume, CollectVolume, ServerCallFails, vars
<1>2. ServerFresh'
  BY <1>1 DEF ServerFresh
<1>3. /\ volume \in [api : Claim \union {Absent}, cache : Claim \union {Absent}]
      /\ serving \in [pc : {"Idle", "ResolveRestoreSource", "ApplyPVC"}, uid : Nat,
                      source : Sources]
      /\ Absent \notin Claim
  BY ClaimAssumption DEF RestoreTypeOK
<1>4. CASE RestoreUnavailable \/ SyncVolume \/ ServerCallFails
  <2>1. waiting'
    BY <1>4 DEF RestoreUnavailable, End, SyncVolume, ServerCallFails
  <2> QED
    BY <1>2, <2>1 DEF RestoreAwake
<1>5. CASE ReconcileServer
  <2>1. CASE cache.gs = 0
    BY <1>1, <1>2, <2>1 DEF RestoreAwake
  <2>2. CASE cache.gs # 0
    <3>1. serving'.pc = "ResolveRestoreSource" /\ serving'.uid = cache.gs
      BY <1>5, <2>2 DEF ReconcileServer, NoPass
    <3> QED
      BY <1>1, <1>2, <3>1 DEF RestoreAwake
  <2> QED
    BY <2>1, <2>2
<1>6. CASE ResolveRestoreSource
  <2>1. /\ serving'.pc = "ApplyPVC" /\ serving'.uid = serving.uid /\ waiting' = waiting
        /\ serving.pc # "Idle"
    BY <1>3, <1>6 DEF ResolveRestoreSource
  <2> QED
    BY <1>1, <1>2, <2>1 DEF RestoreAwake
<1>7. CASE ApplyPVC
  <2> SUFFICES ASSUME ~waiting', cache.gs # 0
               PROVE  volume'.cache # Absent
                        \/ (volume'.api # Absent /\ volume'.api.owner = cache.gs)
    BY <1>1, <1>2, <1>7 DEF RestoreAwake, ApplyPVC, End, NoPass
  <2>1. ~waiting /\ ~(volume.cache = Absent /\ volume.api # Absent)
    BY <1>7 DEF ApplyPVC, End
  <2>2. serving.uid = cache.gs
    BY <1>7, <2>1 DEF RestoreAwake, ApplyPVC
  <2>3. CASE volume.cache # Absent
    BY <1>7, <2>3 DEF ApplyPVC
  <2>4. CASE volume.cache = Absent /\ volume.api = Absent
    <3> DEFINE claim == [owner |-> serving.uid, source |-> serving.source]
    <3>1. claim \in Claim /\ claim.owner = cache.gs
      BY <1>3, <2>2 DEF Claim
    <3>2. volume' = [volume EXCEPT !.api = claim]
      BY <1>7, <2>4 DEF ApplyPVC
    <3> HIDE DEF claim
    <3> QED
      BY <1>3, <3>1, <3>2
  <2> QED
    BY <2>1, <2>3, <2>4
<1>8. CASE CollectVolume
  <2>1. /\ volume'.cache = volume.cache /\ volume.api.owner # api.gs
        /\ UNCHANGED <<serving, waiting>>
    BY <1>3, <1>8 DEF CollectVolume
  <2> QED
    BY <1>1, <1>2, <2>1 DEF RestoreAwake
<1> QED
  BY <1>4, <1>5, <1>6, <1>7, <1>8 DEF ServerPassStep

\* With both reconcilers at work, no wake-up of either is lost.
THEOREM RestoreInvariant == RestoreSpec => []RestoreInv
<1>1. RestoreTypeOK /\ RestoreInv /\ [RestoreNext]_all => RestoreInv'
  <2> SUFFICES ASSUME RestoreTypeOK, RestoreInv, [RestoreNext]_all PROVE RestoreInv'
    OBVIOUS
  <2>1. TypeOK /\ MirrorInv /\ ServerFresh /\ RestoreAwake
    BY DEF RestoreTypeOK, RestoreInv
  <2>2. CASE BackupStep /\ UNCHANGED server
    <3>1. MirrorInv'
      BY <2>1, <2>2, PassStepMirror, UserStepMirror, OthersMirror DEF BackupStep
    <3> QED
      BY <2>1, <2>2, <3>1, BackupStepServer DEF RestoreInv
  <2>3. CASE ServerPassStep \/ SyncVolume \/ CollectVolume \/ ServerCallFails
    <3>1. UNCHANGED <<api, cache, pass, queued, edits>>
      BY <2>3 DEF ServerPassStep, ReconcileServer, RestoreUnavailable, ResolveRestoreSource,
         ApplyPVC, End, SyncVolume, CollectVolume, ServerCallFails, vars
    <3>2. MirrorInv'
      BY <2>1, <3>1, OthersMirror
    <3> QED
      BY <2>1, <2>3, <3>2, ServerSideServer DEF RestoreInv
  <2>4. CASE SyncServerBoth \/ RestartBoth
    <3>1. MirrorInv'
      BY <2>1, <2>4, OthersMirror DEF SyncServerBoth, RestartBoth
    <3>2. /\ waiting' /\ api' = api /\ edits' = edits
          /\ cache'.gs = api.gs
      BY <2>1, <2>4 DEF SyncServerBoth, SyncServer, RestartBoth, Restart, TypeOK, Objects
    <3>3. ServerFresh'
      BY <2>1, <3>2 DEF ServerFresh, TypeOK, Objects
    <3> QED
      BY <3>1, <3>2, <3>3 DEF RestoreInv, RestoreAwake
  <2>5. CASE UNCHANGED all
    <3>1. MirrorInv'
      BY <2>1, <2>5, OthersMirror DEF all, vars
    <3> QED
      BY <2>1, <2>5, <3>1 DEF RestoreInv, ServerFresh, RestoreAwake, all, vars, server
  <2> QED
    BY <2>2, <2>3, <2>4, <2>5 DEF RestoreNext
<1> QED
  BY <1>1, RestoreInitInv, RestoreTypeCorrect, PTL DEF RestoreSpec

\* A GameServer that no pass is going to look at again, restored in place or not,
\* has a volume of its own: its pass did not give up waiting for a Backup that in
\* turn waited for the GameServer.
THEOREM RestoredAtRest == RestoreSpec => []RestIsRestored
<1>1. RestoreTypeOK /\ RestoreInv => RestIsRestored
  BY DEF RestoreInv, RestoreAwake, RestIsRestored
<1> QED
  BY <1>1, RestoreTypeCorrect, RestoreInvariant, PTL

\* And the Backup's side is at rest only with a snapshot mirrored, whatever the
\* GameServer reconciler and its restarts do beside it.
THEOREM MirroredBesideRestore == RestoreSpec => []RestIsMirrored
BY RestoreInvariant, AwakeIsMirrored, PTL DEF RestoreInv
=============================================================================
