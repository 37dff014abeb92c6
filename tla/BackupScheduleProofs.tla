------------------------ MODULE BackupScheduleProofs ------------------------
(* Theorems about the BackupSchedule reconciler, for every cron expression,  *)
(* window, set of specs and bound on time, edits and faults.               *)
EXTENDS BackupSchedule, TLAPS

(* Time *)

LEMMA Numbers ==
  /\ MaxTime \in Nat /\ Window \in Nat /\ 1 <= Window /\ Window <= MaxTime
  /\ \A f \in FireTimes : f \in Nat /\ 1 <= f
  /\ \A f \in Fires : f \in Nat /\ 1 <= f /\ f <= MaxTime /\ f \in FireTimes
  /\ \A f \in FireTimes : f <= MaxTime => f \in Fires
<1>1. MaxTime \in Nat /\ Window \in 1..MaxTime
  BY TimeAssumption
<1>2. \A f \in FireTimes : f \in Nat /\ f # 0
  BY TimeAssumption
<1> QED
  BY <1>1, <1>2 DEF Fires

LEMMA NextFireIsNext ==
  ASSUME NEW t \in 0..MaxTime
  PROVE  /\ NextFire(t) \in FireTimes
         /\ t < NextFire(t)
         /\ \A g \in FireTimes : t < g => NextFire(t) <= g
BY TimeAssumption DEF NextFire

LEMMA ReferenceType ==
  ASSUME NEW t \in Window..MaxTime, NEW last \in 0..MaxTime
  PROVE  /\ Reference(t, last) \in 0..MaxTime
         /\ last <= Reference(t, last)
         /\ t - Window <= Reference(t, last)
         /\ Reference(t, last) = last \/ Reference(t, last) = t - Window
BY Numbers DEF Reference, Max2

LEMMA TodosType ==
  ASSUME NEW F \in SUBSET Fires, NEW todo \in [F -> 0..MaxTime]
  PROVE  todo \in Todos
BY DEF Todos

LEMMA IdleType == Idle \in Passes /\ Idle.pc = "Idle" /\ Nothing \in Todos
<1>1. {} \in SUBSET Fires
  OBVIOUS
<1>2. Nothing \in [{} -> 0..MaxTime]
  BY DEF Nothing
<1>3. Nothing \in Todos
  BY <1>1, <1>2, TodosType
<1> QED
  BY <1>3, Numbers DEF Idle, Passes

(* What a pass returns *)

LEMMA RequeueAfterType ==
  ASSUME TypeOK, NEW d \in Nat, RequeueAfter(d)
  PROVE  pass' = Idle /\ timer' \in Nat /\ queued' \in BOOLEAN
BY TimeAssumption DEF RequeueAfter, Min2, TypeOK

LEMMA PassSpec ==
  ASSUME TypeOK, pass.pc # "Idle"
  PROVE  /\ pass.read \in Schedule
         /\ pass.read.spec \in ScheduleSpecs
         /\ pass.now \in Window..now
         /\ now \in Window..MaxTime
         /\ pass.last \in Fires \union {0}
         /\ pass.read.last \in Fires \union {0}
BY DEF TypeOK, Passes, Schedule

(* Type correctness *)

LEMMA FireType ==
  ASSUME TypeOK, pass.pc # "Idle"
  PROVE  /\ Fire \in FireTimes
         /\ pass.read.last < Fire
         /\ pass.now - Window < Fire
         /\ \A g \in FireTimes : g < Fire =>
              g <= pass.read.last \/ g <= pass.now - Window
         /\ Fire <= pass.now => Fire \in Fires
<1> DEFINE ref == Reference(pass.now, pass.read.last)
<1>1. pass.now \in Window..MaxTime /\ pass.read.last \in 0..MaxTime
  <2>1. pass.now \in Window..now /\ now \in Window..MaxTime /\ pass.read.last \in Fires \union {0}
    BY PassSpec
  <2> QED
    BY <2>1, Numbers
<1>2. /\ ref \in 0..MaxTime
      /\ pass.read.last <= ref
      /\ pass.now - Window <= ref
      /\ ref = pass.read.last \/ ref = pass.now - Window
  BY <1>1, ReferenceType
<1> HIDE DEF ref
<1>3. /\ NextFire(ref) \in FireTimes
      /\ ref < NextFire(ref)
      /\ \A g \in FireTimes : ref < g => NextFire(ref) <= g
  BY <1>2, NextFireIsNext
<1>4. Fire = NextFire(ref)
  BY DEF Fire, ref
<1>5. pass.now - Window \in Int /\ pass.now <= MaxTime
  BY <1>1, Numbers
<1>6. /\ Fire \in FireTimes
      /\ pass.read.last < Fire
      /\ pass.now - Window < Fire
      /\ Fire <= pass.now => Fire \in Fires
  BY <1>1, <1>2, <1>3, <1>4, <1>5, Numbers
<1>7. ASSUME NEW g \in FireTimes, g < Fire
      PROVE  g <= pass.read.last \/ g <= pass.now - Window
  <2>1. g <= ref
    BY <1>2, <1>3, <1>4, <1>6, <1>7, Numbers
  <2> QED
    BY <1>2, <2>1
<1> QED
  BY <1>6, <1>7

LEMMA CreateBackupType ==
  ASSUME TypeOK, Fire \in Fires, CreateBackup
  PROVE  api' \in Objects /\ made' \in [Fires -> 0..MaxTime] /\ tied' \in BOOLEAN
<1>1. NewBackup \in Backup /\ now \in 0..MaxTime
  BY Numbers DEF TypeOK, NewBackup, Backup
<1> QED
  BY <1>1 DEF TypeOK, CreateBackup, Objects, Backups

LEMMA ScheduleUpdateType ==
  ASSUME TypeOK, NEW bs \in Schedule, api' = [api EXCEPT !.bs = bs]
  PROVE  api' \in Objects
BY DEF TypeOK, Objects

LEMMA PassStepType == TypeOK /\ PassStep => TypeOK'
<1> SUFFICES ASSUME TypeOK, PassStep PROVE TypeOK'
  OBVIOUS
<1> USE DEF TypeOK
<1>t. now \in 0..MaxTime
  BY Numbers
<1>1. CASE Begin
  <2>1. CASE cache.bs = Absent
    BY <1>1, <2>1, IdleType DEF Begin, history
  <2>2. CASE cache.bs # Absent
    <3>1. cache.bs \in Schedule
      BY <2>2 DEF Objects
    <3>2. pass' = [pc |-> "Spawn", now |-> now, read |-> cache.bs,
                   last |-> cache.bs.last, todo |-> Nothing]
      BY <1>1, <2>2 DEF Begin, Idle
    <3>3. Nothing \in Todos
      BY IdleType
    <3>4. now \in Window..now
      BY Numbers
    <3>5. pass' \in Passes
      BY <1>t, <3>1, <3>2, <3>3 DEF Passes, Schedule
    <3>6. pass'.read \in Schedule /\ pass'.now \in Window..now
      BY <3>1, <3>2, <3>4
    <3> QED
      BY <1>1, <3>5, <3>6 DEF Begin, history
  <2> QED
    BY <2>1, <2>2
<1>2. CASE InvalidSchedule
  <2>1. CASE Unchanged
    <3>1. [api.bs EXCEPT !.parsed = "False"] \in Schedule
      BY <1>2, <2>1, PassSpec DEF InvalidSchedule, Unchanged, Schedule
    <3>2. api' \in Objects
      BY <1>2, <2>1, <3>1, ScheduleUpdateType DEF InvalidSchedule
    <3> QED
      BY <1>2, <2>1, <3>2, RequeueAfterType, IdleType DEF InvalidSchedule, history
  <2>2. CASE ~Unchanged
    BY <1>2, <2>2, IdleType DEF InvalidSchedule, Retry, history
  <2> QED
    BY <2>1, <2>2
<1>3. CASE Spawn
  <2>1. Fire \in Fires
    BY <1>3, FireType DEF Spawn, Due
  <2>2. pass' \in Passes /\ pass'.pc = "List" /\ pass'.read = pass.read /\ pass'.now = pass.now
    BY <1>3, <2>1 DEF Spawn, Passes
  <2> QED
    BY <1>3, <2>1, <2>2, CreateBackupType DEF Spawn
<1>4. CASE NotDue
  <2>1. pass' \in Passes /\ pass'.pc = "List" /\ pass'.read = pass.read /\ pass'.now = pass.now
    BY <1>4 DEF NotDue, Passes
  <2> QED
    BY <1>4, <2>1 DEF NotDue, history
<1>5. CASE ListExcess
  <2>1. PICK kept \in SUBSET Candidates(cache.backups) :
          pass' = [pass EXCEPT !.pc = "Retain",
                     !.todo = [f \in Candidates(cache.backups) \ kept |->
                                 cache.backups[f].created]]
    BY <1>5 DEF ListExcess, Excess
  <2> DEFINE F == Candidates(cache.backups) \ kept
             todo == [f \in F |-> cache.backups[f].created]
  <2>2. F \in SUBSET Fires
    BY DEF Candidates
  <2>3. \A f \in F : cache.backups[f].created \in 0..MaxTime
    BY DEF Candidates, Objects, Backups, Backup
  <2>4. todo \in [F -> 0..MaxTime]
    BY <2>3
  <2>5. todo \in Todos
    BY <2>2, <2>4, TodosType
  <2> HIDE DEF todo
  <2>6. pass' \in Passes /\ pass'.pc = "Retain" /\ pass'.read = pass.read /\ pass'.now = pass.now
    BY <1>5, <2>1, <2>5 DEF Passes, todo
  <2> QED
    BY <1>5, <2>6 DEF ListExcess, history
<1>6. CASE DeleteExcess
  <2>1. PICK f \in DOMAIN pass.todo :
          /\ api' = [api EXCEPT !.backups[f] = Absent]
          /\ pass' = [pass EXCEPT !.todo = [g \in DOMAIN @ \ {f} |-> @[g]]]
    BY <1>6 DEF DeleteExcess
  <2>2. PICK F \in SUBSET Fires : pass.todo \in [F -> 0..MaxTime]
    BY DEF Passes, Todos
  <2> DEFINE todo == [g \in DOMAIN pass.todo \ {f} |-> pass.todo[g]]
  <2>3. todo \in [F \ {f} -> 0..MaxTime] /\ F \ {f} \in SUBSET Fires /\ f \in Fires
    BY <2>2
  <2>4. todo \in Todos
    BY <2>3, TodosType
  <2>5. pass' = [pass EXCEPT !.todo = todo]
    BY <2>1
  <2> HIDE DEF todo
  <2>6. pass' \in Passes /\ pass'.pc = pass.pc /\ pass'.read = pass.read /\ pass'.now = pass.now
    BY <2>4, <2>5 DEF Passes
  <2>7. api' \in Objects
    BY <2>1, <2>3 DEF Objects, Backups
  <2> QED
    BY <1>6, <2>6, <2>7 DEF DeleteExcess, history
<1>7. CASE RefreshStatus
  <2>1. CASE Unchanged
    <3> DEFINE d == Max2(NextFire(pass.now) - now, 1)
    <3>1. NextFire(pass.now) \in Nat
      BY <1>7, PassSpec, NextFireIsNext, TimeAssumption DEF RefreshStatus
    <3>2. d \in Nat
      BY <1>t, <3>1 DEF Max2
    <3>3. [spec |-> api.bs.spec, last |-> pass.last, active |-> ActiveBackups,
           parsed |-> "True"] \in Schedule
      BY <1>7, <2>1, PassSpec DEF RefreshStatus, Unchanged, Schedule, ActiveBackups, InProgress
    <3>4. api' \in Objects
      BY <1>7, <2>1, <3>3, ScheduleUpdateType DEF RefreshStatus
    <3> HIDE DEF d
    <3>5. RequeueAfter(d)
      BY <1>7, <2>1 DEF RefreshStatus, d
    <3> QED
      BY <1>7, <3>2, <3>4, <3>5, RequeueAfterType, IdleType DEF RefreshStatus, history
  <2>2. CASE ~Unchanged
    BY <1>7, <2>2, IdleType DEF RefreshStatus, Retry, history
  <2> QED
    BY <2>1, <2>2
<1> QED
  BY <1>1, <1>2, <1>3, <1>4, <1>5, <1>6, <1>7 DEF PassStep

LEMMA ClockStepType ==
  TypeOK /\ (Tick \/ TimerFires \/ SyncSchedule \/ SyncBackups) => TypeOK'
<1> SUFFICES ASSUME TypeOK, Tick \/ TimerFires \/ SyncSchedule \/ SyncBackups
             PROVE  TypeOK'
  OBVIOUS
<1>1. now \in Window..MaxTime /\ MaxTime \in Nat /\ Window \in Nat
  BY Numbers DEF TypeOK
<1>2. CASE Tick
  <2>1. now' \in Window..MaxTime /\ \A t \in Window..now : t \in Window..now'
    BY <1>1, <1>2 DEF Tick
  <2> QED
    BY <1>2, <2>1 DEF Tick, TypeOK, history
<1>3. CASE TimerFires
  BY <1>1, <1>3 DEF TimerFires, TypeOK, Never, history
<1>4. CASE SyncSchedule \/ SyncBackups
  BY <1>4 DEF SyncSchedule, SyncBackups, TypeOK, Objects, history
<1> QED
  BY <1>2, <1>3, <1>4

LEMMA ProgressType == ASSUME TypeOK, NEW f \in Fires, Progress(f) PROVE TypeOK'
<1>1. PICK p \in Phases : api' = [api EXCEPT !.backups[f].phase = p]
  BY DEF Progress
<1>2. p \in {"InProgress", "Ready", "Failed"}
  BY LimitsAssumption
<1>3. api.backups[f] \in Backup
  BY DEF Progress, TypeOK, Objects, Backups
<1>4. [api.backups[f] EXCEPT !.phase = p] \in Backup
  BY <1>2, <1>3 DEF Backup
<1>5. api' \in Objects
  BY <1>1, <1>4 DEF TypeOK, Objects, Backups
<1> QED
  BY <1>5 DEF Progress, TypeOK, history

LEMMA UserStepType == TypeOK /\ UserStep => TypeOK'
<1> SUFFICES ASSUME TypeOK, UserStep PROVE TypeOK'
  OBVIOUS
<1>1. Edit /\ edits' \in 0..MaxEdits /\ edits' = edits + 1 /\ edits \in Nat
      /\ removed \in 0..edits
  BY LimitsAssumption
  DEF UserStep, CreateSchedule, EditSchedule, SetRetainForever, RemoveBackup, Edit, TypeOK
<1>2. SUFFICES api' \in Objects /\ removed' \in 0..edits'
  BY <1>1 DEF TypeOK, Edit
<1>3. ASSUME NEW s \in ScheduleSpecs, CreateSchedule(s)
      PROVE  api' \in Objects /\ removed' \in 0..edits'
  <2>1. [spec |-> s, last |-> 0, active |-> {}, parsed |-> "Unknown"] \in Schedule
    BY DEF Schedule
  <2>2. api' \in Objects
    BY <1>3, <2>1, ScheduleUpdateType DEF CreateSchedule
  <2> QED
    BY <1>1, <1>3, <2>2 DEF CreateSchedule
<1>4. ASSUME NEW s \in ScheduleSpecs, EditSchedule(s)
      PROVE  api' \in Objects /\ removed' \in 0..edits'
  <2>1. [api.bs EXCEPT !.spec = s] \in Schedule
    BY <1>4 DEF EditSchedule, TypeOK, Objects, Schedule
  <2> QED
    BY <1>1, <1>4, <2>1, ScheduleUpdateType DEF EditSchedule, TypeOK
<1>5. ASSUME NEW f \in Fires, SetRetainForever(f)
      PROVE  api' \in Objects /\ removed' \in 0..edits'
  <2>1. [api.backups[f] EXCEPT !.retain = ~@] \in Backup
    BY <1>5 DEF SetRetainForever, TypeOK, Objects, Backups, Backup
  <2> QED
    BY <1>1, <1>5, <2>1 DEF SetRetainForever, TypeOK, Objects, Backups
<1>6. ASSUME NEW f \in Fires, RemoveBackup(f)
      PROVE  api' \in Objects /\ removed' \in 0..edits'
  BY <1>1, <1>6 DEF RemoveBackup, TypeOK, Objects, Backups
<1> QED
  BY <1>3, <1>4, <1>5, <1>6 DEF UserStep

LEMMA FaultStepType == TypeOK /\ FaultStep => TypeOK'
<1> SUFFICES ASSUME TypeOK, FaultStep PROVE TypeOK'
  OBVIOUS
<1>1. faults' \in 0..MaxFaults
  BY LimitsAssumption
  DEF FaultStep, SpawnFails, DeleteFails, StatusUpdateFails, Restart, Fault, TypeOK
<1>2. CASE SpawnFails
  <2>1. Fire \in Fires
    BY <1>2, FireType DEF SpawnFails, Due
  <2>2. api' \in Objects /\ made' \in [Fires -> 0..MaxTime] /\ tied' \in BOOLEAN
    BY <1>2, <2>1, CreateBackupType DEF SpawnFails, TypeOK
  <2>3. pass' = Idle /\ timer' \in Nat /\ queued' \in BOOLEAN
    BY <1>2, RequeueAfterType DEF SpawnFails
  <2> QED
    BY <1>1, <1>2, <2>2, <2>3, IdleType DEF SpawnFails, TypeOK
<1>3. CASE DeleteFails
  <2>1. pass' \in Passes /\ pass'.pc = pass.pc /\ pass'.read = pass.read /\ pass'.now = pass.now
    BY <1>3, IdleType DEF DeleteFails, TypeOK, Passes
  <2> QED
    BY <1>1, <1>3, <2>1 DEF DeleteFails, TypeOK, history
<1>4. CASE StatusUpdateFails
  BY <1>1, <1>4, IdleType DEF StatusUpdateFails, Retry, TypeOK, history
<1>5. CASE Restart
  BY <1>1, <1>5, IdleType, Numbers DEF Restart, TypeOK, Never, history
<1> QED
  BY <1>2, <1>3, <1>4, <1>5 DEF FaultStep

\* Every variable has its type in every reachable state; a pass in flight holds
\* a schedule and a moment of the past.
THEOREM TypeCorrect == Spec => []TypeOK
<1>1. Init => TypeOK
  <2> SUFFICES ASSUME Init PROVE TypeOK
    OBVIOUS
  <2>1. api \in Objects
    BY DEF Init, Objects, Backups, NoBackups
  <2>2. cache \in Objects /\ pass \in Passes /\ pass.pc = "Idle"
    BY <2>1, IdleType DEF Init
  <2>3. now \in Window..MaxTime /\ timer \in Nat
    BY Numbers DEF Init, Never
  <2>4. made \in [Fires -> 0..MaxTime]
    BY Numbers DEF Init
  <2>5. edits \in 0..MaxEdits /\ faults \in 0..MaxFaults /\ removed \in 0..edits
    BY LimitsAssumption DEF Init
  <2>6. queued \in BOOLEAN /\ tied \in BOOLEAN
    BY DEF Init
  <2> QED
    BY <2>1, <2>2, <2>3, <2>4, <2>5, <2>6, Zenon DEF TypeOK
<1>2. TypeOK /\ [Next]_vars => TypeOK'
  <2> SUFFICES ASSUME TypeOK, [Next]_vars PROVE TypeOK'
    OBVIOUS
  <2>1. CASE UNCHANGED vars
    BY <2>1 DEF vars, history, TypeOK
  <2> QED
    BY <2>1, PassStepType, ClockStepType, ProgressType, UserStepType, FaultStepType
    DEF Next
<1> QED
  BY <1>1, <1>2, PTL DEF Spec

(* Only RefreshStatus changes lastScheduleTime. *)

LEMMA RefreshLast ==
  ASSUME TypeOK, RefreshStatus
  PROVE  Last' = IF Unchanged THEN pass.last ELSE Last
<1>1. CASE Unchanged
  <2> DEFINE bs == [spec |-> api.bs.spec, last |-> pass.last,
                    active |-> ActiveBackups, parsed |-> "True"]
  <2>1. api.bs \in Schedule /\ pass.last \in Fires \union {0}
    BY <1>1, PassSpec DEF RefreshStatus, Unchanged
  <2>2. bs \in Schedule
    BY <2>1 DEF Schedule, ActiveBackups, InProgress
  <2>3. api'.bs = bs
    BY <1>1 DEF RefreshStatus, TypeOK, Objects
  <2>4. bs # Absent /\ bs.last = pass.last
    BY <2>2, AbsentAssumption
  <2> HIDE DEF bs
  <2> QED
    BY <1>1, <2>3, <2>4 DEF Last
<1>2. CASE ~Unchanged
  BY <1>2 DEF RefreshStatus, Last
<1> QED
  BY <1>1, <1>2

LEMMA LastKept ==
  ASSUME TypeOK, Next, ~RefreshStatus
  PROVE  Last' = Last
<1>1. CASE Begin \/ NotDue \/ ListExcess
  BY <1>1 DEF Begin, NotDue, ListExcess, Last
<1>2. CASE InvalidSchedule
  BY <1>2, PassSpec, AbsentAssumption
  DEF InvalidSchedule, Unchanged, Last, TypeOK, Objects, Schedule
<1>3. CASE Spawn \/ SpawnFails
  <2>1. api'.bs = api.bs
    BY <1>3 DEF Spawn, SpawnFails, CreateBackup, TypeOK, Objects
  <2> QED
    BY <2>1 DEF Last
<1>4. CASE DeleteExcess
  BY <1>4 DEF DeleteExcess, Last, TypeOK, Objects
<1>5. CASE Tick \/ TimerFires \/ SyncSchedule \/ SyncBackups
  BY <1>5 DEF Tick, TimerFires, SyncSchedule, SyncBackups, Last
<1>6. ASSUME NEW f \in Fires, Progress(f) \/ SetRetainForever(f) \/ RemoveBackup(f)
      PROVE  Last' = Last
  BY <1>6 DEF Progress, SetRetainForever, RemoveBackup, Last, TypeOK, Objects
<1>7. ASSUME NEW s \in ScheduleSpecs, CreateSchedule(s) PROVE Last' = Last
  BY <1>7 DEF CreateSchedule, Last, TypeOK, Objects
<1>8. ASSUME NEW s \in ScheduleSpecs, EditSchedule(s) PROVE Last' = Last
  <2>1. api.bs \in Schedule
    BY <1>8 DEF EditSchedule, TypeOK, Objects
  <2>2. api'.bs = [api.bs EXCEPT !.spec = s] /\ api'.bs \in Schedule
    BY <1>8, <2>1 DEF EditSchedule, TypeOK, Objects, Schedule
  <2>3. api'.bs.last = api.bs.last
    BY <2>1, <2>2 DEF Schedule
  <2> QED
    BY <2>1, <2>2, <2>3, AbsentAssumption DEF Last
<1>9. CASE DeleteFails \/ StatusUpdateFails \/ Restart
  BY <1>9 DEF DeleteFails, StatusUpdateFails, Restart, Last
<1> QED
  BY <1>1, <1>2, <1>3, <1>4, <1>5, <1>6, <1>7, <1>8, <1>9
  DEF Next, PassStep, UserStep, FaultStep

(* The fires: what was served was backed up. *)

\* Creating the Backup of the due fire leaves it on record, whether the Backup
\* is new or AlreadyExists.
LEMMA CreateBackupRecorded ==
  ASSUME TypeOK, ScheduleInv, Fire \in Fires, CreateBackup
  PROVE  /\ made'[Fire] # 0
         /\ \A f \in Fires : made[f] # 0 => made'[f] # 0
         /\ \A f \in Fires : api'.backups[f] # Absent => made'[f] # 0
         /\ api'.bs = api.bs
<1>1. now # 0 /\ now \in Nat
  BY Numbers DEF TypeOK
<1>2. \A f \in Fires : api.backups[f] # Absent => made[f] # 0
  BY DEF ScheduleInv
<1>3. CASE api.backups[Fire] = Absent
  BY <1>1, <1>2, <1>3 DEF CreateBackup, TypeOK, Objects, Backups
<1>4. CASE api.backups[Fire] # Absent
  BY <1>2, <1>4 DEF CreateBackup
<1> QED
  BY <1>3, <1>4

\* A step that neither moves the pass on nor makes a fire, and at most drops
\* Backups, refreshes the cached schedule or keeps lastScheduleTime.
LEMMA QuietInv ==
  ASSUME TypeOK, ScheduleInv, UNCHANGED made,
         Last' = Last,
         cache'.bs \in {cache.bs, api.bs},
         \A f \in Fires : api'.backups[f] # Absent => api.backups[f] # Absent,
         \/ pass'.pc = "Idle"
         \/ /\ pass.pc # "Idle"
            /\ pass'.read = pass.read /\ pass'.now = pass.now /\ pass'.last = pass.last
  PROVE  ScheduleInv'
<1>1. EveryFireBackedUp'
  BY DEF EveryFireBackedUp, ScheduleInv
<1>2. (cache.bs # Absent /\ cache.bs.last # 0 => made[cache.bs.last] # 0)'
  BY DEF EveryFireBackedUp, ScheduleInv, Last
<1>3. CASE pass'.pc = "Idle"
  BY <1>1, <1>2, <1>3 DEF ScheduleInv
<1>4. CASE /\ pass.pc # "Idle"
           /\ pass'.read = pass.read /\ pass'.now = pass.now /\ pass'.last = pass.last
  <2>1. Fire' = Fire
    BY <1>4 DEF Fire
  <2> QED
    BY <1>1, <1>2, <1>4, <2>1 DEF ScheduleInv
<1> QED
  BY <1>3, <1>4

LEMMA PassStepKept == TypeOK /\ ScheduleInv /\ PassStep => ScheduleInv'
<1> SUFFICES ASSUME TypeOK, ScheduleInv, PassStep PROVE ScheduleInv'
  OBVIOUS
<1>1. CASE Begin
  <2>1. UNCHANGED <<api, cache, made>>
    BY <1>1 DEF Begin, history
  <2>2. EveryFireBackedUp'
    BY <2>1 DEF ScheduleInv, EveryFireBackedUp, Last
  <2>3. CASE cache.bs = Absent
    BY <1>1, <2>1, <2>2, <2>3, IdleType DEF Begin, ScheduleInv
  <2>4. CASE cache.bs # Absent
    <3>1. pass'.read = cache.bs /\ pass'.last = cache.bs.last
      BY <1>1, <2>4 DEF Begin, Idle
    <3> QED
      BY <2>1, <2>2, <2>4, <3>1 DEF ScheduleInv
  <2> QED
    BY <2>3, <2>4
<1>2. CASE InvalidSchedule
  <2>1. pass'.pc = "Idle" /\ UNCHANGED <<made, cache>>
    BY <1>2, IdleType DEF InvalidSchedule, RequeueAfter, Retry, history
  <2>2. Last' = Last /\ api'.backups = api.backups
    BY <1>2, PassSpec, AbsentAssumption
    DEF InvalidSchedule, Unchanged, Last, TypeOK, Objects, Schedule
  <2> QED
    BY <2>1, <2>2, QuietInv
<1>3. CASE Spawn
  <2>1. Fire \in Fires /\ Fire <= pass.now
    BY <1>3, FireType DEF Spawn, Due
  <2>2. /\ made'[Fire] # 0
        /\ \A f \in Fires : made[f] # 0 => made'[f] # 0
        /\ \A f \in Fires : api'.backups[f] # Absent => made'[f] # 0
        /\ api'.bs = api.bs
    BY <1>3, <2>1, CreateBackupRecorded DEF Spawn
  <2>3. /\ pass'.read = pass.read /\ pass'.now = pass.now
        /\ pass'.last = Fire /\ pass.pc # "Idle"
    BY <1>3 DEF Spawn, TypeOK, Passes
  <2>4. Fire' = Fire
    BY <2>3 DEF Fire
  <2>5. cache' = cache
    BY <1>3 DEF Spawn
  <2>6. pass.read.last \in Fires \union {0}
    BY <2>3, PassSpec
  <2>7. Last' = Last /\ Last \in Fires \union {0}
    BY <2>2 DEF Last, TypeOK, Objects, Schedule
  <2>8. cache.bs # Absent => cache.bs.last \in Fires \union {0}
    BY DEF TypeOK, Objects, Schedule
  <2> QED
    BY <2>1, <2>2, <2>3, <2>4, <2>5, <2>6, <2>7, <2>8 DEF ScheduleInv, EveryFireBackedUp
<1>4. CASE NotDue \/ ListExcess \/ DeleteExcess
  <2>1. UNCHANGED <<made, cache>> /\ api'.bs = api.bs
    BY <1>4 DEF NotDue, ListExcess, DeleteExcess, history, TypeOK, Objects
  <2>2. /\ pass.pc # "Idle"
        /\ pass'.read = pass.read /\ pass'.now = pass.now /\ pass'.last = pass.last
    BY <1>4 DEF NotDue, ListExcess, Excess, DeleteExcess, TypeOK, Passes
  <2>3. \A f \in Fires : api'.backups[f] # Absent => api.backups[f] # Absent
    BY <1>4 DEF NotDue, ListExcess, DeleteExcess, TypeOK, Objects, Backups
  <2>4. Last' = Last
    BY <2>1 DEF Last
  <2> QED
    BY <2>1, <2>2, <2>3, <2>4, QuietInv
<1>5. CASE RefreshStatus
  <2>1. pass'.pc = "Idle" /\ UNCHANGED <<made, cache>>
    BY <1>5, IdleType DEF RefreshStatus, RequeueAfter, Retry, history
  <2>2. api'.backups = api.backups
    BY <1>5 DEF RefreshStatus, TypeOK, Objects
  <2>3. Last' \in {Last, pass.last}
    BY <1>5, RefreshLast
  <2>4. EveryFireBackedUp'
    BY <1>5, <2>1, <2>3 DEF RefreshStatus, ScheduleInv, EveryFireBackedUp
  <2> QED
    BY <2>1, <2>2, <2>4 DEF ScheduleInv
<1> QED
  BY <1>1, <1>2, <1>3, <1>4, <1>5 DEF PassStep

LEMMA OtherStepKept ==
  ASSUME TypeOK, ScheduleInv,
         \/ Tick \/ TimerFires \/ SyncSchedule \/ SyncBackups
         \/ \E f \in Fires : Progress(f)
         \/ UserStep
  PROVE  ScheduleInv'
<1>1. UNCHANGED <<pass, made>>
  BY DEF Tick, TimerFires, SyncSchedule, SyncBackups, Progress, UserStep, CreateSchedule,
         EditSchedule, SetRetainForever, RemoveBackup, Edit, history
<1>2. cache'.bs \in {cache.bs, api.bs}
  BY DEF Tick, TimerFires, SyncSchedule, SyncBackups, Progress, UserStep, CreateSchedule,
         EditSchedule, SetRetainForever, RemoveBackup, Edit, TypeOK, Objects
<1>3. Last' = Last
  <2>1. ~RefreshStatus
    BY <1>1, IdleType DEF RefreshStatus, RequeueAfter, Retry
  <2> QED
    BY <2>1, LastKept DEF Next
<1>4. \A f \in Fires : api'.backups[f] # Absent => api.backups[f] # Absent
  <2>1. CASE Tick \/ TimerFires \/ SyncSchedule \/ SyncBackups
    BY <2>1 DEF Tick, TimerFires, SyncSchedule, SyncBackups
  <2>2. ASSUME NEW f \in Fires, Progress(f) \/ SetRetainForever(f) \/ RemoveBackup(f)
        PROVE  \A g \in Fires : api'.backups[g] # Absent => api.backups[g] # Absent
    BY <2>2 DEF Progress, SetRetainForever, RemoveBackup, TypeOK, Objects, Backups
  <2>3. ASSUME NEW s \in ScheduleSpecs, CreateSchedule(s) \/ EditSchedule(s)
        PROVE  api'.backups = api.backups
    BY <2>3 DEF CreateSchedule, EditSchedule, TypeOK, Objects
  <2> QED
    BY <2>1, <2>2, <2>3 DEF UserStep
<1> QED
  BY <1>1, <1>2, <1>3, <1>4, QuietInv

LEMMA FaultStepKept == TypeOK /\ ScheduleInv /\ FaultStep => ScheduleInv'
<1> SUFFICES ASSUME TypeOK, ScheduleInv, FaultStep PROVE ScheduleInv'
  OBVIOUS
<1>1. CASE SpawnFails
  <2>1. Fire \in Fires
    BY <1>1, FireType DEF SpawnFails, Due
  <2>2. /\ \A f \in Fires : made[f] # 0 => made'[f] # 0
        /\ \A f \in Fires : api'.backups[f] # Absent => made'[f] # 0
        /\ api'.bs = api.bs
    BY <1>1, <2>1, CreateBackupRecorded DEF SpawnFails, ScheduleInv
  <2>3. cache' = cache /\ pass'.pc = "Idle"
    BY <1>1, IdleType DEF SpawnFails, RequeueAfter
  <2>4. Last' = Last /\ Last \in Fires \union {0}
    BY <2>2 DEF Last, TypeOK, Objects, Schedule
  <2>5. cache.bs # Absent => cache.bs.last \in Fires \union {0}
    BY DEF TypeOK, Objects, Schedule
  <2> QED
    BY <2>2, <2>3, <2>4, <2>5 DEF ScheduleInv, EveryFireBackedUp
<1>2. CASE DeleteFails
  <2>1. /\ pass.pc # "Idle"
        /\ pass'.read = pass.read /\ pass'.now = pass.now /\ pass'.last = pass.last
    BY <1>2 DEF DeleteFails, TypeOK, Passes
  <2> QED
    BY <1>2, <2>1, QuietInv DEF DeleteFails, history, Last
<1>3. CASE StatusUpdateFails
  BY <1>3, IdleType, QuietInv DEF StatusUpdateFails, Retry, history, Last
<1>4. CASE Restart
  BY <1>4, IdleType, QuietInv DEF Restart, history, Last
<1> QED
  BY <1>1, <1>2, <1>3, <1>4 DEF FaultStep

\* The inductive invariant of the fires holds in every reachable state.
THEOREM ScheduleInvariant == Spec => []ScheduleInv
<1>1. Init => ScheduleInv
  BY IdleType DEF Init, ScheduleInv, EveryFireBackedUp, Last, NoBackups
<1>2. TypeOK /\ ScheduleInv /\ [Next]_vars => ScheduleInv'
  <2> SUFFICES ASSUME TypeOK, ScheduleInv, [Next]_vars PROVE ScheduleInv'
    OBVIOUS
  <2>1. CASE UNCHANGED vars
    BY <2>1 DEF vars, history, ScheduleInv, EveryFireBackedUp, Last, Fire
  <2> QED
    BY <2>1, PassStepKept, OtherStepKept, FaultStepKept DEF Next
<1> QED
  BY <1>1, <1>2, TypeCorrect, PTL DEF Spec

\* lastScheduleTime never runs ahead of the Backups: whatever fails or restarts
\* between the creation and the status update, a fire saved was backed up.
THEOREM FiresAreBackedUp == Spec => []EveryFireBackedUp
<1>1. ScheduleInv => EveryFireBackedUp
  BY DEF ScheduleInv
<1> QED
  BY <1>1, ScheduleInvariant, PTL

(* The refinement of FireLog *)

\* The status update that saves a new fire serves it: with the moment the pass
\* began for the t of Serve.
LEMMA RefreshServes ==
  ASSUME TypeOK, ScheduleInv, RefreshStatus, Last' # Last
  PROVE  Log!Serve
<1>1. Unchanged /\ pass.pc # "Idle"
  BY DEF RefreshStatus, Last
<1>2. api.bs \in Schedule /\ pass.read = api.bs /\ api.bs # Absent
  BY <1>1, PassSpec, AbsentAssumption DEF Unchanged
<1>3. Last = pass.read.last
  BY <1>2 DEF Last
<1>4. Last' = pass.last
  BY <1>1, RefreshLast
<1>5. pass.last = Fire /\ Fire <= pass.now
  BY <1>1, <1>3, <1>4 DEF ScheduleInv
<1>6. /\ Fire \in FireTimes
      /\ Last < Fire
      /\ pass.now - Window < Fire
      /\ \A g \in FireTimes : g < Fire => g <= Last \/ g <= pass.now - Window
  BY <1>1, <1>3, FireType
<1>7. pass.now \in 0..now
  BY <1>1, PassSpec, Numbers
<1>8. now' = now
  BY DEF RefreshStatus
<1> QED
  BY <1>4, <1>5, <1>6, <1>7, <1>8 DEF Log!Serve

\* The schedule implements FireLog: fires are served in order, each once it is
\* due, and none is skipped unless it is older than the window.
THEOREM FireLogImplemented == Spec => ImplementsFireLog
<1>1. Init => Log!Init
  BY DEF Init, Log!Init, Last
<1>2. TypeOK /\ ScheduleInv /\ [Next]_vars => [Log!Next]_<<now, Last>>
  <2> SUFFICES ASSUME TypeOK, ScheduleInv, [Next]_vars
               PROVE  Log!Next \/ UNCHANGED <<now, Last>>
    OBVIOUS
  <2>1. CASE UNCHANGED vars
    BY <2>1 DEF vars, Last
  <2>2. CASE Tick
    BY <2>2 DEF Tick, Last, Log!Next, Log!Tick
  <2>3. CASE RefreshStatus
    BY <2>3, RefreshServes DEF RefreshStatus, Log!Next
  <2>4. CASE Next /\ ~Tick /\ ~RefreshStatus
    <3>1. now' = now
      BY <2>4 DEF Next, PassStep, Begin, InvalidSchedule, Spawn, NotDue, ListExcess,
                  DeleteExcess, TimerFires, SyncSchedule, SyncBackups, Progress, UserStep,
                  CreateSchedule, EditSchedule, SetRetainForever, RemoveBackup, Edit,
                  FaultStep, SpawnFails, DeleteFails, StatusUpdateFails, Restart
    <3>2. Last' = Last
      BY <2>4, LastKept
    <3> QED
      BY <3>1, <3>2
  <2> QED
    BY <2>1, <2>2, <2>3, <2>4
<1> QED
  BY <1>1, <1>2, TypeCorrect, ScheduleInvariant, PTL DEF Spec, ImplementsFireLog, Log!Spec

(* The order of fires: what a stale lastScheduleTime can and cannot do. *)

CacheLast == IF cache.bs = Absent THEN 0 ELSE cache.bs.last

\* No fire before one that was made is still open: seen from lastScheduleTime
\* last at time t, all of them are served or beyond the window.
NoneOpen(last, t) ==
  \A f, g \in Fires : (made[g] # 0 /\ f < g) => f <= last \/ f <= t - Window

\* The times in sight grow from the pass to the cache to the store, and nothing
\* before a fire made is open for the cache, nor for a pass about to spawn.
OrderInv ==
  /\ CacheLast <= Last
  /\ pass.pc # "Idle" => pass.read.last <= CacheLast
  /\ NoneOpen(CacheLast, now)
  /\ pass.pc = "Spawn" => NoneOpen(pass.read.last, pass.now)

LEMMA LastTypes ==
  ASSUME TypeOK
  PROVE  CacheLast \in Fires \union {0} /\ Last \in Fires \union {0}
BY DEF TypeOK, Objects, Schedule, CacheLast, Last

LEMMA NoneOpenLater ==
  ASSUME TypeOK, NEW a \in Fires \union {0}, NEW b \in Fires \union {0}, a <= b,
         NEW t \in Nat, NEW u \in Nat, t <= u, NoneOpen(a, t)
  PROVE  NoneOpen(b, u)
<1> SUFFICES ASSUME NEW f \in Fires, NEW g \in Fires, made[g] # 0, f < g
             PROVE  f <= b \/ f <= u - Window
  BY DEF NoneOpen
<1>1. f <= a \/ f <= t - Window
  BY DEF NoneOpen
<1> QED
  BY <1>1, Numbers

\* The fire a pass finds due comes after every one made so far.
LEMMA FireIsNewest ==
  ASSUME TypeOK, OrderInv, pass.pc = "Spawn", Fire \in Fires
  PROVE  \A g \in Fires : made[g] # 0 => g <= Fire
<1> SUFFICES ASSUME NEW g \in Fires, made[g] # 0, ~(g <= Fire) PROVE FALSE
  OBVIOUS
<1>1. Fire < g
  BY Numbers
<1>2. Fire <= pass.read.last \/ Fire <= pass.now - Window
  BY <1>1 DEF OrderInv, NoneOpen
<1>3. pass.read.last < Fire /\ pass.now - Window < Fire
  BY FireType
<1>4. pass.read.last \in Nat /\ pass.now \in Nat
  BY PassSpec, Numbers
<1> QED
  BY <1>2, <1>3, <1>4, Numbers

LEMMA CreateBackupInOrder ==
  ASSUME TypeOK, OrderInv, pass.pc = "Spawn", Fire \in Fires, CreateBackup,
         UNCHANGED <<now, cache>>
  PROVE  NoneOpen(CacheLast, now)'
<1>1. \A f \in Fires : made'[f] # 0 => made[f] # 0 \/ f = Fire
  BY DEF CreateBackup, TypeOK
<1>2. SUFFICES ASSUME NEW f \in Fires, NEW g \in Fires, made'[g] # 0, f < g
               PROVE  f <= CacheLast \/ f <= now - Window
  BY DEF NoneOpen, CacheLast
<1>3. CASE made[g] # 0
  BY <1>2, <1>3 DEF OrderInv, NoneOpen
<1>4. CASE g = Fire
  <2>1. f <= pass.read.last \/ f <= pass.now - Window
    BY <1>2, <1>4, FireType, Numbers
  <2>2. pass.read.last <= CacheLast /\ pass.now <= now
    BY PassSpec, Numbers DEF OrderInv
  <2>3. /\ pass.read.last \in Nat /\ CacheLast \in Nat /\ pass.now \in Nat /\ now \in Nat
    BY PassSpec, LastTypes, Numbers
  <2> QED
    BY <2>1, <2>2, <2>3, Numbers
<1> QED
  BY <1>1, <1>2, <1>3, <1>4

\* A step that makes no fire, lets times grow and leaves the pass where it is or ends it.
LEMMA QuietOrder ==
  ASSUME TypeOK, TypeOK', OrderInv, UNCHANGED made,
         CacheLast <= CacheLast', CacheLast' <= Last', now <= now',
         \/ pass'.pc = "Idle"
         \/ /\ pass.pc # "Idle"
            /\ pass'.read = pass.read /\ pass'.now = pass.now
            /\ pass'.pc = "Spawn" => pass.pc = "Spawn"
  PROVE  OrderInv'
<1>1. CacheLast \in Fires \union {0} /\ CacheLast' \in Fires \union {0}
  BY LastTypes DEF TypeOK, Objects, Schedule, CacheLast
<1>2. now \in Nat /\ now' \in Nat
  BY Numbers DEF TypeOK
<1>3. NoneOpen(CacheLast', now')
  BY <1>1, <1>2, NoneOpenLater DEF OrderInv
<1>4. NoneOpen(CacheLast, now)'
  BY <1>3 DEF NoneOpen
<1>5. CASE pass'.pc = "Idle"
  BY <1>4, <1>5 DEF OrderInv
<1>6. CASE /\ pass.pc # "Idle"
           /\ pass'.read = pass.read /\ pass'.now = pass.now
           /\ pass'.pc = "Spawn" => pass.pc = "Spawn"
  <2>1. pass'.read.last <= CacheLast'
    BY <1>1, <1>6, PassSpec, Numbers DEF OrderInv
  <2>2. pass'.pc = "Spawn" => NoneOpen(pass.read.last, pass.now)'
    BY <1>6 DEF OrderInv, NoneOpen
  <2> QED
    BY <1>4, <2>1, <2>2, <1>6 DEF OrderInv
<1> QED
  BY <1>5, <1>6

LEMMA CachedLastKept ==
  ASSUME cache'.bs = cache.bs
  PROVE  CacheLast' = CacheLast
BY DEF CacheLast

LEMMA PassStepInOrder ==
  ASSUME TypeOK, TypeOK', ScheduleInv, OrderInv, PassStep PROVE OrderInv'
<1>t. CacheLast \in Nat /\ Last \in Nat /\ now \in Nat
  BY LastTypes, Numbers DEF TypeOK
<1>o. CacheLast <= Last
  BY DEF OrderInv
<1>1. CASE Begin
  <2>1. UNCHANGED <<api, cache, made, now>>
    BY <1>1 DEF Begin, history
  <2>2. CASE cache.bs = Absent
    <3>1. pass'.pc = "Idle"
      BY <1>1, <2>2, IdleType DEF Begin
    <3> QED
      BY <1>t, <1>o, <2>1, <3>1, QuietOrder DEF CacheLast, Last
  <2>3. CASE cache.bs # Absent
    <3>1. pass'.pc = "Spawn" /\ pass'.read = cache.bs /\ pass'.now = now
      BY <1>1, <2>3 DEF Begin, Idle
    <3>2. pass'.read.last = CacheLast
      BY <2>3, <3>1 DEF CacheLast
    <3>3. UNCHANGED <<CacheLast, Last>>
      BY <2>1 DEF CacheLast, Last
    <3>4. NoneOpen(CacheLast, now)' /\ NoneOpen(pass.read.last, pass.now)'
      BY <2>1, <3>1, <3>2, <3>3 DEF OrderInv, NoneOpen
    <3>5. pass'.read.last <= CacheLast' /\ CacheLast' <= Last'
      BY <1>t, <1>o, <3>2, <3>3
    <3> QED
      BY <3>4, <3>5 DEF OrderInv
  <2> QED
    BY <2>2, <2>3
<1>2. CASE InvalidSchedule
  <2>1. pass'.pc = "Idle" /\ UNCHANGED <<made, cache, now>>
    BY <1>2, IdleType DEF InvalidSchedule, RequeueAfter, Retry, history
  <2>2. Last' = Last
    BY <1>2, PassSpec, AbsentAssumption
    DEF InvalidSchedule, Unchanged, Last, TypeOK, Objects, Schedule
  <2> QED
    BY <1>t, <1>o, <2>1, <2>2, CachedLastKept, QuietOrder
<1>3. CASE Spawn
  <2>1. pass.pc = "Spawn" /\ Fire \in Fires /\ CreateBackup /\ UNCHANGED <<cache, now>>
    BY <1>3, FireType DEF Spawn, Due
  <2>2. NoneOpen(CacheLast, now)'
    BY <2>1, CreateBackupInOrder
  <2>3. pass'.pc = "List" /\ pass'.read = pass.read
    BY <1>3 DEF Spawn, TypeOK, Passes
  <2>4. Last' = Last /\ CacheLast' = CacheLast
    BY <2>1 DEF CreateBackup, Last, CacheLast, TypeOK, Objects
  <2> QED
    BY <2>1, <2>2, <2>3, <2>4 DEF OrderInv
<1>4. CASE NotDue \/ ListExcess \/ DeleteExcess
  <2>1. UNCHANGED <<made, cache, now>> /\ api'.bs = api.bs
    BY <1>4 DEF NotDue, ListExcess, DeleteExcess, history, TypeOK, Objects
  <2>2. /\ pass.pc # "Idle" /\ pass'.pc # "Spawn"
        /\ pass'.read = pass.read /\ pass'.now = pass.now
    BY <1>4 DEF NotDue, ListExcess, Excess, DeleteExcess, TypeOK, Passes
  <2>3. Last' = Last
    BY <2>1 DEF Last
  <2> QED
    BY <1>t, <1>o, <2>1, <2>2, <2>3, CachedLastKept, QuietOrder
<1>5. CASE RefreshStatus
  <2>1. pass'.pc = "Idle" /\ UNCHANGED <<made, cache, now>>
    BY <1>5, IdleType DEF RefreshStatus, RequeueAfter, Retry, history
  <2>2. CASE Unchanged
    <3>1. pass.read = api.bs /\ api.bs # Absent /\ pass.pc # "Idle"
      BY <1>5, <2>2, PassSpec, AbsentAssumption DEF RefreshStatus, Unchanged
    <3>2. Last = pass.read.last
      BY <3>1 DEF Last
    <3>3. Last' = pass.last
      BY <1>5, <2>2, RefreshLast
    <3>4. pass.last = pass.read.last \/ pass.last = Fire
      BY <3>1 DEF ScheduleInv
    <3>5. pass.read.last < Fire /\ Fire \in Nat
      BY <3>1, FireType, Numbers
    <3>6. Last <= Last'
      BY <1>t, <3>2, <3>3, <3>4, <3>5
    <3>7. Last' \in Nat
      BY <3>1, <3>3, PassSpec, Numbers
    <3> QED
      BY <1>t, <1>o, <2>1, <3>6, <3>7, CachedLastKept, QuietOrder
  <2>3. CASE ~Unchanged
    <3>1. Last' = Last
      BY <1>5, <2>3, RefreshLast
    <3> QED
      BY <1>t, <1>o, <2>1, <3>1, CachedLastKept, QuietOrder
  <2> QED
    BY <2>2, <2>3
<1> QED
  BY <1>1, <1>2, <1>3, <1>4, <1>5 DEF PassStep

LEMMA OtherStepInOrder ==
  ASSUME TypeOK, TypeOK', OrderInv,
         \/ Tick \/ TimerFires \/ SyncSchedule \/ SyncBackups
         \/ \E f \in Fires : Progress(f)
         \/ UserStep
  PROVE  OrderInv'
<1>t. CacheLast \in Nat /\ Last \in Nat /\ now \in Nat
  BY LastTypes, Numbers DEF TypeOK
<1>1. UNCHANGED <<pass, made>>
  BY DEF Tick, TimerFires, SyncSchedule, SyncBackups, Progress, UserStep, CreateSchedule,
         EditSchedule, SetRetainForever, RemoveBackup, Edit, history
<1>2. now' = now \/ now' = now + 1
  BY DEF Tick, TimerFires, SyncSchedule, SyncBackups, Progress, UserStep, CreateSchedule,
         EditSchedule, SetRetainForever, RemoveBackup, Edit
<1>3. Last' = Last
  <2>1. ~RefreshStatus
    BY <1>1, IdleType DEF RefreshStatus, RequeueAfter, Retry
  <2> QED
    BY <2>1, LastKept DEF Next
<1>4. cache'.bs = cache.bs \/ cache'.bs = api.bs
  BY DEF Tick, TimerFires, SyncSchedule, SyncBackups, Progress, UserStep, CreateSchedule,
         EditSchedule, SetRetainForever, RemoveBackup, Edit, TypeOK, Objects
<1>5. CacheLast' = CacheLast \/ CacheLast' = Last
  BY <1>4 DEF CacheLast, Last
<1>6. CacheLast <= CacheLast' /\ CacheLast' <= Last' /\ now <= now'
  BY <1>t, <1>2, <1>3, <1>5 DEF OrderInv
<1> QED
  BY <1>1, <1>6, QuietOrder

LEMMA FaultStepInOrder ==
  ASSUME TypeOK, TypeOK', OrderInv, FaultStep PROVE OrderInv'
<1>t. CacheLast \in Nat /\ Last \in Nat /\ now \in Nat
  BY LastTypes, Numbers DEF TypeOK
<1>o. CacheLast <= Last
  BY DEF OrderInv
<1>1. CASE SpawnFails
  <2>1. /\ pass.pc = "Spawn" /\ Fire \in Fires /\ UNCHANGED <<cache, now>> /\ pass'.pc = "Idle"
        /\ CreateBackup \/ UNCHANGED <<api, made, tied>>
    BY <1>1, FireType, IdleType DEF SpawnFails, Due, RequeueAfter
  <2>2. CASE CreateBackup
    <3>1. NoneOpen(CacheLast, now)'
      BY <2>1, <2>2, CreateBackupInOrder
    <3>2. Last' = Last /\ CacheLast' = CacheLast
      BY <2>1, <2>2 DEF CreateBackup, Last, CacheLast, TypeOK, Objects
    <3> QED
      BY <2>1, <3>1, <3>2, <1>o DEF OrderInv
  <2>3. CASE UNCHANGED <<api, made, tied>>
    BY <1>t, <1>o, <2>1, <2>3, QuietOrder DEF CacheLast, Last
  <2> QED
    BY <2>1, <2>2, <2>3
<1>2. CASE DeleteFails
  <2>1. /\ pass.pc # "Idle" /\ pass'.pc = "Retain"
        /\ pass'.read = pass.read /\ pass'.now = pass.now
    BY <1>2 DEF DeleteFails, TypeOK, Passes
  <2> QED
    BY <1>t, <1>o, <1>2, <2>1, QuietOrder DEF DeleteFails, history, CacheLast, Last
<1>3. CASE StatusUpdateFails
  BY <1>t, <1>o, <1>3, IdleType, QuietOrder
  DEF StatusUpdateFails, Retry, history, CacheLast, Last
<1>4. CASE Restart
  BY <1>t, <1>o, <1>4, IdleType, QuietOrder DEF Restart, history, CacheLast, Last
<1> QED
  BY <1>1, <1>2, <1>3, <1>4 DEF FaultStep

\* Nothing before a fire that was made is open again, for the cache or for the
\* pass, however far either lags behind.
THEOREM OrderInvariant == Spec => []OrderInv
<1>1. Init => OrderInv
  BY IdleType DEF Init, OrderInv, NoneOpen, CacheLast, Last
<1>2. TypeOK /\ TypeOK' /\ ScheduleInv /\ OrderInv /\ [Next]_vars => OrderInv'
  <2> SUFFICES ASSUME TypeOK, TypeOK', ScheduleInv, OrderInv, [Next]_vars PROVE OrderInv'
    OBVIOUS
  <2>1. CASE UNCHANGED vars
    BY <2>1 DEF vars, history, OrderInv, NoneOpen, CacheLast, Last
  <2> QED
    BY <2>1, PassStepInOrder, OtherStepInOrder, FaultStepInOrder DEF Next
<1> QED
  BY <1>1, <1>2, TypeCorrect, ScheduleInvariant, PTL DEF Spec

\* A first Backup is only ever made for a fire later than all that have one.
THEOREM SpawnsInOrder == Spec => SpawnedInOrder
<1>1. ASSUME TypeOK, OrderInv, [Next]_vars, NEW f \in Fires, NEW g \in Fires,
             made[f] = 0, made'[f] # 0, made[g] # 0
      PROVE  g < f
  <2>1. CASE Spawn \/ SpawnFails
    <3>1. pass.pc = "Spawn" /\ Fire \in Fires
      BY <1>1, <2>1, FireType DEF Spawn, SpawnFails, Due
    <3>2. f = Fire
      BY <1>1, <2>1 DEF Spawn, SpawnFails, CreateBackup, TypeOK
    <3>3. g <= Fire /\ g # f
      BY <1>1, <3>1, FireIsNewest
    <3> QED
      BY <3>1, <3>2, <3>3, Numbers
  <2>2. CASE ~Spawn /\ ~SpawnFails
    <3>1. made' = made
      BY <1>1, <2>2
      DEF Next, PassStep, Begin, InvalidSchedule, NotDue, ListExcess, DeleteExcess,
          RefreshStatus, Tick, TimerFires, SyncSchedule, SyncBackups, Progress, UserStep,
          CreateSchedule, EditSchedule, SetRetainForever, RemoveBackup, Edit, FaultStep,
          DeleteFails, StatusUpdateFails, Restart, history, vars
    <3> QED
      BY <1>1, <3>1
  <2> QED
    BY <2>1, <2>2
<1>2. TypeOK /\ OrderInv /\ [Next]_vars =>
        [\A f, g \in Fires : (made[f] = 0 /\ made'[f] # 0 /\ made[g] # 0) => g < f]_vars
  BY <1>1
<1> QED
  BY <1>2, TypeCorrect, OrderInvariant, PTL DEF Spec, SpawnedInOrder

(* The alarm: a schedule at rest wakes up for its next fire. *)

\* What a pass decides about the fire.
DecisionInv ==
  pass.pc \in {"List", "Retain"} =>
    /\ pass.read.spec.valid
    /\ pass.last = pass.read.last => pass.read.spec.suspend \/ pass.now < Fire

Alarm(bs) == timer <= Max2(NextFire(Reference(now, bs.last)), now + 1)

\* The stored schedule has a status that the cached one has not: an event that
\* no edit of the spec can take back.
Unseen ==
  /\ api.bs # Absent
  /\ <<api.bs.last, api.bs.active, api.bs.parsed>>
       # <<cache.bs.last, cache.bs.active, cache.bs.parsed>>

\* With no further pass queued, the one in flight works on the cached schedule,
\* and when there is none either, the alarm is set or an event is to come.
AlarmInv ==
  /\ DecisionInv
  /\ (pass.pc # "Idle" /\ ~queued) => pass.read = cache.bs
  /\ (pass.pc = "Idle" /\ ~queued /\ Active(cache.bs)) => Unseen \/ Alarm(cache.bs)

LEMMA CachedLast ==
  ASSUME TypeOK, cache.bs # Absent
  PROVE  cache.bs \in Schedule /\ cache.bs.last \in Fires \union {0}
BY DEF TypeOK, Objects, Schedule

\* Time moves the alarm's deadline forward only.
LEMMA DeadlineGrows ==
  ASSUME NEW t \in Window..MaxTime, NEW u \in Window..MaxTime, t <= u,
         NEW last \in Fires \union {0}
  PROVE  NextFire(Reference(t, last)) <= NextFire(Reference(u, last))
<1>1. last \in 0..MaxTime
  BY Numbers
<1>2. Reference(t, last) \in 0..MaxTime /\ Reference(u, last) \in 0..MaxTime
  BY <1>1, ReferenceType
<1>3. Reference(t, last) <= Reference(u, last)
  BY <1>1, Numbers DEF Reference, Max2
<1> DEFINE a == Reference(t, last)
           b == Reference(u, last)
<1> HIDE DEF a, b
<1>4. NextFire(b) \in FireTimes /\ b < NextFire(b)
  BY <1>2, NextFireIsNext DEF b
<1>5. a < NextFire(b)
  BY <1>2, <1>3, <1>4, Numbers DEF a, b
<1>6. NextFire(a) <= NextFire(b)
  BY <1>2, <1>4, <1>5, NextFireIsNext DEF a
<1> QED
  BY <1>6 DEF a, b

\* Once the pass has found no fire due, the next fire is the one to wait for.
LEMMA NothingDue ==
  ASSUME TypeOK, pass.pc # "Idle", pass.now < Fire
  PROVE  NextFire(pass.now) <= NextFire(Reference(now, pass.read.last))
<1>1. pass.now \in 0..MaxTime /\ pass.now \in Window..MaxTime /\ now \in Window..MaxTime
      /\ pass.now <= now /\ pass.read.last \in Fires \union {0}
  BY PassSpec, Numbers
<1>2. Fire \in FireTimes
  BY FireType
<1>3. NextFire(pass.now) <= Fire
  BY <1>1, <1>2, NextFireIsNext
<1>4. Fire <= NextFire(Reference(now, pass.read.last))
  BY <1>1, DeadlineGrows DEF Fire
<1>5. NextFire(Reference(now, pass.read.last)) \in FireTimes
  <2>1. pass.read.last \in 0..MaxTime
    BY <1>1, Numbers
  <2>2. Reference(now, pass.read.last) \in 0..MaxTime
    BY <1>1, <2>1, ReferenceType
  <2> QED
    BY <2>2, NextFireIsNext
<1>6. NextFire(pass.now) \in FireTimes
  BY <1>1, NextFireIsNext
<1> QED
  BY <1>2, <1>3, <1>4, <1>5, <1>6, Numbers

\* A step that neither ends the pass nor takes it on, nor touches a schedule.
LEMMA QuietAlarm ==
  ASSUME TypeOK, TypeOK', AlarmInv, UNCHANGED <<now, api.bs, cache.bs, timer>>,
         queued => queued',
         \/ UNCHANGED pass
         \/ pass'.pc = "Idle" /\ queued'
         \/ /\ pass.pc \in {"List", "Retain"} /\ pass'.pc = "Retain"
            /\ UNCHANGED <<pass.read, pass.now, pass.last>>
  PROVE  AlarmInv'
<1>1. CASE UNCHANGED pass
  BY <1>1 DEF AlarmInv, DecisionInv, Active, Alarm, Unseen, Fire
<1>2. CASE pass'.pc = "Idle" /\ queued'
  BY <1>2 DEF AlarmInv, DecisionInv
<1>3. CASE /\ pass.pc \in {"List", "Retain"} /\ pass'.pc = "Retain"
           /\ UNCHANGED <<pass.read, pass.now, pass.last>>
  <2>1. Fire' = Fire
    BY <1>3 DEF Fire
  <2> QED
    BY <1>3, <2>1 DEF AlarmInv, DecisionInv
<1> QED
  BY <1>1, <1>2, <1>3

LEMMA BeginAlarm == ASSUME TypeOK, AlarmInv, Begin PROVE AlarmInv'
<1>1. CASE cache.bs = Absent
  <2>1. pass'.pc = "Idle" /\ cache'.bs = Absent
    BY <1>1, IdleType DEF Begin
  <2> QED
    BY <2>1 DEF AlarmInv, DecisionInv, Active
<1>2. CASE cache.bs # Absent
  <2>1. pass'.pc = "Spawn" /\ pass'.read = cache.bs /\ cache' = cache
    BY <1>2 DEF Begin, Idle
  <2> QED
    BY <2>1 DEF AlarmInv, DecisionInv
<1> QED
  BY <1>1, <1>2

LEMMA InvalidScheduleAlarm == ASSUME TypeOK, AlarmInv, InvalidSchedule PROVE AlarmInv'
<1>1. pass.pc # "Idle" /\ ~pass.read.spec.valid /\ pass'.pc = "Idle" /\ cache' = cache
      /\ (queued' = queued \/ queued')
  BY IdleType DEF InvalidSchedule, RequeueAfter, Retry
<1>2. ~queued' => ~Active(cache.bs)
  BY <1>1 DEF AlarmInv, Active
<1> QED
  BY <1>1, <1>2 DEF AlarmInv, DecisionInv, Active

LEMMA DecisionAlarm == ASSUME TypeOK, AlarmInv, Spawn \/ NotDue PROVE AlarmInv'
<1>1. /\ pass.pc = "Spawn" /\ pass.read.spec.valid /\ UNCHANGED <<cache, queued>>
  BY DEF Spawn, NotDue
<1>2. /\ pass'.pc = "List" /\ UNCHANGED <<pass.read, pass.now>>
      /\ pass'.last = pass.last \/ pass'.last = Fire
  BY DEF Spawn, NotDue, TypeOK, Passes
<1>3. pass'.last = pass.read.last => ~Due
  <2>1. CASE Spawn
    <3>1. pass'.last = Fire /\ pass.read.last < Fire
      BY <1>1, <2>1, FireType DEF Spawn, TypeOK, Passes
    <3>2. pass.read.last \in Nat
      BY <1>1, PassSpec, Numbers
    <3> QED
      BY <3>1, <3>2
  <2>2. CASE NotDue
    BY <2>2 DEF NotDue
  <2> QED
    BY <2>1, <2>2
<1>4. Fire' = Fire
  BY <1>2 DEF Fire
<1>5. ~Due => pass.read.spec.suspend \/ pass.now < Fire
  <2>1. pass.now \in Nat /\ Fire \in Nat
    BY <1>1, PassSpec, FireType, Numbers
  <2> QED
    BY <2>1 DEF Due
<1>6. DecisionInv'
  BY <1>1, <1>2, <1>3, <1>4, <1>5 DEF DecisionInv
<1> QED
  BY <1>1, <1>2, <1>6 DEF AlarmInv

\* The status update either tells the cache something new, or nothing was due
\* and the timer is set for what is next.
LEMMA RefreshAlarm == ASSUME TypeOK, AlarmInv, RefreshStatus PROVE AlarmInv'
<1>1. pass.pc = "Retain" /\ pass'.pc = "Idle" /\ UNCHANGED <<cache, now>>
  BY IdleType DEF RefreshStatus, RequeueAfter, Retry
<1>2. SUFFICES ASSUME ~queued', Active(cache.bs) PROVE Unseen' \/ Alarm(cache.bs)'
  BY <1>1 DEF AlarmInv, DecisionInv, Active
<1>3. Unchanged /\ ~queued /\ RequeueAfter(Max2(NextFire(pass.now) - now, 1))
  BY <1>2 DEF RefreshStatus, RequeueAfter, Retry
<1>4. pass.read = cache.bs /\ pass.read = api.bs
  BY <1>1, <1>3 DEF AlarmInv, Unchanged
<1> DEFINE bs == [spec |-> api.bs.spec, last |-> pass.last,
                  active |-> ActiveBackups, parsed |-> "True"]
<1>5. api'.bs = bs
  BY <1>3 DEF RefreshStatus, TypeOK, Objects
<1>6. bs \in Schedule
  BY <1>1, <1>4, PassSpec DEF Schedule, ActiveBackups, InProgress
<1>7. bs # Absent /\ bs.last = pass.last
  BY <1>6, AbsentAssumption
<1> HIDE DEF bs
<1>8. CASE pass.last # pass.read.last
  BY <1>1, <1>4, <1>5, <1>7, <1>8 DEF Unseen
<1>9. CASE pass.last = pass.read.last
  <2>1. pass.now < Fire
    BY <1>1, <1>2, <1>4, <1>9 DEF AlarmInv, DecisionInv, Active
  <2> DEFINE next == NextFire(pass.now)
             due == NextFire(Reference(now, cache.bs.last))
  <2>2. next <= due
    BY <1>1, <1>4, <2>1, NothingDue
  <2>3. next \in Nat
    BY <1>1, PassSpec, NextFireIsNext, Numbers
  <2>4. due \in Nat
    <3>1. now \in Window..MaxTime /\ cache.bs.last \in 0..MaxTime
      BY <1>1, <1>4, PassSpec, Numbers
    <3>2. Reference(now, cache.bs.last) \in 0..MaxTime
      BY <3>1, ReferenceType
    <3> QED
      BY <3>2, NextFireIsNext, Numbers
  <2>5. timer' = Min2(timer, now + Max2(next - now, 1)) /\ timer \in Nat /\ now \in Nat
    BY <1>3, Numbers DEF RequeueAfter, TypeOK
  <2> HIDE DEF next, due
  <2>6. timer' <= Max2(due, now + 1)
    BY <2>2, <2>3, <2>4, <2>5 DEF Min2, Max2
  <2> QED
    BY <1>1, <2>6 DEF Alarm, due
<1> QED
  BY <1>8, <1>9

LEMMA TickAlarm == ASSUME TypeOK, TypeOK', AlarmInv, Tick PROVE AlarmInv'
<1>1. UNCHANGED <<api, cache, pass, queued, timer>> /\ now' = now + 1
  BY DEF Tick
<1>2. now \in Window..MaxTime /\ now' \in Window..MaxTime /\ timer \in Nat
  BY DEF TypeOK
<1>3. ASSUME cache.bs # Absent, Alarm(cache.bs) PROVE Alarm(cache.bs)'
  <2> DEFINE a == NextFire(Reference(now, cache.bs.last))
             b == NextFire(Reference(now', cache.bs.last))
  <2>1. cache.bs.last \in Fires \union {0} /\ cache.bs.last \in 0..MaxTime
    BY <1>3, CachedLast, Numbers
  <2>2. a <= b
    BY <1>1, <1>2, <2>1, DeadlineGrows, Numbers
  <2>3. Reference(now, cache.bs.last) \in 0..MaxTime
        /\ Reference(now', cache.bs.last) \in 0..MaxTime
    BY <1>2, <2>1, ReferenceType
  <2>4. a \in Nat /\ b \in Nat
    BY <2>3, NextFireIsNext, Numbers
  <2>5. timer <= Max2(a, now + 1)
    BY <1>3 DEF Alarm
  <2> HIDE DEF a, b
  <2>6. timer <= Max2(b, now' + 1)
    BY <1>1, <1>2, <2>2, <2>4, <2>5, Numbers DEF Max2
  <2> QED
    BY <1>1, <2>6 DEF Alarm, b
<1> QED
  BY <1>1, <1>3 DEF AlarmInv, DecisionInv, Fire, Active, Unseen

LEMMA EditAlarm ==
  ASSUME TypeOK, AlarmInv,
         \/ \E f \in Fires : Progress(f)
         \/ UserStep
  PROVE  AlarmInv'
<1>1. UNCHANGED <<now, cache, pass, queued, timer>>
  BY DEF Progress, UserStep, CreateSchedule, EditSchedule, SetRetainForever, RemoveBackup, Edit
<1>2. ASSUME Unseen PROVE Unseen'
  <2>1. ASSUME NEW f \in Fires, Progress(f) \/ SetRetainForever(f) \/ RemoveBackup(f)
        PROVE  api'.bs = api.bs
    BY <2>1 DEF Progress, SetRetainForever, RemoveBackup, TypeOK, Objects
  <2>2. ASSUME NEW s \in ScheduleSpecs, EditSchedule(s)
        PROVE  api'.bs # Absent /\ UNCHANGED <<api.bs.last, api.bs.active, api.bs.parsed>>
    <3>1. api.bs \in Schedule
      BY <2>2 DEF EditSchedule, TypeOK, Objects
    <3>2. api'.bs = [api.bs EXCEPT !.spec = s]
      BY <2>2 DEF EditSchedule, TypeOK, Objects
    <3> QED
      BY <3>1, <3>2, AbsentAssumption DEF Schedule
  <2>3. ASSUME NEW s \in ScheduleSpecs PROVE ~CreateSchedule(s)
    BY <1>2 DEF Unseen, CreateSchedule
  <2> QED
    BY <1>1, <1>2, <2>1, <2>2, <2>3 DEF Unseen, UserStep
<1> QED
  BY <1>1, <1>2 DEF AlarmInv, DecisionInv, Fire, Active, Alarm

LEMMA SpawnFailsAlarm == ASSUME TypeOK, AlarmInv, SpawnFails PROVE AlarmInv'
<1>1. pass'.pc = "Idle" /\ UNCHANGED <<cache, now>> /\ timer' = Min2(timer, now + 1)
  BY IdleType DEF SpawnFails, RequeueAfter
<1>2. ASSUME cache.bs # Absent PROVE Alarm(cache.bs)'
  <2> DEFINE due == NextFire(Reference(now, cache.bs.last))
  <2>1. now \in Window..MaxTime /\ cache.bs.last \in 0..MaxTime
    BY <1>2, CachedLast, Numbers DEF TypeOK
  <2>2. Reference(now, cache.bs.last) \in 0..MaxTime
    BY <2>1, ReferenceType
  <2>3. due \in Nat /\ timer \in Nat /\ now \in Nat
    BY <2>1, <2>2, NextFireIsNext, Numbers DEF TypeOK
  <2> HIDE DEF due
  <2>4. timer' <= Max2(due, now + 1)
    BY <1>1, <2>3 DEF Min2, Max2
  <2> QED
    BY <1>1, <2>4 DEF Alarm, due
<1> QED
  BY <1>1, <1>2 DEF AlarmInv, DecisionInv, Active

LEMMA QuietStepAlarm ==
  ASSUME TypeOK, TypeOK', AlarmInv,
         \/ ListExcess \/ DeleteExcess \/ TimerFires \/ SyncSchedule \/ SyncBackups
         \/ DeleteFails \/ StatusUpdateFails \/ Restart
  PROVE  AlarmInv'
<1>1. CASE ListExcess \/ DeleteExcess \/ DeleteFails
  <2>1. UNCHANGED <<now, cache, timer, queued>> /\ api'.bs = api.bs
    BY <1>1 DEF ListExcess, DeleteExcess, DeleteFails, TypeOK, Objects
  <2>2. /\ pass.pc \in {"List", "Retain"} /\ pass'.pc = "Retain"
        /\ UNCHANGED <<pass.read, pass.now, pass.last>>
    BY <1>1 DEF ListExcess, Excess, DeleteExcess, DeleteFails, TypeOK, Passes
  <2> QED
    BY <2>1, <2>2, QuietAlarm
<1>2. CASE TimerFires \/ SyncSchedule \/ SyncBackups
  BY <1>2 DEF TimerFires, SyncSchedule, SyncBackups, AlarmInv, DecisionInv, Fire
<1>3. CASE StatusUpdateFails \/ Restart
  BY <1>3, IdleType DEF StatusUpdateFails, Restart, Retry, AlarmInv, DecisionInv
<1> QED
  BY <1>1, <1>2, <1>3

\* The alarm is set whenever nothing else is about to wake the schedule up.
THEOREM AlarmInvariant == Spec => []AlarmInv
<1>1. Init => AlarmInv
  BY IdleType DEF Init, AlarmInv, DecisionInv, Active
<1>2. TypeOK /\ TypeOK' /\ AlarmInv /\ [Next]_vars => AlarmInv'
  <2> SUFFICES ASSUME TypeOK, TypeOK', AlarmInv, [Next]_vars PROVE AlarmInv'
    OBVIOUS
  <2>1. CASE UNCHANGED vars
    BY <2>1 DEF vars, AlarmInv, DecisionInv, Fire, Active, Alarm, Unseen
  <2> QED
    BY <2>1, BeginAlarm, InvalidScheduleAlarm, DecisionAlarm, RefreshAlarm, TickAlarm,
       EditAlarm, SpawnFailsAlarm, QuietStepAlarm
    DEF Next, PassStep, FaultStep
<1> QED
  BY <1>1, <1>2, TypeCorrect, PTL DEF Spec

\* No schedule is left waiting past its next fire, whatever the passes before
\* read, wrote or failed to write.
THEOREM FiresAreAwaited == Spec => []FireAwaited
<1>1. AlarmInv => FireAwaited
  BY DEF AlarmInv, FireAwaited, Active, Enabled, Unseen, Alarm
<1> QED
  BY <1>1, AlarmInvariant, PTL
=============================================================================
