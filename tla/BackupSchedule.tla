--------------------------- MODULE BackupSchedule ---------------------------
(***************************************************************************)
(* The BackupSchedule reconciler (internal/controller/                     *)
(* backupschedule_controller.go) for one schedule from its creation on,    *)
(* with its child Backups, the clock, the users and the informer caches.   *)
(* A Backup's name is the fire time it was created for, so a fire and its  *)
(* Backup are the same number.  A time stands for the second it names:     *)
(* Backups created at the same time tie in CreationTimestamp.              *)
(*                                                                         *)
(* As in GameServerController, api is what the API server stores, cache    *)
(* what Get and List read, pass the reconcile in flight.  timer is the     *)
(* earliest pending RequeueAfter.                                          *)
(***************************************************************************)
EXTENDS Integers, FiniteSets

CONSTANTS
  FireTimes,       \* the instants the cron expression names
  Window,          \* how far back a missed fire is still made up for (24 h)
  DefaultKeep,     \* keep when the spec leaves it at zero (7)
  ScheduleSpecs,   \* BackupSchedule specs users apply
  Phases,          \* the phases a Backup may come to: InProgress, Ready, Failed
  Absent,          \* stands for an object that does not exist
  MaxTime,         \* the clock stops here; the last minute stands for all later ones
  MaxEdits,        \* bound on what users do
  MaxFaults        \* bound on API errors and restarts

VARIABLES now, api, cache, pass, queued, timer, edits, faults,
          made,    \* history: when the Backup of each fire was last created, 0 if never
          tied,    \* history: whether two creations ever fell on the same time
          removed  \* history: how many Backups users deleted

history == <<made, tied, removed>>

vars == <<now, api, cache, pass, queued, timer, edits, faults, history>>

Fires == {f \in FireTimes : f <= MaxTime}

Never == MaxTime + 100

\* The next fire after each minute exists; the clock starts a window after 0,
\* so that now - 24h is a minute too.
ASSUME TimeAssumption ==
  /\ MaxTime \in Nat /\ Window \in 1..MaxTime
  /\ FireTimes \subseteq Nat \ {0}
  /\ \A t \in 0..MaxTime :
       \E f \in FireTimes : t < f /\ \A g \in FireTimes : t < g => f <= g

ASSUME LimitsAssumption ==
  /\ Phases \subseteq {"InProgress", "Ready", "Failed"}
  /\ DefaultKeep \in Nat \ {0} /\ MaxEdits \in Nat /\ MaxFaults \in Nat
  /\ \A s \in ScheduleSpecs :
       s.keep \in Nat /\ s.suspend \in BOOLEAN /\ s.valid \in BOOLEAN

-----------------------------------------------------------------------------

Max2(a, b) == IF a > b THEN a ELSE b

Min2(a, b) == IF a < b THEN a ELSE b

\* cron's Schedule.Next
NextFire(t) ==
  CHOOSE f \in FireTimes : t < f /\ \A g \in FireTimes : t < g => f <= g

\* The more recent of lastScheduleTime and now - 24h.
Reference(t, last) == Max2(last, t - Window)

Keep(spec) == IF spec.keep <= 0 THEN DefaultKeep ELSE spec.keep

Backup == [created : 0..MaxTime, retain : BOOLEAN,
           phase : {"", "InProgress", "Ready", "Failed"}]

\* last is lastScheduleTime, active activeBackups, parsed the ScheduleValid
\* condition; lastSuccessfulTime and observedGeneration are left out.
Schedule == [spec : ScheduleSpecs, last : Fires \union {0}, active : SUBSET Fires,
             parsed : {"Unknown", "True", "False"}]

Backups == [Fires -> Backup \union {Absent}]

ASSUME AbsentAssumption == Absent \notin Schedule /\ Absent \notin Backup

Objects == [bs : Schedule \union {Absent}, backups : Backups]

\* What retention has to delete, with the creation times listed.
Todos == UNION {[F -> 0..MaxTime] : F \in SUBSET Fires}

Passes == [pc : {"Idle", "Spawn", "List", "Retain"}, now : 0..MaxTime,
           read : Schedule \union {Absent}, last : Fires \union {0},
           todo : Todos]

TypeOK ==
  /\ now \in Window..MaxTime
  /\ api \in Objects
  /\ cache \in Objects
  /\ pass \in Passes
  /\ pass.pc # "Idle" => pass.read \in Schedule /\ pass.now \in Window..now
  /\ queued \in BOOLEAN
  /\ timer \in Nat
  /\ edits \in 0..MaxEdits
  /\ faults \in 0..MaxFaults
  /\ made \in [Fires -> 0..MaxTime]
  /\ tied \in BOOLEAN
  /\ removed \in 0..edits

NoBackups == [f \in Fires |-> Absent]

Nothing == [f \in {} |-> 0]

Idle == [pc |-> "Idle", now |-> 0, read |-> Absent, last |-> 0, todo |-> Nothing]

Init ==
  /\ now = Window
  /\ api = [bs |-> Absent, backups |-> NoBackups]
  /\ cache = api
  /\ pass = Idle
  /\ queued = FALSE
  /\ timer = Never
  /\ edits = 0
  /\ faults = 0
  /\ made = [f \in Fires |-> 0]
  /\ tied = FALSE
  /\ removed = 0

-----------------------------------------------------------------------------
(* The reconcile pass *)

\* Mutant: the pass waits for the next event.
NoRequeue(d) ==
  /\ pass' = Idle
  /\ UNCHANGED <<timer, queued>>

\* RequeueAfter d: the workqueue keeps the earliest of the pending delays.
RequeueAfter(d) ==
  /\ pass' = Idle
  /\ timer' = Min2(timer, now + d)
  /\ UNCHANGED queued

\* An error return: retried with the rate limiter's delay.
Retry ==
  /\ pass' = Idle
  /\ queued' = TRUE
  /\ UNCHANGED timer

\* Status().Update is refused unless the schedule is still the one read.
Unchanged == api.bs = pass.read

\* Mutant: NotFound is not told from success.
BeginRegardless ==
  /\ pass.pc = "Idle"
  /\ queued
  /\ queued' = FALSE
  /\ pass' = [Idle EXCEPT !.pc = "Spawn", !.now = now, !.read = cache.bs,
                  !.last = IF cache.bs = Absent THEN 0 ELSE cache.bs.last]
  /\ UNCHANGED <<now, api, cache, timer, edits, faults, history>>

\* The clock is read, then the schedule.
Begin ==
  /\ pass.pc = "Idle"
  /\ queued
  /\ queued' = FALSE
  /\ pass' = IF cache.bs = Absent THEN Idle
             ELSE [Idle EXCEPT !.pc = "Spawn", !.now = now, !.read = cache.bs,
                               !.last = cache.bs.last]
  /\ UNCHANGED <<now, api, cache, timer, edits, faults, history>>

\* An unknown time zone or an unparsable cron expression: nothing else is done.
InvalidSchedule ==
  /\ pass.pc = "Spawn"
  /\ ~pass.read.spec.valid
  /\ IF Unchanged
       THEN /\ api' = [api EXCEPT !.bs = [api.bs EXCEPT !.parsed = "False"]]
            /\ RequeueAfter(5)
       ELSE UNCHANGED api /\ Retry
  /\ UNCHANGED <<now, cache, edits, faults, history>>

\* Mutant: the newest missed fire without a Backup first.
NewestMissingFire ==
  LET missed == {f \in Fires : /\ Reference(pass.now, pass.read.last) < f
                               /\ f <= pass.now /\ cache.backups[f] = Absent}
  IN IF missed = {} THEN NextFire(pass.now)
     ELSE CHOOSE f \in missed : \A g \in missed : g <= f

Fire == NextFire(Reference(pass.now, pass.read.last))

Due == ~pass.read.spec.suspend /\ Fire <= pass.now

NewBackup == [created |-> now, retain |-> FALSE, phase |-> ""]

\* spawnBackup's Create, which takes AlreadyExists for success.
CreateBackup ==
  IF api.backups[Fire] = Absent
    THEN /\ api' = [api EXCEPT !.backups[Fire] = NewBackup]
         /\ made' = [made EXCEPT ![Fire] = now]
         /\ tied' = (tied \/ \E f \in Fires : made[f] = now)
    ELSE UNCHANGED <<api, made, tied>>

Spawn ==
  /\ pass.pc = "Spawn"
  /\ pass.read.spec.valid
  /\ Due
  /\ CreateBackup
  /\ pass' = [pass EXCEPT !.last = Fire, !.pc = "List"]
  /\ UNCHANGED <<now, cache, queued, timer, edits, faults, removed>>

NotDue ==
  /\ pass.pc = "Spawn"
  /\ pass.read.spec.valid
  /\ ~Due
  /\ pass' = [pass EXCEPT !.pc = "List"]
  /\ UNCHANGED <<now, api, cache, queued, timer, edits, faults, history>>

Candidates(list) == {f \in Fires : list[f] # Absent /\ ~list[f].retain}

\* applyRetention lists from the cache and sorts newest first by creation time,
\* ties in any order; what comes after the first keep candidates is to go.
Excess(keep) ==
  LET list == cache.backups
      candidates == Candidates(list)
  IN \E kept \in SUBSET candidates :
       /\ Cardinality(kept) = Min2(keep, Cardinality(candidates))
       /\ \A k \in kept, d \in candidates \ kept : list[k].created >= list[d].created
       /\ pass' = [pass EXCEPT !.pc = "Retain",
                       !.todo = [f \in candidates \ kept |-> list[f].created]]

\* Mutant: off by one.
ListOneTooMany ==
  /\ pass.pc = "List"
  /\ Excess(Keep(pass.read.spec) - 1)
  /\ UNCHANGED <<now, api, cache, queued, timer, edits, faults, history>>

\* Mutant: retention only in a pass that created a Backup.
ListWhenServed ==
  /\ pass.pc = "List"
  /\ IF pass.last = pass.read.last THEN pass' = [pass EXCEPT !.pc = "Retain"]
     ELSE Excess(Keep(pass.read.spec))
  /\ UNCHANGED <<now, api, cache, queued, timer, edits, faults, history>>

ListExcess ==
  /\ pass.pc = "List"
  /\ Excess(Keep(pass.read.spec))
  /\ UNCHANGED <<now, api, cache, queued, timer, edits, faults, history>>

\* The rest is deleted, newest first, by name alone; NotFound is ignored.
DeleteExcess ==
  /\ pass.pc = "Retain"
  /\ \E f \in DOMAIN pass.todo :
       /\ \A g \in DOMAIN pass.todo : pass.todo[f] >= pass.todo[g]
       /\ api' = [api EXCEPT !.backups[f] = Absent]
       /\ pass' = [pass EXCEPT !.todo = [g \in DOMAIN @ \ {f} |-> @[g]]]
  /\ UNCHANGED <<now, cache, queued, timer, edits, faults, history>>

InProgress == {f \in Fires : cache.backups[f] # Absent /\ cache.backups[f].phase = "InProgress"}

\* Mutant: the list of the last status is added to.
ActiveBackupsAdded == pass.read.active \union InProgress

\* refreshChildStatus rebuilds the list.
ActiveBackups == InProgress

\* The final status update, requeued for the next fire but not before a minute
\* has passed.
RefreshStatus ==
  /\ pass.pc = "Retain"
  /\ pass.todo = Nothing
  /\ IF Unchanged
       THEN /\ api' = [api EXCEPT !.bs = [spec |-> api.bs.spec, last |-> pass.last,
                                          active |-> ActiveBackups,
                                          parsed |-> "True"]]
            /\ RequeueAfter(Max2(NextFire(pass.now) - now, 1))
       ELSE UNCHANGED api /\ Retry
  /\ UNCHANGED <<now, cache, edits, faults, history>>

PassStep ==
  \/ Begin
  \/ InvalidSchedule
  \/ Spawn
  \/ NotDue
  \/ ListExcess
  \/ DeleteExcess
  \/ RefreshStatus

-----------------------------------------------------------------------------
(* The clock, the workqueue's timer and the watches.  The schedule's events *)
(* and those of the Backups labelled with it enqueue it.                    *)

Tick ==
  /\ now < MaxTime
  /\ now' = now + 1
  /\ UNCHANGED <<api, cache, pass, queued, timer, edits, faults, history>>

TimerFires ==
  /\ timer # Never
  /\ timer <= now \/ now = MaxTime
  /\ timer' = Never
  /\ queued' = TRUE
  /\ UNCHANGED <<now, api, cache, pass, edits, faults, history>>

SyncSchedule ==
  /\ cache.bs # api.bs
  /\ cache' = [cache EXCEPT !.bs = api.bs]
  /\ queued' = TRUE
  /\ UNCHANGED <<now, api, pass, timer, edits, faults, history>>

SyncBackups ==
  /\ cache.backups # api.backups
  /\ cache' = [cache EXCEPT !.backups = api.backups]
  /\ queued' = TRUE
  /\ UNCHANGED <<now, api, pass, timer, edits, faults, history>>

-----------------------------------------------------------------------------
(* The Backup controller and the users *)

\* A Backup's snapshot is requested, then it becomes ready or fails.  Pending,
\* which counts as active too, is folded into InProgress; that a Backup may
\* leave Ready again is BackupController's subject.
Progress(f) ==
  /\ api.backups[f] # Absent
  /\ \E p \in Phases :
       /\ api.backups[f].phase = IF p = "InProgress" THEN "" ELSE "InProgress"
       /\ api' = [api EXCEPT !.backups[f].phase = p]
  /\ UNCHANGED <<now, cache, pass, queued, timer, edits, faults, history>>

\* The Backup controller's first pass over a new Backup reports a phase.
ReportPhase(f) == Progress(f) /\ api.backups[f].phase = ""

Edit ==
  /\ edits < MaxEdits
  /\ edits' = edits + 1
  /\ UNCHANGED <<now, cache, pass, queued, timer, faults, made, tied>>

CreateSchedule(s) ==
  /\ Edit
  /\ api.bs = Absent
  /\ api' = [api EXCEPT !.bs = [spec |-> s, last |-> 0, active |-> {},
                                parsed |-> "Unknown"]]
  /\ UNCHANGED removed

EditSchedule(s) ==
  /\ Edit
  /\ api.bs # Absent
  /\ api.bs.spec # s
  /\ api' = [api EXCEPT !.bs = [api.bs EXCEPT !.spec = s]]
  /\ UNCHANGED removed

SetRetainForever(f) ==
  /\ Edit
  /\ api.backups[f] # Absent
  /\ api' = [api EXCEPT !.backups[f].retain = ~@]
  /\ UNCHANGED removed

RemoveBackup(f) ==
  /\ Edit
  /\ api.backups[f] # Absent
  /\ api' = [api EXCEPT !.backups[f] = Absent]
  /\ removed' = removed + 1

UserStep ==
  \/ \E s \in ScheduleSpecs : CreateSchedule(s)
  \/ \E s \in ScheduleSpecs : EditSchedule(s)
  \/ \E f \in Fires : SetRetainForever(f)
  \/ \E f \in Fires : RemoveBackup(f)

-----------------------------------------------------------------------------
(* Faults *)

Fault == faults < MaxFaults /\ faults' = faults + 1

\* Mutant: the failure is logged and the pass goes on.
SpawnFailureIgnored ==
  /\ Fault
  /\ pass.pc = "Spawn"
  /\ pass.read.spec.valid
  /\ Due
  /\ pass' = [pass EXCEPT !.last = Fire, !.pc = "List"]
  /\ UNCHANGED <<now, api, cache, queued, timer, edits, history>>

\* Create fails, or succeeds with its answer lost: logged, requeued in 30 s.
SpawnFails ==
  /\ Fault
  /\ pass.pc = "Spawn"
  /\ pass.read.spec.valid
  /\ Due
  /\ \/ CreateBackup
     \/ UNCHANGED <<api, made, tied>>
  /\ RequeueAfter(1)
  /\ UNCHANGED <<now, cache, edits, removed>>

\* A Delete fails: retention stops where it is and the pass goes on.
DeleteFails ==
  /\ Fault
  /\ pass.pc = "Retain"
  /\ pass.todo # Nothing
  /\ pass' = [pass EXCEPT !.todo = Nothing]
  /\ UNCHANGED <<now, api, cache, queued, timer, edits, history>>

StatusUpdateFails ==
  /\ Fault
  /\ pass.pc = "Retain"
  /\ pass.todo = Nothing
  /\ Retry
  /\ UNCHANGED <<now, api, cache, edits, history>>

\* The manager restarts: pass and timers are lost, caches are listed afresh.
Restart ==
  /\ Fault
  /\ pass' = Idle
  /\ cache' = api
  /\ queued' = TRUE
  /\ timer' = Never
  /\ UNCHANGED <<now, api, edits, history>>

FaultStep == SpawnFails \/ DeleteFails \/ StatusUpdateFails \/ Restart

-----------------------------------------------------------------------------

Next ==
  \/ PassStep
  \/ Tick
  \/ TimerFires
  \/ SyncSchedule
  \/ SyncBackups
  \/ \E f \in Fires : Progress(f)
  \/ UserStep
  \/ FaultStep

Spec == Init /\ [][Next]_vars

\* The worker runs, timers fire, watches deliver, the clock advances, and a new
\* Backup gets a phase.  None needs to become Ready or Failed.
FairSpec ==
  /\ Spec
  /\ WF_vars(PassStep)
  /\ WF_vars(TimerFires)
  /\ WF_vars(SyncSchedule)
  /\ WF_vars(SyncBackups)
  /\ WF_vars(Tick)
  /\ \A f \in Fires : WF_vars(ReportPhase(f))

-----------------------------------------------------------------------------
(* Properties *)

Last == IF api.bs = Absent THEN 0 ELSE api.bs.last

\* The schedule's lastScheduleTime is a FireLog: whatever fails, lags or is
\* edited, fires are served in order, once due, none skipped within the window.
Log == INSTANCE FireLog WITH now <- now, last <- Last

ImplementsFireLog == Log!Spec

\* lastScheduleTime never names a fire for which no Backup was created, even if
\* the pass that created it failed, lost the answer or was cut off in between.
EveryFireBackedUp == Last # 0 => made[Last] # 0

\* Why both hold, as an inductive invariant: every lastScheduleTime in sight, in
\* the store, in the cache or in the pass, was backed up; and what the pass is
\* about to save is what it read or the fire due at the moment it began.
ScheduleInv ==
  /\ EveryFireBackedUp
  /\ (cache.bs # Absent /\ cache.bs.last # 0) => made[cache.bs.last] # 0
  /\ \A f \in Fires : api.backups[f] # Absent => made[f] # 0
  /\ pass.pc # "Idle" =>
       /\ pass.read.last # 0 => made[pass.read.last] # 0
       /\ pass.last # 0 => made[pass.last] # 0
       /\ \/ pass.last = pass.read.last
          \/ pass.last = Fire /\ Fire <= pass.now

\* A Backup for a fire that never had one is for a later fire than all before:
\* a stale lastScheduleTime makes the controller repeat a fire, not go back.
SpawnedInOrder ==
  [][\A f, g \in Fires : (made[f] = 0 /\ made'[f] # 0 /\ made[g] # 0) => g < f]_vars

Existing == {f \in Fires : api.backups[f] # Absent}

\* A pass deletes a child that still exists.
Deletes(f) ==
  /\ pass.pc = "Retain" /\ pass'.pc = "Retain" /\ removed' = removed
  /\ f \in Existing /\ f \notin Existing'

LeavesKeep(keep) == Cardinality(Existing') + removed >= keep

\* docs/backups.md: the schedule "retains the newest `keep` of them".  Only
\* those that users deleted themselves may be missing.
RetainsNewestKeep ==
  [][\A f \in Fires : Deletes(f) => LeavesKeep(Keep(pass.read.spec))]_vars

\* The least keep any spec asks for.
LeastKeep ==
  CHOOSE k \in {Keep(s) : s \in ScheduleSpecs} : \A s \in ScheduleSpecs : k <= Keep(s)

Made == {f \in Fires : made[f] # 0}

\* The fires after f for which a Backup was made.
Newer(f) == {g \in Made : f < g}

\* The newest fires made, LeastKeep of them.
Top == {f \in Made : Cardinality(Newer(f)) < LeastKeep}

\* As long as no two children ever shared a creation time, retention deletes none
\* of the newest ones, as many as the least keep any spec asked for, however
\* stale its lists and whatever fails: of these only those are missing that users
\* deleted.  (A keep just raised does not protect what a stale list no longer
\* shows, hence the least.  Whether one is retainForever makes no difference.)
RetainsKeepUntied ==
  [][\A f \in Fires : (Deletes(f) /\ ~tied) =>
       /\ Cardinality(Newer(f)) >= LeastKeep
       /\ Cardinality(Top \ Existing') <= removed]_vars

Enabled == api.bs # Absent /\ api.bs.spec.valid

Active(bs) == bs # Absent /\ bs.spec.valid /\ ~bs.spec.suspend

\* Every due fire of an active schedule is served in the end: no wake-up is
\* lost, though a pass serves one fire only and the requeue is for the next.
CaughtUp ==
  <>[](Active(api.bs) => NextFire(Reference(now, api.bs.last)) > now)

\* The safety half of it: a schedule that nothing is about to look at has its
\* alarm set, for its next fire or the next minute, whatever passes before the
\* last one read, wrote or failed to write.
FireAwaited ==
  (pass.pc = "Idle" /\ ~queued /\ cache.bs = api.bs /\ Active(api.bs))
    => timer <= Max2(NextFire(Reference(now, api.bs.last)), now + 1)

\* The children of an active schedule end up within keep, after failed deletes,
\* lags and edits too.
KeepReached ==
  <>[](Active(api.bs) => Cardinality(Candidates(api.backups)) <= Keep(api.bs.spec))

\* backupschedule_types.go: activeBackups "lists Backups this schedule owns that
\* are not yet in a terminal phase", once every Backup has reported a phase and
\* whatever becomes of it: finished ones leave the list, though a pass may have
\* read an older list and its status update may be refused.
ActiveSettles ==
  <>[](Enabled => api.bs.active =
         {f \in Existing : api.backups[f].phase \notin {"Ready", "Failed"}})

\* backupschedule_types.go: suspend "leaves existing ones untouched"; a pass that
\* knows the schedule as suspended deletes none.
SuspendedUntouched ==
  [][\A f \in Fires : Deletes(f) => ~pass.read.spec.suspend]_vars

\* backupschedule_types.go: "keep is the number of most-recent successful
\* Backups to retain": retention deletes a Ready Backup only with keep Ready
\* ones left.
KeepsSuccessful ==
  [][\A f \in Fires :
       (Deletes(f) /\ api.backups[f].phase = "Ready")
       => Cardinality({g \in Existing' : api.backups[g].phase = "Ready"})
            >= Keep(pass.read.spec)]_vars
=============================================================================
