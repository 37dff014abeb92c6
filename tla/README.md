# Gameserver-Operator in TLA+

The operator runs game servers on Kubernetes: four controllers (GameServer,
GameTemplate, Backup, BackupSchedule) in one manager process, each a
level-triggered reconcile function with one worker and a deduplicating
workqueue. They read from informer caches that lag behind the API server, write
to the API server, and are called again when a watched object changes, when a
timer they asked for ends, or when they returned an error. What is hard here is
not any one function but that loop: every read may be stale, every write may be
refused, lost half-way or based on an object that no longer exists, and nothing
is remembered between two passes except what is stored in the objects.

The modules model that loop for all four controllers, the pure functions between
specs and objects, the admission webhooks, and the two reconcilers that wait for each
other's objects in one composition. Model checking covers small instances; the type
invariants, every other safety invariant and every action property that the runs check
are also proved, for every value of the constants. What only model checking covers is
liveness.

## 1. Inventory

| Part | Source (`src/`) | State it keeps | Operations | Talks to |
|---|---|---|---|---|
| GameServer reconciler | `internal/controller/gameserver_controller.go` | status: phase, observedGeneration, conditions | fetch template, validate, service account, restore source, apply PVC / Deployment / Services, refresh status | its children through the API server; GameTemplates (watched), Backups and VolumeSnapshots (read, not watched) |
| Builders | `builders.go`, `security.go`, `snapshot_builders.go` (same directory) | none (pure) | BuildPVC, BuildDeployment, BuildServices, ValidateConfig, BuildVolumeSnapshot, ... | called by the reconcilers and the webhook |
| BackupSchedule reconciler | `backupschedule_controller.go` | lastScheduleTime, activeBackups, ScheduleValid | compute the due fire, create a Backup, retention, refresh status, requeue | Backups (owns, watches by label), the clock |
| Backup reconciler | `backup_controller.go` | phase, volumeSnapshotName, Ready | create a VolumeSnapshot, mirror it | VolumeSnapshot (owned, watched), GameServer (read, not watched) |
| GameTemplate reconciler | `gametemplate_controller.go` | serversRegistered, Available | count, save | GameServers (watched, mapped to their template) |
| Admission webhooks | `internal/webhook/v1alpha1` | none | validate and default GameServers and GameTemplates | the template of that moment |
| API types | `api/v1alpha1` | | phases, conditions, fields | |
| Manager | `cmd/main.go` | caches, workqueues | wiring | |

The components meet in stored objects only: a schedule's Backup is an object the
Backup reconciler picks up, a Ready Backup is what `restoreFrom` of a GameServer
looks at, a GameServer's `templateRef` decides which template counts it. Owner
references make the garbage collector part of the program: deletion of children
is never coded, only delegated.

What makes each part correct:

- **GameServer**: `observedGeneration` is true of what is deployed; a healthy phase
  is never that of an earlier success; the cluster converges to the specs after any
  history; a deleted server leaves nothing; a restore really restores.
- **BackupSchedule**: fires are served in order, none lost within 24 h, none
  recorded without a Backup; retention leaves the newest and gets down to `keep`;
  `activeBackups` settles at the Backups that have not finished.
- **Backup**: the phase settles at the state of a snapshot of its own; no snapshot
  outlives its Backup; a GameServer that restores from a usable snapshot gets its volume.
- **GameTemplate**: the count settles at the number of referring servers.
- **Builders, webhooks**: whatever was admitted against whichever template, in the end
  the pod has the environment, every port its Service, number and pin, and the status
  the address that the stored specs ask for; assigned NodePorts stay.

Hard behaviours: stale cached reads and two lookups of one object in a pass,
optimistic concurrency, partial application, re-creation under the same name,
the order of missed fires, ties in creation time, lost wake-ups (what is not
watched, what is not requeued), restarts between a write and the status that
records it. `PROJECT.json` lists them by line as hazards.

## 2. Modules

| Module | What it is |
|---|---|
| `GameServerController` | the GameServer reconciler for one name, its children, users, control plane, caches |
| `MCGameServer` | instances of it for TLC |
| `GameServerProofs`, `GameServerHealthProofs`, `GameServerRestProofs` | its theorems: types and `observedGeneration`; healthy phases; convergence at rest |
| `Builders` | the pure functions of `builders.go`, `mergeServicePorts`, and the webhooks' checks |
| `ServerChildren` | the GameServer reconciler again, for what its children contain: environment, Services with ports and NodePorts, address; users past admission, the API server's allocation of NodePorts |
| `MCServerChildren` | instances of it for TLC |
| `ServerChildrenProofs` | its theorems: what the builders compute, types, NodePorts, the children at rest |
| `FireLog` | abstract: what a schedule promises about its fires |
| `BackupSchedule` | the BackupSchedule reconciler for one schedule, its Backups, clock and timers; `Log` is the refinement to `FireLog` |
| `MCSchedule` | instances of it for TLC |
| `BackupScheduleProofs`, `BackupRetentionProofs` | its theorems: fires, their order, the refinement and the alarm; retention |
| `BackupController` | the Backup reconciler for one Backup name and its VolumeSnapshot |
| `Restore` | `BackupController` composed with the GameServer reconciler's side of a restore in place |
| `RestoreProofs` | the theorems of `BackupController` and `Restore`: types, and what either reconciler leaves at rest |
| `GameTemplateController`, `MCTemplate` | the GameTemplate reconciler for several templates sharing a worker |
| `GameTemplateProofs` | its theorems: types, counts at rest |

### How state corresponds

All controller modules have the same shape.

- `api` is what the API server stores. Optimistic concurrency (`resourceVersion`)
  is value equality of the copy read and the object stored: a change that was
  changed back in between is the same object to every property here.
- `cache` is what `r.Get` and `r.List` return: the manager's informer caches, by
  kind. A `Sync...` action delivers one kind's events and enqueues whatever
  `SetupWithManager` maps them to. Backups, read by the GameServer reconciler,
  are the one kind without a lag of its own: their events enqueue nothing, so
  `SetBackup` stands for the moment the cache sees the change.
- `pass` is the reconcile in flight: where it is (`pc`) and the locals it carries
  (`gs` read at its start, the template, the restore source, Services still to
  apply; for a schedule the clock it read, the fire, the list to delete).
- `queued` is membership in the workqueue, which deduplicates. For a schedule the
  delay of `RequeueAfter` matters and is the variable `timer`; elsewhere a timed
  requeue is just "queued again".
- `edits` and `faults` count what users and failures have done, bounded by
  `MaxEdits` and `MaxFaults` (and together by `MaxSteps` in
  `GameServerController`). `edits` doubles as the source of fresh uids.
- `made`, `tied`, `removed` in `BackupSchedule` are history variables: no guard reads
  them.

### How actions correspond

A pass is split where another actor can get in between with an effect the code can
see: one action per helper of Reconcile. A helper's cached Get and its write are
one action, since an interleaving between the two is the same as one in which the
cache catches up later. Early returns are actions of their own
(`TemplateNotFound`, `ConfigInvalid`, `RestoreUnavailable`, `InvalidStorage`,
`DeploymentNotCached`, `InvalidSchedule`, `GameServerMissing`), each with its status
update, if it has one, and whether it asks for a requeue. A call that fails ends the
pass with a retry (`CallFails`); the exceptions are a Get of `resolveRestoreSource`, which
is reported like a missing Backup (`RestoreGetFails`), and the schedule's
(`SpawnFails`, `DeleteFails`). `Return` and `Report` are those endings. `map` in
`PROJECT.json` gives the lines of every definition.

Data is cut down to what decisions depend on: a config is accepted by a template or
not, a size, the server's own or else its template's default, parses or not (`SizeParses`,
evaluated by every pass on the specs it read), a Deployment is which specs its pod was built from, a
Backup's name is its fire time. `readyReplicas`, `lastSuccessfulTime` and template
generations are copies no decision reads.

Two modules look at the GameServer reconciler a second time. `ServerChildren` keeps
the data that `GameServerController` abstracts (config values, environment, ports,
NodePorts, address) and drops what it has (volume, phase, conditions, deletion):
`FetchTemplate`, `ApplyDeployment`, `ApplyServices` are the same places of the same
pass, and every early return that matters to this data is there. A pass carries
`applied`, the Services as the API server answered, because `PrimaryAddress` reads
those. The API server's part is external: `Acceptable` is its validation of a
Service, `Assigned` its allocation of free NodePorts. `ApplyServer` and
`ApplyTemplate` are guarded by what the webhooks let through; the GameServer webhook
reads templates from the manager's cache, not from the store. `Restore` extends
`BackupController` by the GameServer's volume and the part of its pass that touches
it; the two share `api` and `cache`, as they do in the manager.

Operators preceded by "Mutant:" are not part of the models. Each is a plausible bug,
substituted for the definition it varies to see that a property notices.

## 3. Runs

| Run | Module | Checks | Shows |
|---|---|---|---|
| `gs_safety` | MCGameServer | `TypeOK`, `ObservedInv`, `ObservedSpecApplied`, `HealthyPhaseIsBacked`, `RestIsConverged`, `ObservedNeverRegresses` | whatever is edited, stale or retried, status claims no more than was applied, and the reconciler does not rest short of it |
| `gs_live` | MCGameServer | `Converges`, `ChildrenCollected` | after the last edit the cluster settles at what the specs ask for, or at the condition that says why not |
| `gs_restore` | MCGameServer | `RestoreSeedsWorld` (violated) | finding 1 |
| `sched_safety` | MCSchedule | `TypeOK`, `ScheduleInv`, `EveryFireBackedUp`, `FireAwaited`, `ImplementsFireLog`, `SpawnedInOrder`, `RetainsKeepUntied` | fires in order, each backed up, the next one awaited; retention leaves the newest |
| `sched_live` | MCSchedule | `CaughtUp`, `KeepReached`, `ActiveSettles` | every due fire served; an active schedule gets down to `keep`; the list of active Backups comes to be right |
| `sched_suspended` | MCSchedule | `SuspendedUntouched` (violated) | finding 2 |
| `sched_keep` | MCSchedule | `KeepsSuccessful` (violated) | finding 3 |
| `sched_ties` | MCSchedule | `RetainsNewestKeep` (violated) | finding 4 |
| `restore` | Restore | `RestoreTypeOK`, `RestIsMirrored`, `RestIsRestored`, `PhaseSettles`, `SnapshotsCollected`, `RestoreSettles` | the Backup reports its own snapshot, and the two reconcilers do not wait for each other for good |
| `children` | MCServerChildren | `TypeOK`, `RestIsServed`, `ConfigReachesPod`, `ServicesSettle`, `AddressSettles`, `NodePortsKept` | the children come to contain what the specs ask for, and NodePorts stay |
| `children_exposure` | MCServerChildren | `ExposureReplaced` (violated) | finding 5 |
| `template` | MCTemplate | `TypeOK`, `RestIsCounted`, `CountSettles` | counts settle under moves |

The `RestIs...` invariants and `FireAwaited` are the safety halves of the liveness
properties: with nothing queued, nothing in flight and no event to come, the goal
is reached (or, for a schedule, an alarm set that is early enough). They are what a
lost wake-up would violate, and unlike the liveness properties they need no fairness and
can be proved. With fairness they give liveness only if every history comes to
rest, which is for TLC to check.

### Bounds

- *GameServer*: one name, one template name; three edits (four where restoring needs
  them); one fault besides in `gs_safety`, or instead of an edit in `gs_live`. Three
  edits are create / edit / delete, delete / re-create, create and two template changes. A pass works
  with at most one version of the server, the cache with another and the store with
  a third, so three versions are what a fourth would not add to. `Version2` of the
  template rejects the config, has another image and brings its own service account;
  `Oversized` has a default size that does not parse. `gs_safety` has three server specs
  (plain, suspended, with a bad size of its own) and all three templates, so a size goes
  bad and is repaired by edits of either object. `gs_live` has one server spec, with an
  exposure override, a restore and no size of its own, a template that is created,
  deleted and edited between `Version1` and `Oversized`, and a Backup that becomes ready
  or not; a server's spec is edited in `gs_safety` alone. There is one template name, so
  `RestIsConverged` for a server moved to another template is the theorem's, which has
  any number of them. In `gs_restore` nobody deletes a PVC by hand (`RestoreSpec`), so
  that the trace is the documented sequence.
- *BackupSchedule*: the window is two ticks and the clock runs to 4 (3 in `sched_live`); `FireTimes`
  lists the fires. Two (safety) are missed already when the clock starts, so that
  catch-up, a fire that leaves the window, and a fire in the future all
  occur. `keep` is 1, or the default (2) in the suspended spec
  of `sched_safety`; `sched_live` and `sched_suspended` have keep 1, active or suspended. In
  `sched_live` Backups become InProgress and some Ready, at any time or never. The last tick stands for
  all later times: timers still end then. Creation times are the ticks, so two
  Backups in a tick are the tie of `sched_ties`.
- *Backup and restore*: one name, starting with nothing, with a GameServer, or with a
  GameServer and a Backup just created; from there two edits (delete and re-apply the
  GameServer, or the Backup, or a snapshot deleted by hand) and one fault. That is
  the restore in place with something going wrong on the way; a third edit
  multiplies states without a new pair of waiting reconcilers.
- *Children*: one server with a game and a console port. Two edits of the server,
  the template, a Service or the load balancer, or failed calls. `Version2` of the template
  swaps the ports, changes the number of one, the exposure of the other, thereby which is
  primary, and drops a key and a default; `Pinned` and `Moved` pin NodePort 1 to either
  port, `Slotted` sets a key that only `Version1` knows; `Clashing` is a template
  admission refuses. Three NodePorts, so that a pin can be taken by an assigned one and there
  is still a free one: with the range used up nothing could settle.
- *GameTemplate*: two templates, two servers, four edits, one fault: enough to move a
  server while its old and new template are counted.

`CHECK_DEADLOCK FALSE` is in every configuration because the system may come to rest:
with edits and faults used up and everything reconciled there is nothing to do.

### Fairness

Liveness assumes weak fairness of

- the worker (`PassStep`): the workqueue is FIFO and one worker per controller runs
  it; with several keys (`GameTemplateController`) each key is taken in turn, hence
  strong fairness of `Reconcile(t)`;
- every watch (`Sync...`): informers deliver, and relist after a broken connection;
- the garbage collector, the Deployment controller and the kubelet in
  `GameServerController`; the garbage collector in `Restore`;
- clock and timers in `BackupSchedule`, and `ReportPhase`: a new Backup gets a phase at
  some time. That is the Backup reconciler's promise, checked as `PhaseSettles`; until
  it is kept `refreshChildStatus` does not list the Backup.

Nothing is assumed of users, faults, the snapshot controller (a snapshot may stay
pending for ever), load balancers or, its first phase apart, a Backup's progress. Every liveness run includes a failed call
or a restart; in `gs_live` it takes the place of the third edit.

In `Restore` each watch is fair on its own. With fairness of "some watch" only, a
pass that works on a stale Backup and the collector keep re-creating and deleting a
snapshot, the snapshot's watch has something to deliver every time, and the
Backup's deletion is never seen. In `ServerChildren` only the worker writes what
is watched, so fairness of the watches together is enough.

Four properties show what the code relies on. `FireAwaited`: a pass serves one missed
fire and requeues for the next *future* one; the rest of a backlog is served only
because its own status update is an event. (`CaughtUp` would not notice that event's
loss, because at the last tick every timer ends at once; it is about fires after failed
creates and restarts.) `PhaseSettles`: GameServers are not
watched by the Backup reconciler, so a Backup that came first depends on its timed
requeue. `RestoreSettles`: deleting the GameServer makes its Ready Backups Pending,
the re-applied GameServer waits for Ready, neither watches the other, and both get out
of it by their timed requeues alone. `AddressSettles`: a Ready server is not requeued,
so a load balancer's late address depends on the watch of owned Services.

## 4. What is proved

Proofs hold for every value of the constants, from the named assumptions in the
modules:

- `AbsentAssumption`, `ClaimAssumption`: `Absent`, which stands for a missing object, is
  none of the objects.
- `SpecsAssumption`, `LimitsAssumption`, `BoundsAssumption`: the constants have their
  types. In `ServerChildren` these are the types of the CRD schemas: a template has at
  least one port, protocol, exposure and type are of their enumerations, defaults are
  filled in. Names may be equal, pins out of range, several ports be primary: what
  admission excludes is not assumed.
- `TimeAssumption`: the clock is a number and a next fire exists after each minute.

The bounds `MaxEdits`, `MaxFaults`, `MaxSteps` and `MaxTime` are arbitrary naturals.

| Theorem | Module | Says |
|---|---|---|
| `TypeCorrect` | GameServerProofs | `Spec => []TypeOK` |
| `ObservedInvariant` | GameServerProofs | `Spec => []ObservedInv` |
| `ObservedSpecIsApplied` | GameServerProofs | `Spec => []ObservedSpecApplied` |
| `ObservedMonotonic` | GameServerProofs | `Spec => ObservedNeverRegresses` |
| `HealthyPhaseBacked` | GameServerHealthProofs | `Spec => []HealthyPhaseIsBacked` |
| `RestInvariant` | GameServerRestProofs | `Spec => []RestInv` |
| `ConvergedAtRest` | GameServerRestProofs | `Spec => []RestIsConverged` |
| `TypeCorrect` | ServerChildrenProofs | `Spec => []TypeOK` |
| `AllocationInvariant` | ServerChildrenProofs | `Spec => []AllocationInv` |
| `NodePortsAreKept` | ServerChildrenProofs | `Spec => NodePortsKept` |
| `ServedInvariant` | ServerChildrenProofs | `Spec => []ServedInv` |
| `ServedAtRest` | ServerChildrenProofs | `Spec => []RestIsServed` |
| `BackupTypeCorrect` | RestoreProofs | `BackupController`: `Spec => []TypeOK` |
| `RestoreTypeCorrect` | RestoreProofs | `RestoreSpec => []RestoreTypeOK` |
| `MirrorInvariant`, `MirroredAtRest` | RestoreProofs | `Spec => []MirrorInv`, `Spec => []RestIsMirrored` |
| `RestoreInvariant`, `RestoredAtRest` | RestoreProofs | `RestoreSpec => []RestoreInv`, `RestoreSpec => []RestIsRestored` |
| `MirroredBesideRestore` | RestoreProofs | `RestoreSpec => []RestIsMirrored` |
| `TypeCorrect` | BackupScheduleProofs | `Spec => []TypeOK` |
| `ScheduleInvariant` | BackupScheduleProofs | `Spec => []ScheduleInv` |
| `FiresAreBackedUp` | BackupScheduleProofs | `Spec => []EveryFireBackedUp` |
| `FireLogImplemented` | BackupScheduleProofs | `Spec => Log!Spec` |
| `OrderInvariant`, `SpawnsInOrder` | BackupScheduleProofs | `Spec => []OrderInv`, `Spec => SpawnedInOrder` |
| `AlarmInvariant`, `FiresAreAwaited` | BackupScheduleProofs | `Spec => []AlarmInv`, `Spec => []FireAwaited` |
| `RetentionInvariant`, `KeepIsRetained` | BackupRetentionProofs | `Spec => []RetentionInv`, `Spec => RetainsKeepUntied` |
| `TypeCorrect` | GameTemplateProofs | `Spec => []TypeOK` |
| `WakeInvariant`, `CountsAtRest` | GameTemplateProofs | `Spec => []WakeInv`, `Spec => []RestIsCounted` |

**observedGeneration.** `ObservedSpecApplied` (a status that has observed the current
generation never stands beside a Deployment built from another spec) is not
inductive: a pass that read an older server could overwrite the Deployment
afterwards. `ObservedInv` says why none is left. The cache is never ahead of the store; if a
pass works on the stored generation, then the cache has caught up with it, because
passes read from the cache and the cache only moves forward; so once that pass has
stored `observedGeneration`, every later pass reads the same spec, and the one in
flight is the only one (one worker). Past `ApplyDeployment` the Deployment is the one
this pass wants. That a re-created server has a fresh uid and that `updateStatus`
is refused when the object changed carry the remaining cases. The argument needs
`MaxConcurrentReconciles` of one per key, which controller-runtime guarantees.

**Healthy phases.** `HealthyPhaseIsBacked` says that a Ready, Provisioning or Stopped
phase of the current generation stands beside conditions that accept template and
config, and that the Ready condition is True just for phase Ready. It is not inductive
because of `InvalidStorage`, the one error path that withdraws a condition and leaves
the phase, and observedGeneration with it. The size is the server's or, when it has
none, the template's default, which an edit of the template changes under a generation
already observed; so `ConfigValid` is excepted for a server without a size of its own.
For a server that has one `HealthInv` shows that this path never speaks of an observed
generation: `observedGeneration` is set only by passes that came past `ApplyPVC`, so
with a size that is not bad (`PassSized`), and a generation has one spec (`Backed`).
Every other error path takes the healthy phase away (`ReportBacked`), and the final
status sets phase and conditions together.

**No wake-up lost.** The theorems `...AtRest` share an argument. "At rest all is well" is
not inductive, as it says nothing of the states in between. The invariants `RestInv`,
`ServedInv`, `MirrorInv`, `RestoreInv` and `WakeInv` say what has to hold whenever the key is
*not* queued, that is when no event will repeat what the worker does:

- a pass in flight works on what is cached *now* (`PassCurrent`), for any event since it
  began would have queued the key; hence it carries no stale server and no template
  that was replaced meanwhile;
- what it has applied so far is as its specs ask for, or a later change of it is still
  to be delivered, which will queue the key;
- between passes, what the last one left fits what is cached, or the status it stored is
  the event to come. That event cannot be taken back by a further change, because no
  write brings the stored object back to the cached one (`BackupFresh`, `ServerFresh`, `Fresh`
  with uids and generations that only grow).

A step that leaves the key queued needs no proof; every early return that does not
requeue needs one, as does every change by users, the collector or the API server that no watch
reports. With caches equal to the store, "still to be delivered" is impossible and
the goal is left. For the GameServer this needs that every child has an owner (`Owned`: one that
belongs to a deleted server is collected, one without owner would stay). In `Restore` each
reconciler has its own invariant; neither uses the other's, which is why the two cannot
wait for each other at rest. In `RestInv` a Ready phase is what ends the requeueing; a pass that
ends at an invalid size, the server's or its template's default, is the exception `Settled`
names: it ends with ConfigValid False and without requeue, and the edit that repairs
either object is an event.

**NodePorts.** `NodePortsKept` is about a single step, but true only of what earlier steps
left: if two stored ports had one name, or a port of a NodePort Service had no NodePort,
merging could hand out the wrong one. `AllocationInv` excludes both and says that the
pass in `ApplyServices` applies the ports of the very specs it read. Then: a built port
has a NodePort only from an override (`PinsAreOverrides`); merging keeps names, pins and
the NodePort of the one existing port of that name (`MergeKeeps`); the API server adds
NodePorts only where there are none (`AssignedKeeps`). A NodePort that differs after the
update (`UpdatedKeeps`) is therefore a pin. Admission is not used.

**Children.** `ServedAtRest` is about contents, so it needs what the builders compute for
every input. `ServicesBuilt` (each port is in the list of its exposure, no list has
another, each exposure in use is in the order) is about the fold in `BuildServices`:
`FoldExists` and `BuiltStepwise` give the function that the fold steps through, and
`Reaches` is induction on numbers as a statement about sets, from the least
counterexample. `EnvDelivers` says what `ResolveEnv` makes of a
key, for templates that admission lets through: without that, two keys could share a
variable. `ServedInv` is the invariant described above, with the address: read from
`pass.applied`, it is that of the cached Service unless an update of its ports is on its
way; whether the load balancer has an address is read from the same object. A refused
pin needs no exception here, unlike in `ServicesSettle`: the refusal is requeued, so
the key does not come to rest.

**Fires.** `EveryFireBackedUp` needs that every `lastScheduleTime` in sight, in the
store, the cache or the pass, was backed up: a stale one is compared
and saved again. `ScheduleInv` adds that what a pass is about to save is what it read
or the fire that was due when it began. The refinement to `FireLog` follows: only
`RefreshStatus` changes `lastScheduleTime`, it is refused unless the schedule is
still the one read, and `FireLog!Serve` is witnessed by the moment the pass began.
All other actions stutter, but for `Tick`.

**Order.** `SpawnedInOrder` compares a new Backup with all before it. `OrderInv` orders the
times the fires are counted from (pass, then cache, then store, each no later than the
next) and says that, seen from the cached time, or from that of a pass about to spawn, no
fire earlier than one made is still open (`NoneOpen`: it is served or beyond the window).
What is spawned next is the first open fire, so it was made before or comes after all
that were.

**Alarm.** `FireAwaited`: `AlarmInv` has the shape of the wake-up invariants, with the timer
in place of the queue. A pass that ends without one sets the timer to the
next fire of what it read; the clock may only have moved towards it. The case that
makes it interesting is the backlog: a pass that served one fire sets its timer for
the next future one, past those still missed, and is right only because the status it stores differs
from the cached one (`Unseen`), an event that no edit of the spec can take back.

**Retention.** `RetainsKeepUntied` fails if a pass deletes from a list that lacks new Backups
and another from a list that shows deleted ones. It says that what retention deletes has
at least `LeastKeep` *newer ones made* (`LeastKeep` is the least `keep` any spec asks
for: a keep just raised does not bring back what a stale list no longer shows), and that
of `Top`, the newest `LeastKeep` made, only as many are missing as users removed.
`RetentionInv` says so of every list to delete while no two Backups share a creation time,
whether the newer ones are listed or still exist; so no delay adds up. `retainForever` plays no
part: such a Backup is not deleted, and counts among the newer ones like any other.
Creation times follow fires (`CreatedInOrder`), by `OrderInv`. The rest is counting
finite sets.

**Composition.** `RestoreTypeCorrect` and `MirroredBesideRestore` are by the step lemmas of
`BackupTypeCorrect` and `MirrorInvariant`: every step of `RestoreNext` is a step of the Backup
side, or leaves its variables alone.

**Model-checked only:** liveness under fairness (`Converges`, `ChildrenCollected`, `CaughtUp`,
`KeepReached`, `ActiveSettles`, `PhaseSettles`, `SnapshotsCollected`, `RestoreSettles`,
`ConfigReachesPod`, `ServicesSettle`, `AddressSettles`, `CountSettles`), which TLAPS does not
reach, nor ENABLED; and that the five findings are reached. What is proved of them is that
the system does not stop short of the goal; that it stops is checked on the instances.

## 5. Findings

1. **Restore in place may come up empty** (`gs_restore`). `resolveRestoreSource` sees
   the PVC of the deleted GameServer in the cache and resolves to no snapshot;
   `applyPVC` looks again, finds it gone and creates an empty one, and from then on
   `restoreFrom` is inert. This is the sequence docs/backups.md recommends.
2. **A suspended schedule still deletes** (`sched_suspended`). Retention does not look at
   `suspend`: a pass over a suspended schedule deletes what is past `keep`, left over from
   before or made so by lowering `keep`. The field's comment says "leaves existing ones
   untouched", docs/backups.md "existing backups stay". `KeepReached`
   is therefore about active schedules.
3. **keep counts failed Backups** (`sched_keep`), the field's comment says
   "successful".
4. **Ties in creation time** (`sched_ties`). Backups made in the same second while
   catching up have no order; with a stale list two passes together may delete
   more than they should. `RetainsKeepUntied` shows that ties are the only way (besides
   an edit that raises `keep`, which cannot bring back what went under the old one).
5. **An overridden exposure does not replace the old one** (`children_exposure`), nor
   does one the template changes. The
   Service of the exposure a port had before is neither updated nor deleted once no
   port uses that exposure; it goes on exposing the port, NodePort included. The
   field's comment says "replaces".

Without a run of their own, but worth knowing:

- A Ready server whose template disappears, whose config becomes invalid or whose Backup is
  unavailable goes to Pending or Degraded (lines 70, 84, 109 of the GameServer
  reconciler) with its Ready condition still True, although gameserver_types.go:205 says
  the condition mirrors the phase. `HealthyPhaseIsBacked` says that the two agree in the
  healthy phases.
- A template edit to a default size that does not parse leaves a Ready server Ready, with
  its generation observed; ConfigValid False is all that tells (lines 120-124).
- A Ready Backup is shown as Pending while its GameServer does not exist, although its
  snapshot is ready. It recovers once the GameServer is back (`PhaseSettles`), and a
  restore in place gets through (`RestoreSettles`).
- A Backup whose VolumeSnapshot is deleted gets a new one, with what the volume holds by
  then, although the docs call a Backup one-shot. `PhaseSettles` describes the code.
- A Backup that has not got a phase yet is not in `activeBackups`, whose comment lists
  those not yet in a terminal phase; `ActiveSettles` is about the state after every
  Backup has one.

## 6. Not modelled, and why

- Of the pod: labels, probes, resources, security contexts. They are constant parts of a
  Deployment that is replaced as a whole; nothing reads them back.
- The order of environment variables and the host in an address: formatting.
- Services of an exposure no longer used are kept by the code and by the models;
  `Converges` and `ServicesSettle` speak of the Services asked for, finding 5 of the
  others.
- A leftover Service can hold a NodePort that is pinned elsewhere; `ServicesSettle`
  and `AddressSettles` except a pin that another port of the server holds (`PinTaken`).
- `GameServerController` lets users apply any spec, as webhooks are optional
  (`ENABLE_WEBHOOKS`); `ServerChildren` has them as the constant `Webhooks`.
- Whether a volume created from a snapshot can be bound (the snapshot may be deleted
  between the decision and the creation) is the storage driver's.
- Deletion with a deletionTimestamp (foreground, finalizers): background cascade is the
  default and the modelled one. Deleting a BackupSchedule: its Backups go by owner.
- A cron expression without a next fire yields Go's zero time; `TimeAssumption`
  excludes it.
- Generated deep copies, start-up wiring, manifests and tests.

## 7. Plan

Done: the four reconcilers, `FireLog`, the builders and webhooks, the composition of
Backup and GameServer reconcilers, and proofs for GameServer, its
children, BackupSchedule, Backup, their composition and GameTemplate. Next, in order:

1. The schedule in the composition: from a fire to a restored world, with retention
   deleting the Backup a GameServer waits for.
2. Deletion with a deletionTimestamp (foreground), and the zero time of a cron
   expression that never matches.
3. Abstract specifications for the others: a Backup as a mirror of its snapshot, a
   GameServer as the last applied spec, and refinements to them.
4. Proofs: a refinement to the specifications of 3; `ConfigReachesPod` and the like cut
   into a safety part and a measure that steps decrease, so that less of liveness rests
   on small instances.
