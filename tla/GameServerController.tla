------------------------ MODULE GameServerController ------------------------
(***************************************************************************)
(* The GameServer reconciler (internal/controller/gameserver_controller.go *)
(* with the builders it calls) for one GameServer name, next to the users, *)
(* the Kubernetes control plane and the informer caches it works against.  *)
(*                                                                         *)
(*   api    the objects in the API server: what writes act on              *)
(*   cache  the manager's informer caches: what every Get and List reads.  *)
(*          Each kind lags behind the API server on its own and catches up *)
(*          in a Sync action, whose event may enqueue the GameServer.      *)
(*   pass   the one reconcile pass in flight (one worker, one key)         *)
(*   queued whether the key waits in the workqueue; a timed requeue and a  *)
(*          rate-limited retry are both "queued", their delay is left out. *)
(*                                                                         *)
(* A step of the pass is one helper of Reconcile: its cached Get and its   *)
(* write are one action, because an interleaving between the two is one in *)
(* which the cache of that kind syncs later.  The API server's optimistic  *)
(* concurrency is value equality of the copy read and the object stored.   *)
(***************************************************************************)
EXTENDS Naturals

CONSTANTS
  Templates,      \* names of GameTemplates
  ServerSpecs,    \* GameServer specs users apply
  TemplateSpecs,  \* GameTemplate specs users apply
  BackupStates,   \* what may become of the Backup restoreFrom names
  Absent,         \* stands for an object that does not exist
  MaxEdits,       \* bound on what users and storage do to the objects
  MaxFaults,      \* bound on API errors, restarts and pod failures
  MaxSteps        \* bound on edits and faults together

VARIABLES api, cache, pass, queued, edits, faults

vars == <<api, cache, pass, queued, edits, faults>>

ExposureTypes == {"ClusterIP", "NodePort", "LoadBalancer"}
Conditions == {"TemplateResolved", "ConfigValid", "RestoreSourceResolved", "Ready"}
Phases == {"", "Pending", "Provisioning", "Ready", "Stopped", "Degraded"}
PassStates == {"Idle", "FetchTemplate", "EnsureServiceAccount",
               "ResolveRestoreSource", "ApplyPVC", "ApplyDeployment", "ApplyServices"}

-----------------------------------------------------------------------------
(* What the builders make of a server spec s and a template spec t.  Of the *)
(* user's input the model keeps what a decision depends on: a config is an  *)
(* opaque value the template accepts or not; a size is not given, parses or *)
(* does not.                                                                *)

\* resolveExposure: an instance's override wins over the template's exposure.
Exposure(s, t, p) == IF p \in DOMAIN s.override THEN s.override[p] ELSE t.ports[p]

\* BuildServices: the ports of t grouped by exposure; an empty group is no Service.
ServicePorts(s, t) ==
  [e \in ExposureTypes |-> {p \in DOMAIN t.ports : Exposure(s, t, p) = e}]

BuildServices(s, t) == {e \in ExposureTypes : ServicePorts(s, t)[e] # {}}

\* BuildDeployment: the part of a pod that depends on the two specs.
BuildDeployment(s, t) ==
  [replicas |-> IF s.suspend THEN 0 ELSE 1,
   config   |-> s.config,
   ref      |-> s.ref,
   image    |-> t.image]

\* The pod template d was built from server spec s (with some template).
BuiltFrom(d, s) ==
  /\ d.replicas = IF s.suspend THEN 0 ELSE 1
  /\ d.config = s.config
  /\ d.ref = s.ref

\* ValidateConfig: every key known, well typed, and the required ones present.
ValidateConfig(s, t) == s.config \in t.accepts

\* BuildPVC: the server's own size, else the template's default, else 10Gi.
SizeParses(s, t) == (IF s.size = "" THEN t.defaultSize ELSE s.size) # "bad"

-----------------------------------------------------------------------------
(* The objects.  A child's owner is the uid of the GameServer that created  *)
(* it (SetControllerReference), 0 for none.                                 *)

Status == [phase : Phases, observed : Nat,
           cond : [Conditions -> {"Unknown", "True", "False"}]]

Server == [uid : Nat, gen : Nat, spec : ServerSpecs, status : Status]

PodSpecs == {BuildDeployment(s, t) : s \in ServerSpecs, t \in TemplateSpecs}

Volume == [owner : Nat, label : Templates, source : {"none", "snapshot"}]

\* pod: what the running pod was built from; ready: status.readyReplicas >= 1.
Deployment == [owner : Nat, spec : PodSpecs, pod : PodSpecs \union {Absent},
               ready : BOOLEAN]

AllPorts == UNION {DOMAIN t.ports : t \in TemplateSpecs}

Service == [owner : Nat, ports : SUBSET AllPorts]

Maybe(S) == S \union {Absent}

ASSUME AbsentAssumption ==
  /\ Absent \notin Server
  /\ Absent \notin TemplateSpecs
  /\ Absent \notin Volume
  /\ Absent \notin Deployment
  /\ Absent \notin Service

ASSUME SpecsAssumption ==
  /\ \A s \in ServerSpecs : s.ref \in Templates
  /\ \A s \in ServerSpecs : s.restore \in BOOLEAN /\ s.size \in {"", "ok", "bad"}
  /\ \A t \in TemplateSpecs : t.defaultSize \in {"", "ok", "bad"}
  /\ BackupStates \subseteq {"Absent", "NotReady", "Ready"}

ASSUME BoundsAssumption == MaxEdits \in Nat /\ MaxFaults \in Nat /\ MaxSteps \in Nat

Views ==
  [gs : Maybe(Server), tpl : [Templates -> Maybe(TemplateSpecs)],
   pvc : Maybe(Volume), dep : Maybe(Deployment),
   svc : [ExposureTypes -> Maybe(Service)]]

Objects ==
  [gs : Maybe(Server), tpl : [Templates -> Maybe(TemplateSpecs)],
   pvc : Maybe(Volume), dep : Maybe(Deployment),
   svc : [ExposureTypes -> Maybe(Service)],
   account : BOOLEAN,                            \* the shared ServiceAccount
   backup : BackupStates]     \* restoreFrom's Backup, as cached

Passes ==
  [pc : PassStates, gs : Maybe(Server), tpl : Maybe(TemplateSpecs),
   source : {"none", "snapshot"}, todo : SUBSET ExposureTypes]

\* Every variable has its type: in particular a pass past FetchTemplate holds
\* a server, and one past TemplateResolved the template it resolved.
TypeOK ==
  /\ api \in Objects
  /\ cache \in Views
  /\ pass \in Passes
  /\ pass.pc # "Idle" => pass.gs \in Server
  /\ pass.pc \notin {"Idle", "FetchTemplate"} => pass.tpl \in TemplateSpecs
  /\ queued \in BOOLEAN
  /\ edits \in 0..MaxEdits
  /\ faults \in 0..MaxFaults

Idle == [pc |-> "Idle", gs |-> Absent, tpl |-> Absent, source |-> "none", todo |-> {}]

\* The operator starts in a namespace without GameServers; templates and the
\* Backup to restore from may be there already.
Init ==
  /\ api \in {[gs |-> Absent, tpl |-> tpl, pvc |-> Absent, dep |-> Absent,
              svc |-> [e \in ExposureTypes |-> Absent],
              account |-> FALSE, backup |-> backup] :
                tpl \in [Templates -> Maybe(TemplateSpecs)],
                backup \in BackupStates}
  /\ cache = [gs |-> api.gs, tpl |-> api.tpl, pvc |-> api.pvc, dep |-> api.dep,
              svc |-> api.svc]
  /\ pass = Idle
  /\ queued = FALSE
  /\ edits = 0
  /\ faults = 0

-----------------------------------------------------------------------------
(* The reconcile pass *)

\* The pass returns; with requeue (RequeueAfter or an error) it will run again.
Return(requeue) ==
  /\ pass' = Idle
  /\ queued' = (queued \/ requeue)
  /\ UNCHANGED <<cache, edits, faults>>

\* setCondition: the listed conditions become True and False, the rest stay.
SetConditions(cond, true, false) ==
  [c \in Conditions |-> IF c \in true THEN "True"
                        ELSE IF c \in false THEN "False" ELSE cond[c]]

\* Mutant: the status is written without a resourceVersion.
UnchangedByUid == api.gs # Absent /\ api.gs.uid = pass.gs.uid

\* updateStatus: refused unless the object is still the one the pass read.
Unchanged == api.gs = pass.gs

UpdateStatus(status) ==
  api' = IF Unchanged THEN [api EXCEPT !.gs = [@ EXCEPT !.status = status]]
                      ELSE api

Reported(phase, true, false) ==
  [phase |-> phase, observed |-> pass.gs.status.observed,
   cond |-> SetConditions(pass.gs.status.cond, true, false)]

\* Mutant: an unready dependency reports and waits for an event.
ReportWithoutRequeue(phase, true, false) ==
  /\ UpdateStatus(Reported(phase, true, false))
  /\ Return(FALSE)

\* An error return of Reconcile: a failed update leaves the phase, the
\* conditions True and False set, tries to save them and asks for a requeue.
Report(phase, true, false) ==
  /\ UpdateStatus(Reported(phase, true, false))
  /\ Return(TRUE)

\* Mutant: NotFound is not told apart from other results of the first Get.
ReconcileMissing ==
  /\ pass.pc = "Idle"
  /\ queued
  /\ queued' = FALSE
  /\ pass' = [Idle EXCEPT !.pc = "FetchTemplate", !.gs = cache.gs]
  /\ UNCHANGED <<api, cache, edits, faults>>

\* The worker takes the key and reads the GameServer; a deleted one is done.
Reconcile ==
  /\ pass.pc = "Idle"
  /\ queued
  /\ queued' = FALSE
  /\ pass' = IF cache.gs = Absent THEN Idle
             ELSE [Idle EXCEPT !.pc = "FetchTemplate", !.gs = cache.gs]
  /\ UNCHANGED <<api, cache, edits, faults>>

Template == cache.tpl[pass.gs.spec.ref]

\* Mutant: only the condition says that the template is gone.
TemplateNotFoundKeepsPhase ==
  /\ pass.pc = "FetchTemplate"
  /\ Template = Absent
  /\ Report(pass.gs.status.phase, {}, {"TemplateResolved"})

TemplateNotFound ==
  /\ pass.pc = "FetchTemplate"
  /\ Template = Absent
  /\ Report("Pending", {}, {"TemplateResolved"})

ConfigInvalid ==
  /\ pass.pc = "FetchTemplate"
  /\ Template # Absent
  /\ ~ValidateConfig(pass.gs.spec, Template)
  /\ Report("Degraded", {"TemplateResolved"}, {"ConfigValid"})

\* Template and config are fine; anyuid templates bring their own account.
TemplateResolved ==
  /\ pass.pc = "FetchTemplate"
  /\ Template # Absent
  /\ ValidateConfig(pass.gs.spec, Template)
  /\ pass' = [pass EXCEPT !.tpl = Template,
                          !.pc = IF Template.anyuid THEN "ResolveRestoreSource"
                                                    ELSE "EnsureServiceAccount"]
  /\ UNCHANGED <<api, cache, queued, edits, faults>>

EnsureServiceAccount ==
  /\ pass.pc = "EnsureServiceAccount"
  /\ api' = [api EXCEPT !.account = TRUE]
  /\ pass' = [pass EXCEPT !.pc = "ResolveRestoreSource"]
  /\ UNCHANGED <<cache, queued, edits, faults>>

\* resolveRestoreSource: restoreFrom matters only while there is no PVC.
Restoring == pass.gs.spec.restore /\ cache.pvc = Absent

RestoreUnavailable ==
  /\ pass.pc = "ResolveRestoreSource"
  /\ Restoring
  /\ api.backup # "Ready"
  /\ Report("Degraded", {"TemplateResolved", "ConfigValid"}, {"RestoreSourceResolved"})

ResolveRestoreSource ==
  /\ pass.pc = "ResolveRestoreSource"
  /\ Restoring => api.backup = "Ready"
  /\ pass' = [pass EXCEPT !.pc = "ApplyPVC",
                          !.source = IF Restoring THEN "snapshot" ELSE "none"]
  /\ UNCHANGED <<api, cache, queued, edits, faults>>

\* The conditions a pass that came past resolveRestoreSource reports as True.
Resolved ==
  {"TemplateResolved"} \union
  (IF pass.gs.spec.restore THEN {"RestoreSourceResolved"} ELSE {})

\* BuildPVC fails on an unparsable size: the phase stays, nothing is requeued
\* unless the status update fails.
InvalidStorage ==
  /\ pass.pc = "ApplyPVC"
  /\ ~SizeParses(pass.gs.spec, pass.tpl)
  /\ UpdateStatus([pass.gs.status EXCEPT
                     !.cond = SetConditions(@, Resolved, {"ConfigValid"})])
  /\ Return(~Unchanged)

\* Mutant: SetControllerReference forgotten for the PVC.
UnownedPVC == [owner |-> 0, label |-> pass.gs.spec.ref, source |-> pass.source]

NewPVC == [owner |-> pass.gs.uid, label |-> pass.gs.spec.ref, source |-> pass.source]

PVCDrifted == cache.pvc # Absent => cache.pvc.label # pass.gs.spec.ref

\* applyPVC: create, or relabel; the rest of an existing PVC is left alone.
ApplyPVC ==
  /\ pass.pc = "ApplyPVC"
  /\ SizeParses(pass.gs.spec, pass.tpl)
  /\ PVCDrifted => cache.pvc = api.pvc
  /\ api' = [api EXCEPT !.pvc = IF ~PVCDrifted THEN @
                                ELSE IF cache.pvc = Absent THEN NewPVC
                                ELSE [cache.pvc EXCEPT !.label = pass.gs.spec.ref]]
  /\ pass' = [pass EXCEPT !.pc = "ApplyDeployment"]
  /\ UNCHANGED <<cache, queued, edits, faults>>

\* applyDeployment: create, or replace the spec wholesale.  The owner and the
\* pods of an existing Deployment stay.
ApplyDeployment ==
  /\ pass.pc = "ApplyDeployment"
  /\ cache.dep = api.dep
  /\ LET spec == BuildDeployment(pass.gs.spec, pass.tpl)
     IN  api' = [api EXCEPT !.dep =
                   IF cache.dep = Absent
                   THEN [owner |-> pass.gs.uid, spec |-> spec, pod |-> Absent, ready |-> FALSE]
                   ELSE [cache.dep EXCEPT !.spec = spec]]
  /\ pass' = [pass EXCEPT !.pc = "ApplyServices",
                          !.todo = BuildServices(pass.gs.spec, pass.tpl)]
  /\ UNCHANGED <<cache, queued, edits, faults>>

DesiredPorts(e) == ServicePorts(pass.gs.spec, pass.tpl)[e]

\* applyService on a Service that exists: labels, type, selector, ports.
UpdateService(e) ==
  /\ pass.pc = "ApplyServices"
  /\ e \in pass.todo
  /\ cache.svc[e] = api.svc[e]
  /\ cache.svc[e] # Absent
  /\ api' = [api EXCEPT !.svc[e] = [cache.svc[e] EXCEPT !.ports = DesiredPorts(e)]]
  /\ pass' = [pass EXCEPT !.todo = @ \ {e}]
  /\ UNCHANGED <<cache, queued, edits, faults>>

\* applyService on a missing one: create it, then read it back from the cache,
\* which has caught up by then, or has not: the pass ends with NotFound.
CreateService(e) ==
  /\ pass.pc = "ApplyServices"
  /\ e \in pass.todo
  /\ cache.svc[e] = api.svc[e]
  /\ cache.svc[e] = Absent
  /\ api' = [api EXCEPT !.svc[e] = [owner |-> pass.gs.uid, ports |-> DesiredPorts(e)]]
  /\ \/ /\ cache' = [cache EXCEPT !.svc = api'.svc]
        /\ queued' = TRUE
        /\ pass' = [pass EXCEPT !.todo = @ \ {e}]
        /\ UNCHANGED <<edits, faults>>
     \/ Return(TRUE)

\* A write against a stale cache: AlreadyExists, NotFound or Conflict.
WriteRefused ==
  /\ \/ /\ pass.pc = "ApplyPVC" /\ SizeParses(pass.gs.spec, pass.tpl)
        /\ PVCDrifted /\ cache.pvc # api.pvc
     \/ pass.pc = "ApplyDeployment" /\ cache.dep # api.dep
     \/ pass.pc = "ApplyServices" /\ \E e \in pass.todo : cache.svc[e] # api.svc[e]
  /\ Return(TRUE)
  /\ UNCHANGED api

\* The Deployment just applied is read again; a lagging cache has none.
DeploymentNotCached ==
  /\ pass.pc = "ApplyServices"
  /\ pass.todo = {}
  /\ cache.dep = Absent
  /\ Return(TRUE)
  /\ UNCHANGED api

FinalPhase == IF pass.gs.spec.suspend THEN "Stopped"
              ELSE IF cache.dep.ready THEN "Ready" ELSE "Provisioning"

\* The status of a pass that applied everything.  An error of the update and
\* any phase but Ready ask for a requeue.
FinalStatus ==
  LET true == Resolved \union {"ConfigValid"}
  IN  [phase |-> FinalPhase,
       observed |-> pass.gs.gen,
       cond |-> IF FinalPhase = "Ready"
                THEN SetConditions(pass.gs.status.cond, true \union {"Ready"}, {})
                ELSE SetConditions(pass.gs.status.cond, true, {"Ready"})]

\* Mutant: the server is fetched again before its status is written.
RefreshStatusOfRefetched ==
  /\ pass.pc = "ApplyServices"
  /\ pass.todo = {}
  /\ cache.dep # Absent
  /\ cache.gs = api.gs /\ cache.gs # Absent
  /\ api' = [api EXCEPT !.gs = [@ EXCEPT !.status = [FinalStatus EXCEPT !.observed = cache.gs.gen]]]
  /\ Return(FinalPhase # "Ready")

RefreshStatus ==
  /\ pass.pc = "ApplyServices"
  /\ pass.todo = {}
  /\ cache.dep # Absent
  /\ UpdateStatus(FinalStatus)
  /\ Return(~Unchanged \/ FinalPhase # "Ready")

PassStep ==
  \/ Reconcile
  \/ TemplateNotFound
  \/ ConfigInvalid
  \/ TemplateResolved
  \/ EnsureServiceAccount
  \/ RestoreUnavailable
  \/ ResolveRestoreSource
  \/ InvalidStorage
  \/ ApplyPVC
  \/ ApplyDeployment
  \/ \E e \in ExposureTypes : UpdateService(e)
  \/ \E e \in ExposureTypes : CreateService(e)
  \/ WriteRefused
  \/ DeploymentNotCached
  \/ RefreshStatus

-----------------------------------------------------------------------------
(* Informers.  SetupWithManager: a GameServer's own events and those of its *)
(* Deployment, Services and PVC enqueue it; a template's events enqueue the *)
(* cached servers that reference it; a Backup's do not.                     *)

SyncServer ==
  /\ cache.gs # api.gs
  /\ cache' = [cache EXCEPT !.gs = api.gs]
  /\ queued' = TRUE
  /\ UNCHANGED <<api, pass, edits, faults>>

\* mapTemplateToServers
SyncTemplates ==
  /\ cache.tpl # api.tpl
  /\ cache' = [cache EXCEPT !.tpl = api.tpl]
  /\ queued' = \/ queued
               \/ /\ cache.gs # Absent
                  /\ cache.tpl[cache.gs.spec.ref] # api.tpl[cache.gs.spec.ref]
  /\ UNCHANGED <<api, pass, edits, faults>>

SyncPVC ==
  /\ cache.pvc # api.pvc
  /\ cache' = [cache EXCEPT !.pvc = api.pvc]
  /\ queued' = TRUE
  /\ UNCHANGED <<api, pass, edits, faults>>

SyncDeployment ==
  /\ cache.dep # api.dep
  /\ cache' = [cache EXCEPT !.dep = api.dep]
  /\ queued' = TRUE
  /\ UNCHANGED <<api, pass, edits, faults>>

SyncServices ==
  /\ cache.svc # api.svc
  /\ cache' = [cache EXCEPT !.svc = api.svc]
  /\ queued' = TRUE
  /\ UNCHANGED <<api, pass, edits, faults>>

SyncStep == SyncServer \/ SyncTemplates \/ SyncPVC \/ SyncDeployment \/ SyncServices

-----------------------------------------------------------------------------
(* The control plane: the garbage collector removes a child whose owner uid *)
(* is gone, the Deployment controller replaces pods, kubelets start them.   *)

\* A child disappears.  If its creation has not reached the cache yet, the two
\* events cancel out there, but they are still delivered.
Vanish(cached) ==
  /\ queued' = (queued \/ cached = Absent)
  /\ UNCHANGED <<cache, pass, faults>>

Dangling(o) ==
  /\ o # Absent
  /\ o.owner # 0
  /\ api.gs # Absent => api.gs.uid # o.owner

CollectPVC ==
  /\ Dangling(api.pvc)
  /\ api' = [api EXCEPT !.pvc = Absent]
  /\ Vanish(cache.pvc)
  /\ UNCHANGED edits

CollectDeployment ==
  /\ Dangling(api.dep)
  /\ api' = [api EXCEPT !.dep = Absent]
  /\ Vanish(cache.dep)
  /\ UNCHANGED edits

CollectService ==
  \E e \in ExposureTypes :
    /\ Dangling(api.svc[e])
    /\ api' = [api EXCEPT !.svc[e] = Absent]
    /\ Vanish(cache.svc[e])
    /\ UNCHANGED edits

\* The pod the Deployment's spec asks for.
Wanted(d) == IF d.spec.replicas = 0 THEN Absent ELSE d.spec

Rollout ==
  /\ api.dep # Absent
  /\ api.dep.pod # Wanted(api.dep)
  /\ api' = [api EXCEPT !.dep = [@ EXCEPT !.pod = Wanted(api.dep), !.ready = FALSE]]
  /\ UNCHANGED <<cache, pass, queued, edits, faults>>

\* A pod cannot start before its volume exists.
PodReady ==
  /\ api.dep # Absent
  /\ api.dep.pod # Absent
  /\ ~api.dep.ready
  /\ api.pvc # Absent
  /\ api' = [api EXCEPT !.dep = [@ EXCEPT !.ready = TRUE]]
  /\ UNCHANGED <<cache, pass, queued, edits, faults>>

ClusterStep ==
  CollectPVC \/ CollectDeployment \/ CollectService \/ Rollout \/ PodReady

-----------------------------------------------------------------------------
(* Users.  The webhooks are optional (ENABLE_WEBHOOKS), so any spec may be  *)
(* applied.  A recreated GameServer has a fresh uid.                        *)

CountEdit ==
  /\ edits < MaxEdits
  /\ edits + faults < MaxSteps
  /\ edits' = edits + 1

Edit == CountEdit /\ UNCHANGED <<cache, pass, queued, faults>>

NewStatus == [phase |-> "", observed |-> 0, cond |-> [c \in Conditions |-> "Unknown"]]

CreateServer(s) ==
  /\ Edit
  /\ api.gs = Absent
  /\ api' = [api EXCEPT !.gs = [uid |-> edits + 1, gen |-> 1, spec |-> s, status |-> NewStatus]]

EditServer(s) ==
  /\ Edit
  /\ api.gs # Absent
  /\ api.gs.spec # s
  /\ api' = [api EXCEPT !.gs = [api.gs EXCEPT !.gen = api.gs.gen + 1, !.spec = s]]

DeleteServer ==
  /\ Edit
  /\ api.gs # Absent
  /\ api' = [api EXCEPT !.gs = Absent]

\* A template is created, edited or deleted.
SetTemplate(t, spec) ==
  /\ Edit
  /\ api.tpl[t] # spec
  /\ api' = [api EXCEPT !.tpl[t] = spec]

\* The Backup restoreFrom names appears, becomes Ready, fails or is deleted.
SetBackup(b) ==
  /\ Edit
  /\ api.backup # b
  /\ api' = [api EXCEPT !.backup = b]

\* Somebody deletes a child behind the operator's back.
DeletePVC ==
  /\ CountEdit
  /\ api.pvc # Absent
  /\ api' = [api EXCEPT !.pvc = Absent]
  /\ Vanish(cache.pvc)

DeleteDeployment ==
  /\ CountEdit
  /\ api.dep # Absent
  /\ api' = [api EXCEPT !.dep = Absent]
  /\ Vanish(cache.dep)

UserStep ==
  \/ \E s \in ServerSpecs : CreateServer(s)
  \/ \E s \in ServerSpecs : EditServer(s)
  \/ DeleteServer
  \/ \E t \in Templates, spec \in Maybe(TemplateSpecs) : SetTemplate(t, spec)
  \/ \E b \in BackupStates : SetBackup(b)
  \/ DeletePVC
  \/ DeleteDeployment

-----------------------------------------------------------------------------
(* Faults *)

Fault ==
  /\ faults < MaxFaults
  /\ edits + faults < MaxSteps
  /\ faults' = faults + 1

\* A Get of resolveRestoreSource fails: reported like a missing Backup.
RestoreGetFails ==
  /\ pass.pc = "ResolveRestoreSource"
  /\ pass.gs.spec.restore
  /\ Fault
  /\ UpdateStatus(Reported("Degraded", {"TemplateResolved", "ConfigValid"},
                           {"RestoreSourceResolved"}))
  /\ pass' = Idle
  /\ queued' = TRUE
  /\ UNCHANGED <<cache, edits>>

\* Any other call of the pass may fail: the pass returns the error and is
\* retried, as it is after a report that could not be saved.
CallFails ==
  /\ pass.pc # "Idle"
  /\ Fault
  /\ pass' = Idle
  /\ queued' = TRUE
  /\ UNCHANGED <<api, cache, edits>>

\* The manager restarts: the pass is lost, caches are listed afresh and every
\* object listed is enqueued.
Restart ==
  /\ Fault
  /\ pass' = Idle
  /\ cache' = [gs |-> api.gs, tpl |-> api.tpl, pvc |-> api.pvc, dep |-> api.dep,
               svc |-> api.svc]
  /\ queued' = TRUE
  /\ UNCHANGED <<api, edits>>

PodFails ==
  /\ Fault
  /\ api.dep # Absent
  /\ api.dep.ready
  /\ api' = [api EXCEPT !.dep = [@ EXCEPT !.ready = FALSE]]
  /\ UNCHANGED <<cache, pass, queued, edits>>

FaultStep == RestoreGetFails \/ CallFails \/ Restart \/ PodFails

-----------------------------------------------------------------------------

Next == PassStep \/ SyncStep \/ ClusterStep \/ UserStep \/ FaultStep

Spec == Init /\ [][Next]_vars

\* The worker keeps running, every watch delivers, and so do the garbage
\* collector, the Deployment controller and the kubelet.  Users and faults
\* owe nothing.
Fairness ==
  /\ WF_vars(PassStep)
  /\ WF_vars(SyncServer)
  /\ WF_vars(SyncTemplates)
  /\ WF_vars(SyncPVC)
  /\ WF_vars(SyncDeployment)
  /\ WF_vars(SyncServices)
  /\ WF_vars(CollectPVC)
  /\ WF_vars(CollectDeployment)
  /\ WF_vars(CollectService)
  /\ WF_vars(Rollout)
  /\ WF_vars(PodReady)

FairSpec == Spec /\ Fairness
-----------------------------------------------------------------------------
(* Properties *)

\* observedGeneration is a promise: once status says the current generation was
\* observed, a Deployment that exists was built from the current spec, however
\* stale the caches, and whatever was recreated, retried or restarted meanwhile
\* (Reconcile reads the server once and reports what it read).
ObservedSpecApplied ==
  (api.gs # Absent /\ api.gs.status.observed = api.gs.gen /\ api.dep # Absent)
    => BuiltFrom(api.dep.spec, api.gs.spec)

\* Two copies of one generation of one server: only the status may differ.
Same(a, b) == a.uid = b.uid /\ a.gen = b.gen /\ a.spec = b.spec

Observed == api.gs # Absent /\ api.gs.status.observed = api.gs.gen

\* A copy o in a cache or a pass is an earlier version of what is stored.
Behind(o) ==
  o # Absent =>
    /\ o.uid <= edits
    /\ (api.gs # Absent /\ o.uid = api.gs.uid) =>
         /\ o.gen <= api.gs.gen
         /\ o.gen = api.gs.gen => o.spec = api.gs.spec

\* Why ObservedSpecApplied holds, as an inductive invariant.  Copies are never
\* ahead of the API server; the cache has caught up with the generation a pass
\* works on, and with the generation status claims was observed, so no later
\* pass works on an older one; and past ApplyDeployment the Deployment is the
\* one this pass wants.
ObservedInv ==
  /\ Behind(cache.gs)
  /\ Behind(pass.gs)
  /\ api.gs # Absent => api.gs.uid <= edits /\ api.gs.status.observed <= api.gs.gen
  /\ (pass.pc # "Idle" /\ api.gs # Absent /\ Same(pass.gs, api.gs)) =>
       cache.gs # Absent /\ Same(cache.gs, api.gs)
  /\ Observed =>
       /\ cache.gs # Absent /\ Same(cache.gs, api.gs)
       /\ pass.pc # "Idle" => Same(pass.gs, api.gs)
  /\ (pass.pc = "ApplyServices" /\ api.dep # Absent) =>
       BuiltFrom(api.dep.spec, pass.gs.spec)
  /\ ObservedSpecApplied

Healthy == {"Ready", "Provisioning", "Stopped"}

\* A phase that says the pass went through for the current generation stands
\* beside the conditions of that pass: the error paths of Reconcile leave no
\* phase of an earlier success behind.  There is one exception: a server without
\* a size of its own keeps its phase when the template's default no longer parses
\* (InvalidStorage), and ConfigValid alone tells.
HealthyPhaseIsBacked ==
  (/\ api.gs # Absent
   /\ api.gs.status.phase \in Healthy
   /\ api.gs.status.observed = api.gs.gen)
    => /\ api.gs.status.cond["TemplateResolved"] = "True"
       /\ api.gs.status.cond["ConfigValid"] = "True" \/ api.gs.spec.size = ""
       /\ (api.gs.status.cond["Ready"] = "True") <=> (api.gs.status.phase = "Ready")

\* No write takes observedGeneration of a living server back: a pass that read
\* an old copy is refused by updateStatus.
ObservedNeverRegresses ==
  [][(api.gs # Absent /\ api'.gs # Absent /\ api'.gs.uid = api.gs.uid)
       => api'.gs.status.observed >= api.gs.status.observed]_vars

\* Everything built from the specs is there and g's status says so.
Applied(g, t) ==
  /\ api.pvc # Absent /\ api.pvc.owner = g.uid /\ api.pvc.label = g.spec.ref
  /\ api.dep # Absent /\ api.dep.owner = g.uid
  /\ api.dep.spec = BuildDeployment(g.spec, t)
  /\ api.dep.pod = Wanted(api.dep)
  /\ \A e \in BuildServices(g.spec, t) :
       /\ api.svc[e] # Absent
       /\ api.svc[e].owner = g.uid
       /\ api.svc[e].ports = ServicePorts(g.spec, t)[e]
  /\ g.status.observed = g.gen
  /\ g.status.phase = IF g.spec.suspend THEN "Stopped" ELSE "Ready"

\* What one server's objects and status come to when nothing disturbs them.  A
\* report of a size that does not parse is not requeued, so it outlives what
\* becomes of the Backup later.
Converged(g, t) ==
  LET unavailable == g.spec.restore /\ api.pvc = Absent /\ api.backup # "Ready"
      degraded(c) == g.status.phase = "Degraded" /\ g.status.cond[c] = "False"
  IN  IF t = Absent
        THEN g.status.phase = "Pending" /\ g.status.cond["TemplateResolved"] = "False"
      ELSE IF ~ValidateConfig(g.spec, t)
        THEN degraded("ConfigValid")
      ELSE IF ~SizeParses(g.spec, t)
        THEN \/ g.status.cond["ConfigValid"] = "False"
             \/ unavailable /\ degraded("RestoreSourceResolved")
      ELSE IF unavailable
        THEN degraded("RestoreSourceResolved")
      ELSE Applied(g, t)

\* Level-triggered reconciliation: after the last edit and fault the cluster
\* settles at what the specs ask for, with no wake-up lost between a lagging
\* cache, a running pass and a watch that was never set up.
Converges ==
  <>[](api.gs # Absent => Converged(api.gs, api.tpl[api.gs.spec.ref]))

\* The safety half of it: whenever no pass is due or in flight, the caches are up
\* to date and the cluster has nothing left to do, a server is Ready with all
\* that its specs ask for, or its size, its own or the template's default, is
\* reported as unparsable; every other state still has a wake-up ahead.
RestIsConverged ==
  (/\ pass.pc = "Idle" /\ ~queued
   /\ \A kind \in DOMAIN cache : cache[kind] = api[kind]
   /\ \A o \in {api.pvc, api.dep} \union {api.svc[e] : e \in ExposureTypes} : ~Dangling(o)
   /\ api.dep # Absent => api.dep.pod = Wanted(api.dep))
    => IF api.gs = Absent
         THEN /\ api.pvc = Absent /\ api.dep = Absent
              /\ \A e \in ExposureTypes : api.svc[e] = Absent
       ELSE LET t == api.tpl[api.gs.spec.ref]
            IN  /\ t # Absent
                /\ ValidateConfig(api.gs.spec, t)
                /\ IF SizeParses(api.gs.spec, t) THEN Applied(api.gs, t)
                   ELSE api.gs.status.cond["ConfigValid"] = "False"

\* Everything a deleted GameServer owned is collected in the end, even what a
\* pass created from a stale copy after the deletion (SetControllerReference).
ChildrenCollected ==
  <>[](api.gs = Absent =>
         /\ api.pvc = Absent
         /\ api.dep = Absent
         /\ \A e \in ExposureTypes : api.svc[e] = Absent)

\* docs/backups.md: restoreFrom "seeds the new PVC from a Backup's
\* VolumeSnapshot on first creation".
RestoreSeedsWorld ==
  [][(api.pvc = Absent /\ api'.pvc # Absent /\ pass.gs.spec.restore)
       => api'.pvc.source = "snapshot"]_vars
=============================================================================
