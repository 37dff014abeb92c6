------------------------ MODULE GameServerRestProofs ------------------------
(* That the GameServer reconciler loses no wake-up: at rest, a server is what *)
(* its specs ask for.                                                         *)
EXTENDS GameServerProofs

Identified(g) == g # Absent => g.uid # 0

HasOwner(o) == o # Absent => o.owner # 0

\* Every child has an owner, so that one whose server is gone is collected.
Owned ==
  /\ Identified(api.gs) /\ Identified(cache.gs) /\ Identified(pass.gs)
  /\ HasOwner(api.pvc) /\ HasOwner(api.dep)
  /\ \A e \in ExposureTypes : HasOwner(api.svc[e])

\* What is left of the work of applyPVC, applyDeployment and applyService for
\* the server g and the template t: the child is as they left it, or its deletion
\* is still to be heard of.
PVCDone(g) ==
  \/ api.pvc # Absent /\ api.pvc.label = g.spec.ref
  \/ api.pvc # cache.pvc

DeploymentDone(g, t) ==
  \/ api.dep # Absent /\ api.dep.spec = BuildDeployment(g.spec, t)
  \/ api.dep = Absent /\ cache.dep # Absent

ServiceDone(g, t, e) ==
  \/ api.svc[e] # Absent /\ api.svc[e].ports = ServicePorts(g.spec, t)[e]
  \/ api.svc[e] = Absent /\ cache.svc[e] # Absent

StatusDone(g) ==
  /\ g.status.observed = g.gen
  /\ g.status.phase = "Ready"
  /\ ~g.spec.suspend

Settled(g, t) ==
  /\ t # Absent
  /\ ValidateConfig(g.spec, t)
  /\ IF SizeParses(g.spec, t)
     THEN /\ PVCDone(g)
          /\ DeploymentDone(g, t)
          /\ \A e \in BuildServices(g.spec, t) : ServiceDone(g, t, e)
          /\ StatusDone(g)
     ELSE g.status.cond["ConfigValid"] = "False"

\* A pass that no event will repeat works on what is cached, and what it has
\* applied so far is still there.
PassCurrent ==
  /\ pass.pc # "Idle" => pass.gs = cache.gs
  /\ pass.pc \notin {"Idle", "FetchTemplate"} =>
       /\ pass.tpl = cache.tpl[pass.gs.spec.ref]
       /\ ValidateConfig(pass.gs.spec, pass.tpl)
  /\ pass.pc \in {"ApplyDeployment", "ApplyServices"} =>
       SizeParses(pass.gs.spec, pass.tpl) /\ PVCDone(pass.gs)
  /\ pass.pc = "ApplyServices" =>
       /\ DeploymentDone(pass.gs, pass.tpl)
       /\ \A e \in BuildServices(pass.gs.spec, pass.tpl) \ pass.todo :
            ServiceDone(pass.gs, pass.tpl, e)

\* Between passes a cached server is settled, or its next version is on its way.
IdleSettled ==
  (pass.pc = "Idle" /\ cache.gs # Absent) =>
    \/ cache.gs # api.gs
    \/ Settled(cache.gs, cache.tpl[cache.gs.spec.ref])

RestInv == Owned /\ (~queued => PassCurrent /\ IdleSettled)
-----------------------------------------------------------------------------
(* Owners *)

\* A status update leaves the uid, and a refused one the server.
LEMMA UpdateOwned ==
  ASSUME TypeOK, Owned, pass.pc # "Idle", NEW status, UpdateStatus(status),
         pass' = Idle, UNCHANGED cache
  PROVE  Owned'
<1>1. Identified(api.gs)'
  <2>1. CASE Unchanged
    <3>1. api.gs \in Server
      BY <2>1 DEF Unchanged, TypeOK
    <3>2. api'.gs = [api.gs EXCEPT !.status = status]
      BY <2>1 DEF UpdateStatus, TypeOK, Objects
    <3>3. api'.gs.uid = api.gs.uid /\ api.gs # Absent
      BY <3>1, <3>2, AbsentAssumption DEF Server
    <3> QED
      BY <3>3 DEF Owned, Identified
  <2>2. CASE ~Unchanged
    BY <2>2 DEF UpdateStatus, Owned, Identified
  <2> QED
    BY <2>1, <2>2
<1>2. /\ api'.pvc = api.pvc /\ api'.dep = api.dep /\ api'.svc = api.svc
      /\ pass'.gs = Absent
  BY DEF UpdateStatus, TypeOK, Objects, Idle
<1> QED
  BY <1>1, <1>2 DEF Owned, Identified, HasOwner

LEMMA PassStepOwned == ASSUME TypeOK, Owned, PassStep PROVE Owned'
<1> USE DEF Identified, HasOwner
<1>1. /\ api \in Objects /\ cache \in Views /\ pass \in Passes
      /\ pass.pc # "Idle" => pass.gs \in Server /\ pass.gs.uid # 0
  BY AbsentAssumption DEF TypeOK, Owned
<1>2. CASE TemplateNotFound \/ ConfigInvalid \/ RestoreUnavailable \/ InvalidStorage
           \/ RefreshStatus
  <2>1. /\ pass.pc # "Idle" /\ pass' = Idle /\ UNCHANGED cache
        /\ \E status : UpdateStatus(status)
    BY <1>2 DEF TemplateNotFound, ConfigInvalid, RestoreUnavailable, InvalidStorage,
       RefreshStatus, Report, Return
  <2> QED
    BY <2>1, UpdateOwned
<1>3. CASE Reconcile \/ TemplateResolved \/ ResolveRestoreSource \/ WriteRefused
           \/ DeploymentNotCached
  <2>1. api' = api /\ cache' = cache
    BY <1>3 DEF Reconcile, TemplateResolved, ResolveRestoreSource, WriteRefused,
       DeploymentNotCached, Return
  <2>2. pass'.gs \in {pass.gs, cache.gs, Absent}
    <3>1. CASE Reconcile
      BY <3>1 DEF Reconcile, Idle
    <3>2. CASE TemplateResolved \/ ResolveRestoreSource
      BY <1>1, <3>2 DEF TemplateResolved, ResolveRestoreSource, Passes
    <3>3. CASE WriteRefused \/ DeploymentNotCached
      BY <3>3 DEF WriteRefused, DeploymentNotCached, Return, Idle
    <3> QED
      BY <1>3, <3>1, <3>2, <3>3
  <2> QED
    BY <2>1, <2>2 DEF Owned
<1>4. CASE EnsureServiceAccount
  BY <1>1, <1>4 DEF EnsureServiceAccount, Owned, Objects, Passes
<1>5. CASE ApplyPVC
  <2>1. api'.pvc \in {api.pvc, NewPVC, [cache.pvc EXCEPT !.label = pass.gs.spec.ref]}
    BY <1>1, <1>5 DEF ApplyPVC, Objects
  <2>2. api'.pvc = [cache.pvc EXCEPT !.label = pass.gs.spec.ref] =>
          api'.pvc = api.pvc \/ (cache.pvc = api.pvc /\ api.pvc \in Volume)
                             \/ api'.pvc = NewPVC
    BY <1>1, <1>5 DEF ApplyPVC, Objects, Views, Maybe
  <2>3. NewPVC.owner # 0
    BY <1>1, <1>5 DEF ApplyPVC, NewPVC
  <2>4. HasOwner(api.pvc)'
    BY <2>1, <2>2, <2>3, AbsentAssumption DEF Owned, Volume
  <2>5. /\ api'.gs = api.gs /\ api'.dep = api.dep /\ api'.svc = api.svc
        /\ pass'.gs = pass.gs /\ cache' = cache
    BY <1>1, <1>5 DEF ApplyPVC, Objects, Passes
  <2> QED
    BY <2>4, <2>5 DEF Owned
<1>6. CASE ApplyDeployment
  <2> DEFINE spec == BuildDeployment(pass.gs.spec, pass.tpl)
             new == [owner |-> pass.gs.uid, spec |-> spec, pod |-> Absent, ready |-> FALSE]
             applied == [cache.dep EXCEPT !.spec = spec]
  <2>1. new.owner # 0
    BY <1>1, <1>6 DEF ApplyDeployment
  <2>2. cache.dep # Absent => applied.owner # 0
    BY <1>1, <1>6 DEF ApplyDeployment, Owned, Objects, Deployment, Maybe
  <2>3. api'.dep = IF cache.dep = Absent THEN new ELSE applied
    BY <1>1, <1>6 DEF ApplyDeployment, Objects
  <2> HIDE DEF spec, new, applied
  <2>4. /\ api'.gs = api.gs /\ api'.pvc = api.pvc /\ api'.svc = api.svc
        /\ pass'.gs = pass.gs /\ cache' = cache
    BY <1>1, <1>6 DEF ApplyDeployment, Objects, Passes
  <2> QED
    BY <2>1, <2>2, <2>3, <2>4 DEF Owned
<1>7. ASSUME NEW e \in ExposureTypes, UpdateService(e) PROVE Owned'
  <2> DEFINE new == [cache.svc[e] EXCEPT !.ports = DesiredPorts(e)]
  <2>1. new.owner # 0
    BY <1>1, <1>7 DEF UpdateService, Owned, Objects, Service, Maybe
  <2>2. api' = [api EXCEPT !.svc[e] = new]
    BY <1>7 DEF UpdateService
  <2> HIDE DEF new
  <2>3. /\ api'.gs = api.gs /\ api'.pvc = api.pvc /\ api'.dep = api.dep
        /\ api'.svc[e] = new
        /\ \A x \in ExposureTypes \ {e} : api'.svc[x] = api.svc[x]
        /\ pass'.gs = pass.gs /\ cache' = cache
    BY <1>1, <1>7, <2>2 DEF UpdateService, Objects, Passes
  <2> QED
    BY <2>1, <2>3 DEF Owned
<1>8. ASSUME NEW e \in ExposureTypes, CreateService(e) PROVE Owned'
  <2> DEFINE new == [owner |-> pass.gs.uid, ports |-> DesiredPorts(e)]
  <2>1. new.owner # 0
    BY <1>1, <1>8 DEF CreateService
  <2>2. api' = [api EXCEPT !.svc[e] = new]
    BY <1>8 DEF CreateService
  <2> HIDE DEF new
  <2>3. /\ api'.gs = api.gs /\ api'.pvc = api.pvc /\ api'.dep = api.dep
        /\ api'.svc[e] = new
        /\ \A x \in ExposureTypes \ {e} : api'.svc[x] = api.svc[x]
    BY <1>1, <2>2 DEF Objects
  <2>4. cache'.gs = cache.gs /\ pass'.gs \in {pass.gs, Absent}
    BY <1>1, <1>8 DEF CreateService, Return, Views, Passes, Idle
  <2> QED
    BY <2>1, <2>3, <2>4 DEF Owned
<1> QED
  BY <1>2, <1>3, <1>4, <1>5, <1>6, <1>7, <1>8 DEF PassStep

LEMMA OthersOwned ==
  ASSUME TypeOK, Owned, SyncStep \/ ClusterStep \/ UserStep \/ FaultStep \/ UNCHANGED vars
  PROVE  Owned'
<1> USE DEF Identified, HasOwner
<1>1. api \in Objects /\ cache \in Views /\ edits \in Nat
  BY DEF TypeOK
<1>2. CASE SyncStep
  <2>1. api' = api /\ pass' = pass /\ cache'.gs \in {cache.gs, api.gs}
    BY <1>1, <1>2 DEF SyncStep, SyncServer, SyncTemplates, SyncPVC, SyncDeployment,
       SyncServices, Views
  <2> QED
    BY <2>1 DEF Owned
<1>3. CASE CallFails \/ Restart \/ UNCHANGED vars
  <2>1. api' = api /\ pass'.gs \in {pass.gs, Absent} /\ cache'.gs \in {cache.gs, api.gs}
    BY <1>3 DEF CallFails, Restart, vars, Idle
  <2> QED
    BY <2>1 DEF Owned
<1>4. CASE CollectPVC \/ CollectDeployment \/ CollectService
           \/ DeletePVC \/ DeleteDeployment
  <2>1. api'.gs = api.gs /\ pass' = pass /\ cache' = cache
    BY <1>1, <1>4 DEF CollectPVC, CollectDeployment, CollectService, DeletePVC,
       DeleteDeployment, Vanish, Objects
  <2>2. /\ api'.pvc \in {api.pvc, Absent} /\ api'.dep \in {api.dep, Absent}
        /\ \A e \in ExposureTypes : api'.svc[e] \in {api.svc[e], Absent}
    BY <1>1, <1>4 DEF CollectPVC, CollectDeployment, CollectService, DeletePVC,
       DeleteDeployment, Objects
  <2> QED
    BY <2>1, <2>2 DEF Owned
<1>5. CASE Rollout \/ PodReady \/ PodFails
  <2>1. api.dep \in Deployment
    BY <1>1, <1>5 DEF Rollout, PodReady, PodFails, Objects, Maybe
  <2>2. api'.dep.owner = api.dep.owner /\ api.dep # Absent
    <3>1. CASE Rollout
      BY <1>1, <2>1, <3>1 DEF Rollout, Objects, Deployment
    <3>2. CASE PodReady \/ PodFails
      BY <1>1, <2>1, <3>2 DEF PodReady, PodFails, Objects, Deployment
    <3> QED
      BY <1>5, <3>1, <3>2
  <2>3. /\ api'.gs = api.gs /\ api'.pvc = api.pvc /\ api'.svc = api.svc
        /\ pass' = pass /\ cache' = cache
    BY <1>1, <1>5 DEF Rollout, PodReady, PodFails, Objects
  <2> QED
    BY <2>2, <2>3 DEF Owned
<1>6. CASE UserStep /\ ~(DeletePVC \/ DeleteDeployment)
  <2>1. /\ api'.pvc = api.pvc /\ api'.dep = api.dep /\ api'.svc = api.svc
        /\ pass' = pass /\ cache' = cache
    BY <1>1, <1>6 DEF UserStep, CreateServer, EditServer, DeleteServer, SetTemplate,
       SetBackup, Edit, Objects
  <2>2. Identified(api.gs)'
    <3>1. ASSUME NEW s \in ServerSpecs, CreateServer(s) PROVE api'.gs.uid # 0
      BY <1>1, <3>1 DEF CreateServer, Objects
    <3>2. ASSUME NEW s \in ServerSpecs, EditServer(s) PROVE api'.gs.uid # 0
      <4>1. api.gs \in Server
        BY <1>1, <3>2 DEF EditServer, Objects, Maybe
      <4>2. api'.gs.uid = api.gs.uid
        BY <1>1, <3>2, <4>1 DEF EditServer, Objects, Server
      <4> QED
        BY <3>2, <4>2 DEF EditServer, Owned
    <3>3. CASE DeleteServer \/ (\E t \in Templates, spec \in Maybe(TemplateSpecs) :
                                    SetTemplate(t, spec))
               \/ \E b \in BackupStates : SetBackup(b)
      <4>1. api'.gs \in {api.gs, Absent}
        BY <1>1, <3>3 DEF DeleteServer, SetTemplate, SetBackup, Objects
      <4> QED
        BY <4>1 DEF Owned
    <3> QED
      BY <1>6, <3>1, <3>2, <3>3 DEF UserStep
  <2> QED
    BY <2>1, <2>2 DEF Owned
<1>7. CASE RestoreGetFails
  BY <1>7, UpdateOwned DEF RestoreGetFails
<1> QED
  BY <1>2, <1>3, <1>4, <1>5, <1>6, <1>7 DEF ClusterStep, FaultStep, UserStep
-----------------------------------------------------------------------------
(* RestInv is inductive.  Most steps ask for a pass, and the rest keeps what  *)
(* earlier passes have done.                                                 *)

LEMMA QueuedRest == ASSUME Owned', queued' PROVE RestInv'
BY DEF RestInv

\* A step that leaves the children as they are, or deletes one that was cached.
Kept ==
  /\ api'.pvc = api.pvc \/ (api'.pvc = Absent /\ cache.pvc # Absent)
  /\ \/ api'.dep = Absent /\ (api.dep = Absent \/ cache.dep # Absent)
     \/ api'.dep # Absent /\ api.dep # Absent /\ api'.dep.spec = api.dep.spec
  /\ \A e \in ExposureTypes :
       api'.svc[e] = api.svc[e] \/ (api'.svc[e] = Absent /\ cache.svc[e] # Absent)

LEMMA CalmRest ==
  ASSUME RestInv, Owned', UNCHANGED <<cache, pass>>,
         ~queued' => ~queued /\ Kept,
         \/ api'.gs = api.gs
         \/ cache.gs = Absent
         \/ cache.gs # api'.gs
  PROVE  RestInv'
<1> SUFFICES ASSUME ~queued' PROVE PassCurrent' /\ IdleSettled'
  BY DEF RestInv
<1>1. PassCurrent /\ IdleSettled /\ Kept
  BY DEF RestInv
<1>2. \A g, t : BuildServices(g, t) \subseteq ExposureTypes
  BY DEF BuildServices
<1>3. PassCurrent'
  <2>1. PVCDone(pass.gs) => PVCDone(pass.gs)'
    BY <1>1 DEF Kept, PVCDone
  <2>2. DeploymentDone(pass.gs, pass.tpl) => DeploymentDone(pass.gs, pass.tpl)'
    BY <1>1 DEF Kept, DeploymentDone
  <2>3. \A e \in ExposureTypes :
          ServiceDone(pass.gs, pass.tpl, e) => ServiceDone(pass.gs, pass.tpl, e)'
    BY <1>1 DEF Kept, ServiceDone
  <2> QED
    BY <1>1, <1>2, <2>1, <2>2, <2>3 DEF PassCurrent
<1>4. IdleSettled'
  <2> DEFINE t == cache.tpl[cache.gs.spec.ref]
  <2>1. PVCDone(cache.gs) => PVCDone(cache.gs)'
    BY <1>1 DEF Kept, PVCDone
  <2>2. DeploymentDone(cache.gs, t) => DeploymentDone(cache.gs, t)'
    BY <1>1 DEF Kept, DeploymentDone
  <2>3. \A e \in ExposureTypes : ServiceDone(cache.gs, t, e) => ServiceDone(cache.gs, t, e)'
    BY <1>1 DEF Kept, ServiceDone
  <2>4. Settled(cache.gs, t) => Settled(cache.gs, t)'
    BY <1>2, <2>1, <2>2, <2>3 DEF Settled, StatusDone
  <2> QED
    BY <1>1, <2>4 DEF IdleSettled
<1> QED
  BY <1>3, <1>4

\* InvalidStorage asks for nothing more only when it has reported the size.
LEMMA InvalidStorageRest ==
  ASSUME TypeOK, RestInv, InvalidStorage, Owned' PROVE RestInv'
<1> SUFFICES ASSUME ~queued' PROVE PassCurrent' /\ IdleSettled'
  BY DEF RestInv
<1>1. /\ ~queued /\ Unchanged /\ cache' = cache /\ pass' = Idle
      /\ pass.gs \in Server /\ pass.tpl \in TemplateSpecs
      /\ ~SizeParses(pass.gs.spec, pass.tpl)
  BY DEF InvalidStorage, Return, TypeOK
<1>2. /\ pass.gs = cache.gs /\ pass.tpl = cache.tpl[cache.gs.spec.ref]
      /\ ValidateConfig(cache.gs.spec, pass.tpl)
  BY <1>1 DEF InvalidStorage, RestInv, PassCurrent
<1> DEFINE cond == SetConditions(pass.gs.status.cond, Resolved, {"ConfigValid"})
           status == [pass.gs.status EXCEPT !.cond = cond]
<1>3. cond["ConfigValid"] = "False"
  BY DEF SetConditions, Resolved, Conditions
<1>4. UpdateStatus(status)
  BY DEF InvalidStorage
<1> HIDE DEF cond
<1>5. status.cond = cond
  BY <1>1 DEF Server, Status
<1> HIDE DEF status
<1>6. api'.gs.status = status
  <2>1. api'.gs = [api.gs EXCEPT !.status = status]
    BY <1>1, <1>4 DEF UpdateStatus, TypeOK, Objects
  <2> QED
    BY <1>1, <2>1 DEF Unchanged, Server
<1>7. PassCurrent'
  BY <1>1 DEF PassCurrent, Idle
<1>8. IdleSettled'
  BY <1>1, <1>2, <1>3, <1>5, <1>6, AbsentAssumption DEF IdleSettled, Settled
<1> QED
  BY <1>7, <1>8

\* RefreshStatus asks for nothing more only when it has reported Ready.
LEMMA RefreshStatusRest ==
  ASSUME TypeOK, RestInv, RefreshStatus, Owned' PROVE RestInv'
<1> SUFFICES ASSUME ~queued' PROVE PassCurrent' /\ IdleSettled'
  BY DEF RestInv
<1>1. /\ ~queued /\ Unchanged /\ cache' = cache /\ pass' = Idle
      /\ pass.gs \in Server /\ pass.tpl \in TemplateSpecs
      /\ FinalPhase = "Ready" /\ pass.todo = {}
  BY DEF RefreshStatus, Return, TypeOK
<1>2. /\ pass.gs = cache.gs /\ pass.tpl = cache.tpl[cache.gs.spec.ref]
      /\ ValidateConfig(cache.gs.spec, pass.tpl)
      /\ SizeParses(cache.gs.spec, pass.tpl) /\ PVCDone(cache.gs)
      /\ DeploymentDone(cache.gs, pass.tpl)
      /\ \A e \in BuildServices(cache.gs.spec, pass.tpl) : ServiceDone(cache.gs, pass.tpl, e)
  BY <1>1 DEF RefreshStatus, RestInv, PassCurrent
<1>3. UpdateStatus(FinalStatus) /\ FinalStatus.observed = cache.gs.gen
      /\ FinalStatus.phase = "Ready" /\ ~cache.gs.spec.suspend
  BY <1>1, <1>2 DEF RefreshStatus, FinalStatus, FinalPhase
<1>4. /\ api'.gs = [api.gs EXCEPT !.status = FinalStatus]
      /\ api'.pvc = api.pvc /\ api'.dep = api.dep /\ api'.svc = api.svc
  BY <1>1, <1>3 DEF UpdateStatus, TypeOK, Objects
<1>5. api'.gs.status = FinalStatus
  BY <1>1, <1>4 DEF Unchanged, Server
<1>6. PassCurrent'
  BY <1>1 DEF PassCurrent, Idle
<1>7. ASSUME cache.gs = api'.gs PROVE StatusDone(cache.gs)
  BY <1>3, <1>5, <1>7 DEF StatusDone
<1>8. IdleSettled'
  BY <1>1, <1>2, <1>4, <1>7, AbsentAssumption
  DEF IdleSettled, Settled, PVCDone, DeploymentDone, ServiceDone, StatusDone
<1> QED
  BY <1>6, <1>8

LEMMA ApplyPVCRest == ASSUME TypeOK, RestInv, ApplyPVC, Owned' PROVE RestInv'
<1> SUFFICES ASSUME ~queued' PROVE PassCurrent' /\ IdleSettled'
  BY DEF RestInv
<1>1. /\ ~queued /\ cache' = cache /\ SizeParses(pass.gs.spec, pass.tpl)
      /\ pass' = [pass EXCEPT !.pc = "ApplyDeployment"]
      /\ api \in Objects /\ cache \in Views /\ pass \in Passes /\ pass.gs \in Server
  BY DEF ApplyPVC, TypeOK
<1>2. pass'.pc = "ApplyDeployment" /\ pass'.gs = pass.gs /\ pass'.tpl = pass.tpl
  BY <1>1 DEF Passes
<1>3. PVCDone(pass.gs)'
  <2>1. CASE ~PVCDrifted
    <3>1. api'.pvc = api.pvc
      BY <1>1, <2>1 DEF ApplyPVC, Objects
    <3> QED
      BY <1>1, <1>2, <2>1, <3>1 DEF PVCDrifted, PVCDone
  <2>2. CASE PVCDrifted /\ cache.pvc = Absent
    <3>1. api'.pvc = NewPVC
      BY <1>1, <2>2 DEF ApplyPVC, Objects
    <3>2. NewPVC \in Volume
      BY <1>1, SpecsAssumption DEF NewPVC, Volume, Server, Passes
    <3>3. NewPVC.label = pass.gs.spec.ref /\ NewPVC # Absent
      BY <3>2, AbsentAssumption DEF NewPVC
    <3> QED
      BY <1>2, <3>1, <3>3 DEF PVCDone
  <2>3. CASE PVCDrifted /\ cache.pvc # Absent
    <3> DEFINE new == [cache.pvc EXCEPT !.label = pass.gs.spec.ref]
    <3>1. api'.pvc = new
      BY <1>1, <2>3 DEF ApplyPVC, Objects
    <3>2. cache.pvc \in Volume
      BY <1>1, <2>3 DEF Views, Maybe
    <3>3. new \in Volume /\ new.label = pass.gs.spec.ref
      BY <1>1, <3>2, SpecsAssumption DEF Volume, Server
    <3> HIDE DEF new
    <3> QED
      BY <1>2, <3>1, <3>3, AbsentAssumption DEF PVCDone
  <2> QED
    BY <2>1, <2>2, <2>3
<1>4. PassCurrent'
  BY <1>1, <1>2, <1>3 DEF ApplyPVC, RestInv, PassCurrent
<1>5. IdleSettled'
  BY <1>2 DEF IdleSettled
<1> QED
  BY <1>4, <1>5

LEMMA ApplyDeploymentRest == ASSUME TypeOK, RestInv, ApplyDeployment, Owned' PROVE RestInv'
<1> DEFINE spec == BuildDeployment(pass.gs.spec, pass.tpl)
           new == [owner |-> pass.gs.uid, spec |-> spec, pod |-> Absent, ready |-> FALSE]
           applied == [cache.dep EXCEPT !.spec = spec]
<1> SUFFICES ASSUME ~queued' PROVE PassCurrent' /\ IdleSettled'
  BY DEF RestInv
<1>1. /\ ~queued /\ cache' = cache /\ pass.pc = "ApplyDeployment"
      /\ api \in Objects /\ cache \in Views /\ pass \in Passes /\ pass.gs \in Server
      /\ pass.gs.spec \in ServerSpecs /\ pass.tpl \in TemplateSpecs
  BY DEF ApplyDeployment, TypeOK, Server
<1>2. /\ pass'.pc = "ApplyServices" /\ pass'.gs = pass.gs /\ pass'.tpl = pass.tpl
      /\ pass'.todo = BuildServices(pass.gs.spec, pass.tpl)
  BY <1>1 DEF ApplyDeployment, Passes
<1>3. spec \in PodSpecs
  BY <1>1, BuildDeploymentType
<1>4. /\ api'.dep = IF cache.dep = Absent THEN new ELSE applied
      /\ api'.pvc = api.pvc
  BY <1>1 DEF ApplyDeployment, Objects
<1> HIDE DEF spec
<1>5. new \in Deployment /\ new.spec = spec
  BY <1>1, <1>3 DEF Deployment, Server
<1>6. cache.dep # Absent => applied \in Deployment /\ applied.spec = spec
  BY <1>1, <1>3 DEF Views, Maybe, Deployment
<1> HIDE DEF new, applied
<1>7. DeploymentDone(pass.gs, pass.tpl)'
  BY <1>2, <1>4, <1>5, <1>6, AbsentAssumption DEF DeploymentDone, spec
<1>8. PassCurrent'
  BY <1>1, <1>2, <1>4, <1>7 DEF RestInv, PassCurrent, PVCDone
<1>9. IdleSettled'
  BY <1>2 DEF IdleSettled
<1> QED
  BY <1>8, <1>9

LEMMA UpdateServiceRest ==
  ASSUME TypeOK, RestInv, NEW e \in ExposureTypes, UpdateService(e), Owned'
  PROVE  RestInv'
<1> DEFINE new == [cache.svc[e] EXCEPT !.ports = DesiredPorts(e)]
<1> SUFFICES ASSUME ~queued' PROVE PassCurrent' /\ IdleSettled'
  BY DEF RestInv
<1>1. /\ ~queued /\ cache' = cache /\ pass.pc = "ApplyServices"
      /\ api \in Objects /\ cache \in Views /\ pass \in Passes /\ pass.gs \in Server
      /\ pass.gs.spec \in ServerSpecs /\ pass.tpl \in TemplateSpecs
  BY DEF UpdateService, TypeOK, Server
<1>2. /\ pass'.pc = "ApplyServices" /\ pass'.gs = pass.gs /\ pass'.tpl = pass.tpl
      /\ pass'.todo = pass.todo \ {e}
  BY <1>1 DEF UpdateService, Passes
<1>3. new \in Service /\ new.ports = ServicePorts(pass.gs.spec, pass.tpl)[e]
  <2>1. cache.svc[e] \in Service
    BY <1>1 DEF UpdateService, Views, Maybe
  <2>2. DesiredPorts(e) \in SUBSET AllPorts
    BY <1>1, ServicePortsType DEF DesiredPorts
  <2> QED
    BY <2>1, <2>2 DEF Service, DesiredPorts
<1>4. api' = [api EXCEPT !.svc[e] = new]
  BY DEF UpdateService
<1> HIDE DEF new
<1>5. /\ api'.svc[e] = new /\ api'.pvc = api.pvc /\ api'.dep = api.dep
      /\ \A x \in ExposureTypes \ {e} : api'.svc[x] = api.svc[x]
  BY <1>1, <1>4 DEF Objects
<1>6. PassCurrent
  BY <1>1 DEF RestInv
<1>7. ASSUME NEW x \in BuildServices(pass.gs.spec, pass.tpl) \ pass'.todo
      PROVE  ServiceDone(pass.gs, pass.tpl, x)'
  <2>1. CASE x = e
    BY <1>2, <1>3, <1>5, <2>1, AbsentAssumption DEF ServiceDone
  <2>2. CASE x # e
    <3>1. ServiceDone(pass.gs, pass.tpl, x) /\ x \in ExposureTypes
      BY <1>1, <1>2, <1>6, <1>7, <2>2 DEF PassCurrent, BuildServices
    <3> QED
      BY <1>1, <1>2, <1>5, <2>2, <3>1 DEF ServiceDone
  <2> QED
    BY <2>1, <2>2
<1>8. DeploymentDone(pass.gs, pass.tpl)' /\ PVCDone(pass.gs)'
  BY <1>1, <1>2, <1>5, <1>6 DEF PassCurrent, DeploymentDone, PVCDone
<1>9. PassCurrent'
  BY <1>1, <1>2, <1>6, <1>7, <1>8 DEF PassCurrent
<1>10. IdleSettled'
  BY <1>2 DEF IdleSettled
<1> QED
  BY <1>9, <1>10

LEMMA PassStepRest == ASSUME TypeOK, RestInv, PassStep, Owned' PROVE RestInv'
<1>1. CASE TemplateNotFound \/ ConfigInvalid \/ RestoreUnavailable \/ WriteRefused
           \/ DeploymentNotCached \/ \E e \in ExposureTypes : CreateService(e)
  <2>1. queued'
    BY <1>1 DEF TemplateNotFound, ConfigInvalid, RestoreUnavailable, WriteRefused,
       DeploymentNotCached, CreateService, Report, Return
  <2> QED
    BY <2>1, QueuedRest
<1>2. CASE Reconcile
  <2>1. UNCHANGED <<api, cache>> /\ Idle.pc = "Idle"
    BY <1>2 DEF Reconcile, Idle
  <2>2. CASE cache.gs = Absent
    <3>1. pass' = Idle
      BY <1>2, <2>2 DEF Reconcile
    <3>2. PassCurrent' /\ IdleSettled'
      BY <2>1, <2>2, <3>1 DEF PassCurrent, IdleSettled
    <3> QED
      BY <3>2 DEF RestInv
  <2>3. CASE cache.gs # Absent
    <3>1. pass'.pc = "FetchTemplate" /\ pass'.gs = cache.gs
      BY <1>2, <2>3 DEF Reconcile, Idle
    <3>2. PassCurrent' /\ IdleSettled'
      BY <2>1, <3>1 DEF PassCurrent, IdleSettled
    <3> QED
      BY <3>2 DEF RestInv
  <2> QED
    BY <2>2, <2>3
<1>3. CASE TemplateResolved
  <2>1. /\ pass'.pc \in {"ResolveRestoreSource", "EnsureServiceAccount"}
        /\ pass'.gs = pass.gs /\ pass'.tpl = cache.tpl[pass.gs.spec.ref]
        /\ ValidateConfig(pass.gs.spec, pass'.tpl)
        /\ UNCHANGED <<api, cache, queued>> /\ pass.pc # "Idle"
    BY <1>3 DEF TemplateResolved, Template, TypeOK, Passes
  <2>2. ~queued' => PassCurrent' /\ IdleSettled'
    BY <2>1 DEF RestInv, PassCurrent, IdleSettled
  <2> QED
    BY <2>2 DEF RestInv
<1>4. CASE EnsureServiceAccount \/ ResolveRestoreSource
  <2>1. /\ pass.pc \notin {"Idle", "FetchTemplate"}
        /\ pass'.pc \in {"ResolveRestoreSource", "ApplyPVC"}
        /\ pass'.gs = pass.gs /\ pass'.tpl = pass.tpl
        /\ UNCHANGED <<cache, queued>>
    BY <1>4 DEF EnsureServiceAccount, ResolveRestoreSource, TypeOK, Passes
  <2>2. ~queued' => PassCurrent' /\ IdleSettled'
    BY <2>1 DEF RestInv, PassCurrent, IdleSettled
  <2> QED
    BY <2>2 DEF RestInv
<1> QED
  BY <1>1, <1>2, <1>3, <1>4, InvalidStorageRest, RefreshStatusRest, ApplyPVCRest,
     ApplyDeploymentRest, UpdateServiceRest DEF PassStep

\* A template that matters to the cached server asks for a pass, and so does
\* whatever else a watch delivers.
LEMMA SyncStepRest == ASSUME TypeOK, RestInv, SyncStep, Owned' PROVE RestInv'
<1>1. CASE SyncServer \/ SyncPVC \/ SyncDeployment \/ SyncServices
  <2>1. queued'
    BY <1>1 DEF SyncServer, SyncPVC, SyncDeployment, SyncServices
  <2> QED
    BY <2>1, QueuedRest
<1>2. CASE SyncTemplates
  <2> SUFFICES ASSUME ~queued' PROVE PassCurrent' /\ IdleSettled'
    BY DEF RestInv
  <2>1. /\ ~queued /\ UNCHANGED <<api, pass>>
        /\ cache'.gs = cache.gs /\ cache'.pvc = cache.pvc /\ cache'.dep = cache.dep
        /\ cache'.svc = cache.svc /\ cache'.tpl = api.tpl
        /\ cache.gs # Absent => cache'.tpl[cache.gs.spec.ref] = cache.tpl[cache.gs.spec.ref]
    BY <1>2 DEF SyncTemplates, TypeOK, Views
  <2>2. pass.pc # "Idle" => cache.gs # Absent /\ pass.gs = cache.gs
    BY <2>1, AbsentAssumption DEF RestInv, PassCurrent, TypeOK
  <2>3. PassCurrent'
    BY <2>1, <2>2 DEF RestInv, PassCurrent, PVCDone, DeploymentDone, ServiceDone
  <2>4. IdleSettled'
    <3> SUFFICES ASSUME pass.pc = "Idle", cache.gs # Absent, cache.gs = api.gs
                 PROVE  Settled(cache.gs, cache.tpl[cache.gs.spec.ref])'
      BY <2>1 DEF IdleSettled
    <3>1. Settled(cache.gs, cache.tpl[cache.gs.spec.ref])
      BY <2>1 DEF RestInv, IdleSettled
    <3> QED
      BY <2>1, <3>1 DEF Settled, PVCDone, DeploymentDone, ServiceDone, StatusDone
  <2> QED
    BY <2>3, <2>4
<1> QED
  BY <1>1, <1>2 DEF SyncStep

LEMMA ClusterStepRest == ASSUME TypeOK, RestInv, ClusterStep, Owned' PROVE RestInv'
<1>1. /\ api \in Objects /\ UNCHANGED <<cache, pass>>
      /\ queued \in BOOLEAN /\ queued' \in BOOLEAN
  BY DEF TypeOK, ClusterStep, CollectPVC, CollectDeployment, CollectService, Rollout,
     PodReady, Vanish
<1>2. api'.gs = api.gs
  BY <1>1 DEF ClusterStep, CollectPVC, CollectDeployment, CollectService, Rollout,
     PodReady, Objects
<1>3. ~queued' => ~queued /\ Kept
  <2>1. CASE CollectPVC
    BY <1>1, <2>1 DEF CollectPVC, Vanish, Objects, Kept
  <2>2. CASE CollectDeployment
    BY <1>1, <2>2 DEF CollectDeployment, Vanish, Objects, Kept
  <2>3. CASE CollectService
    BY <1>1, <2>3 DEF CollectService, Vanish, Objects, Kept
  <2>4. CASE Rollout \/ PodReady
    <3> DEFINE rolled == [api.dep EXCEPT !.pod = Wanted(api.dep), !.ready = FALSE]
               up == [api.dep EXCEPT !.ready = TRUE]
    <3>1. api.dep \in Deployment /\ api.dep # Absent
      BY <1>1, <2>4 DEF Rollout, PodReady, Objects, Maybe
    <3>2. /\ rolled \in Deployment /\ rolled.spec = api.dep.spec
          /\ up \in Deployment /\ up.spec = api.dep.spec
      BY <3>1 DEF Deployment, Wanted
    <3>3. \/ api' = [api EXCEPT !.dep = rolled]
          \/ api' = [api EXCEPT !.dep = up]
      BY <2>4 DEF Rollout, PodReady
    <3> HIDE DEF rolled, up
    <3>4. api'.dep \in {rolled, up} /\ api'.pvc = api.pvc /\ api'.svc = api.svc
          /\ queued' = queued
      BY <1>1, <2>4, <3>3 DEF Rollout, PodReady, Objects
    <3> QED
      BY <3>1, <3>2, <3>4, AbsentAssumption DEF Kept
  <2> QED
    BY <2>1, <2>2, <2>3, <2>4 DEF ClusterStep
<1> QED
  BY <1>1, <1>2, <1>3, CalmRest

\* No edit brings the stored server back to a cached version of it (ObservedInv).
LEMMA UserStepRest ==
  ASSUME TypeOK, ObservedInv, RestInv, UserStep, Owned' PROVE RestInv'
<1>1. /\ api \in Objects /\ cache \in Views /\ edits \in Nat
      /\ UNCHANGED <<cache, pass>> /\ queued \in BOOLEAN
  <2>1. UNCHANGED <<cache, pass>>
    BY DEF UserStep, CreateServer, EditServer, DeleteServer, SetTemplate, SetBackup,
       DeletePVC, DeleteDeployment, Edit, Vanish
  <2> QED
    BY <2>1 DEF TypeOK
<1>2. ~queued' => ~queued /\ Kept
  <2>1. CASE DeletePVC
    BY <1>1, <2>1 DEF DeletePVC, Vanish, Objects, Kept
  <2>2. CASE DeleteDeployment
    BY <1>1, <2>2 DEF DeleteDeployment, Vanish, Objects, Kept
  <2>3. CASE ~(DeletePVC \/ DeleteDeployment)
    <3>1. queued' = queued /\ api'.pvc = api.pvc /\ api'.dep = api.dep /\ api'.svc = api.svc
      BY <1>1, <2>3 DEF UserStep, CreateServer, EditServer, DeleteServer, SetTemplate,
         SetBackup, Edit, Objects
    <3> QED
      BY <3>1 DEF Kept
  <2> QED
    BY <2>1, <2>2, <2>3
<1>3. api'.gs = api.gs \/ cache.gs = Absent \/ cache.gs # api'.gs
  <2>1. ASSUME NEW s \in ServerSpecs, CreateServer(s), cache.gs # Absent
        PROVE  cache.gs # api'.gs
    <3>1. api'.gs.uid = edits + 1
      BY <1>1, <2>1 DEF CreateServer, Objects
    <3>2. cache.gs.uid \in Nat /\ cache.gs.uid <= edits
      BY <1>1, <2>1 DEF ObservedInv, Behind, Views, Maybe, Server
    <3>3. cache.gs.uid # edits + 1
      BY <1>1, <3>2
    <3> QED
      BY <3>1, <3>3
  <2>2. ASSUME NEW s \in ServerSpecs, EditServer(s), cache.gs # Absent
        PROVE  cache.gs # api'.gs
    <3>1. api.gs \in Server /\ cache.gs \in Server /\ api.gs # Absent
      BY <1>1, <2>2 DEF EditServer, Objects, Views, Maybe
    <3> DEFINE gen == api.gs.gen + 1
               new == [api.gs EXCEPT !.gen = gen, !.spec = s]
    <3>2. api.gs.gen \in Nat /\ cache.gs.gen \in Nat
      BY <3>1 DEF Server
    <3>3. api'.gs = new
      BY <1>1, <2>2 DEF EditServer, Objects
    <3>4. new.uid = api.gs.uid /\ new.gen = gen
      BY <3>1 DEF Server
    <3>5. cache.gs.uid = api.gs.uid => cache.gs.gen <= api.gs.gen
      BY <2>2, <3>1 DEF ObservedInv, Behind
    <3>6. cache.gs.uid = api.gs.uid => cache.gs.gen # gen
      BY <3>2, <3>5
    <3> HIDE DEF gen, new
    <3> QED
      BY <3>3, <3>4, <3>6
  <2>3. CASE DeleteServer
    BY <1>1, <2>3 DEF DeleteServer, Objects
  <2>4. CASE \/ \E t \in Templates, spec \in Maybe(TemplateSpecs) : SetTemplate(t, spec)
             \/ \E b \in BackupStates : SetBackup(b)
             \/ DeletePVC \/ DeleteDeployment
    BY <1>1, <2>4 DEF SetTemplate, SetBackup, DeletePVC, DeleteDeployment, Objects
  <2> QED
    BY <2>1, <2>2, <2>3, <2>4 DEF UserStep
<1> QED
  BY <1>1, <1>2, <1>3, CalmRest

LEMMA FaultStepRest == ASSUME TypeOK, RestInv, FaultStep, Owned' PROVE RestInv'
<1>1. CASE RestoreGetFails \/ CallFails \/ Restart
  <2>1. queued'
    BY <1>1 DEF RestoreGetFails, CallFails, Restart
  <2> QED
    BY <2>1, QueuedRest
<1>2. CASE PodFails
  <2> DEFINE new == [api.dep EXCEPT !.ready = FALSE]
  <2>1. api.dep \in Deployment /\ api.dep # Absent /\ api \in Objects
    BY <1>2 DEF PodFails, TypeOK, Objects, Maybe
  <2>2. new \in Deployment /\ new.spec = api.dep.spec
    BY <2>1 DEF Deployment
  <2>3. api' = [api EXCEPT !.dep = new] /\ UNCHANGED <<cache, pass, queued>>
    BY <1>2 DEF PodFails
  <2> HIDE DEF new
  <2>4. api'.dep = new /\ api'.gs = api.gs /\ api'.pvc = api.pvc /\ api'.svc = api.svc
    BY <2>1, <2>3 DEF Objects
  <2>5. Kept
    BY <2>1, <2>2, <2>4, AbsentAssumption DEF Kept
  <2> QED
    BY <2>3, <2>4, <2>5, CalmRest
<1> QED
  BY <1>1, <1>2 DEF FaultStep

-----------------------------------------------------------------------------

\* No wake-up is lost between the five caches, the pass and the watches: when no
\* pass is asked for, the one in flight works on what is cached and what it has
\* applied so far still holds, and between passes a cached server is settled or
\* its next version is still to be heard of.
THEOREM RestInvariant == Spec => []RestInv
<1>1. Init => RestInv
  <2> SUFFICES ASSUME Init PROVE RestInv
    OBVIOUS
  <2>1. /\ api.gs = Absent /\ cache.gs = Absent /\ pass.gs = Absent /\ pass.pc = "Idle"
        /\ api.pvc = Absent /\ api.dep = Absent
        /\ \A e \in ExposureTypes : api.svc[e] = Absent
    BY DEF Init, Idle
  <2> QED
    BY <2>1 DEF RestInv, Owned, Identified, HasOwner, PassCurrent, IdleSettled
<1>2. TypeOK /\ ObservedInv /\ RestInv /\ [Next]_vars => RestInv'
  <2> SUFFICES ASSUME TypeOK, ObservedInv, RestInv, [Next]_vars PROVE RestInv'
    OBVIOUS
  <2>1. Owned'
    BY PassStepOwned, OthersOwned DEF RestInv, Next
  <2>2. CASE UNCHANGED vars
    BY <2>1, <2>2, CalmRest DEF vars, Kept
  <2> QED
    BY <2>1, <2>2, PassStepRest, SyncStepRest, ClusterStepRest, UserStepRest, FaultStepRest
    DEF Next
<1> QED
  BY <1>1, <1>2, TypeCorrect, ObservedInvariant, PTL DEF Spec

\* Whenever the reconciler has nothing left to look at and the cluster nothing
\* left to do, a server is Ready with a volume, a Deployment and Services of its
\* own that are what its specs ask for, or its size, its own or its template's
\* default, is reported as unparsable; and nothing of a deleted server is left.
THEOREM ConvergedAtRest == Spec => []RestIsConverged
<1>1. TypeOK /\ RestInv => RestIsConverged
  <2> SUFFICES ASSUME TypeOK, RestInv, pass.pc = "Idle", ~queued,
                      \A kind \in DOMAIN cache : cache[kind] = api[kind],
                      \A o \in {api.pvc, api.dep} \union {api.svc[e] : e \in ExposureTypes} :
                        ~Dangling(o),
                      api.dep # Absent => api.dep.pod = Wanted(api.dep)
               PROVE  IF api.gs = Absent
                        THEN /\ api.pvc = Absent /\ api.dep = Absent
                             /\ \A e \in ExposureTypes : api.svc[e] = Absent
                      ELSE LET t == api.tpl[api.gs.spec.ref]
                           IN  /\ t # Absent
                               /\ ValidateConfig(api.gs.spec, t)
                               /\ IF SizeParses(api.gs.spec, t) THEN Applied(api.gs, t)
                                  ELSE api.gs.status.cond["ConfigValid"] = "False"
    BY DEF RestIsConverged
  <2>1. /\ cache.gs = api.gs /\ cache.tpl = api.tpl /\ cache.pvc = api.pvc
        /\ cache.dep = api.dep /\ cache.svc = api.svc
    <3>1. DOMAIN cache = {"gs", "tpl", "pvc", "dep", "svc"}
      BY DEF TypeOK, Views
    <3> QED
      BY <3>1
  <2>2. \A o \in {api.pvc, api.dep} \union {api.svc[e] : e \in ExposureTypes} :
          o # Absent => api.gs # Absent /\ o.owner = api.gs.uid
    BY DEF Dangling, RestInv, Owned, HasOwner
  <2>3. /\ api.pvc # Absent => api.gs # Absent /\ api.pvc.owner = api.gs.uid
        /\ api.dep # Absent => api.gs # Absent /\ api.dep.owner = api.gs.uid
        /\ \A e \in ExposureTypes :
             api.svc[e] # Absent => api.gs # Absent /\ api.svc[e].owner = api.gs.uid
    BY <2>2
  <2>4. CASE api.gs = Absent
    BY <2>3, <2>4
  <2>5. CASE api.gs # Absent
    <3> DEFINE t == api.tpl[api.gs.spec.ref]
    <3>1. Settled(api.gs, t)
      BY <2>1, <2>5 DEF RestInv, IdleSettled
    <3>2. ASSUME SizeParses(api.gs.spec, t) PROVE Applied(api.gs, t)
      <4>1. /\ PVCDone(api.gs) /\ DeploymentDone(api.gs, t) /\ StatusDone(api.gs)
            /\ \A e \in BuildServices(api.gs.spec, t) : ServiceDone(api.gs, t, e)
        BY <3>1, <3>2 DEF Settled
      <4>2. /\ api.pvc # Absent /\ api.pvc.label = api.gs.spec.ref
            /\ api.dep # Absent /\ api.dep.spec = BuildDeployment(api.gs.spec, t)
        BY <2>1, <4>1 DEF PVCDone, DeploymentDone
      <4>3. \A e \in BuildServices(api.gs.spec, t) :
              /\ e \in ExposureTypes /\ api.svc[e] # Absent
              /\ api.svc[e].ports = ServicePorts(api.gs.spec, t)[e]
        BY <2>1, <4>1 DEF ServiceDone, BuildServices
      <4>4. /\ api.gs.status.observed = api.gs.gen
            /\ api.gs.status.phase = IF api.gs.spec.suspend THEN "Stopped" ELSE "Ready"
        BY <4>1 DEF StatusDone
      <4> HIDE DEF t
      <4> QED
        BY <2>3, <4>2, <4>3, <4>4 DEF Applied
    <3> QED
      BY <2>5, <3>1, <3>2 DEF Settled
  <2> QED
    BY <2>4, <2>5
<1> QED
  BY <1>1, TypeCorrect, RestInvariant, PTL
=============================================================================
