-------------------------- MODULE GameServerProofs --------------------------
(* Theorems about the GameServer reconciler, for every set of templates,   *)
(* server specs and template specs and every bound on edits and faults.    *)
EXTENDS GameServerController, TLAPS

(* The builders return objects of the right type. *)

LEMMA BuildDeploymentType ==
  ASSUME NEW s \in ServerSpecs, NEW t \in TemplateSpecs
  PROVE  BuildDeployment(s, t) \in PodSpecs
BY DEF PodSpecs

LEMMA ServicePortsType ==
  ASSUME NEW s \in ServerSpecs, NEW t \in TemplateSpecs, NEW e \in ExposureTypes
  PROVE  ServicePorts(s, t)[e] \in SUBSET AllPorts
BY DEF ServicePorts, AllPorts

LEMMA ServicesType ==
  ASSUME NEW s, NEW t
  PROVE  BuildServices(s, t) \in SUBSET ExposureTypes
BY DEF BuildServices

LEMMA SetConditionsType ==
  ASSUME NEW cond \in [Conditions -> {"Unknown", "True", "False"}],
         NEW true, NEW false
  PROVE  SetConditions(cond, true, false) \in [Conditions -> {"Unknown", "True", "False"}]
BY DEF SetConditions

LEMMA IdleType == Idle \in Passes
BY DEF Idle, Passes, PassStates, Maybe

(* The effect of the status paths on the types. *)

LEMMA UpdateStatusType ==
  ASSUME TypeOK, pass.pc # "Idle", NEW status \in Status, UpdateStatus(status)
  PROVE  api' \in Objects
<1>1. pass.gs \in Server
  BY DEF TypeOK
<1>2. CASE Unchanged
  <2>1. api.gs \in Server
    BY <1>1, <1>2 DEF Unchanged
  <2>2. [api.gs EXCEPT !.status = status] \in Server
    BY <2>1 DEF Server
  <2>3. api' = [api EXCEPT !.gs = [api.gs EXCEPT !.status = status]]
    BY <1>2 DEF UpdateStatus
  <2> QED
    BY <2>2, <2>3 DEF TypeOK, Objects, Maybe
<1>3. CASE ~Unchanged
  BY <1>3 DEF UpdateStatus, TypeOK
<1> QED
  BY <1>2, <1>3

LEMMA ReportedType ==
  ASSUME TypeOK, pass.pc # "Idle", NEW phase \in Phases, NEW true, NEW false
  PROVE  /\ Reported(phase, true, false) \in Status
         /\ Reported(phase, true, false).phase = phase
         /\ Reported(phase, true, false).observed = pass.gs.status.observed
<1>1. pass.gs.status \in Status
  BY DEF TypeOK, Server
<1> QED
  BY <1>1, SetConditionsType DEF Reported, Status

LEMMA ReportType ==
  ASSUME TypeOK, pass.pc # "Idle", NEW phase \in Phases, NEW true, NEW false,
         Report(phase, true, false)
  PROVE  TypeOK'
<1>1. api' \in Objects
  BY ReportedType, UpdateStatusType DEF Report
<1> QED
  BY <1>1, IdleType DEF Report, Return, TypeOK, Idle

(* Type correctness, one lemma for each kind of step. *)

LEMMA PassStepType == TypeOK /\ PassStep => TypeOK'
<1> SUFFICES ASSUME TypeOK, PassStep PROVE TypeOK'
  OBVIOUS
<1> USE DEF TypeOK
<1>1. pass.pc # "Idle" => /\ pass.gs \in Server
                          /\ pass.gs.spec \in ServerSpecs
                          /\ pass.gs.spec.ref \in Templates
                          /\ pass.gs.status \in Status
  BY SpecsAssumption DEF Server
<1>2. pass.pc # "Idle" => Template \in Maybe(TemplateSpecs)
  BY <1>1 DEF Template, Views
<1>3. CASE Reconcile
  BY <1>3, IdleType DEF Reconcile, Idle, Passes, PassStates, Views, Maybe
<1>4. CASE TemplateNotFound
  BY <1>4, ReportType DEF TemplateNotFound, Phases
<1>5. CASE ConfigInvalid
  BY <1>5, ReportType DEF ConfigInvalid, Phases
<1>6. CASE TemplateResolved
  BY <1>1, <1>2, <1>6 DEF TemplateResolved, Passes, PassStates, Maybe
<1>7. CASE EnsureServiceAccount
  BY <1>1, <1>7 DEF EnsureServiceAccount, Objects, Passes, PassStates
<1>8. CASE RestoreUnavailable
  BY <1>8, ReportType DEF RestoreUnavailable, Phases
<1>9. CASE ResolveRestoreSource
  BY <1>1, <1>9 DEF ResolveRestoreSource, Passes, PassStates
<1>10. CASE InvalidStorage
  <2> DEFINE status == [pass.gs.status EXCEPT
                          !.cond = SetConditions(@, Resolved, {"ConfigValid"})]
  <2>1. pass.pc # "Idle"
    BY <1>10 DEF InvalidStorage
  <2>2. status \in Status
    BY <1>1, <2>1, SetConditionsType DEF Status
  <2>3. api' \in Objects
    BY <1>10, <2>1, <2>2, UpdateStatusType DEF InvalidStorage
  <2> QED
    BY <1>10, <2>3, IdleType DEF InvalidStorage, Return, Idle
<1>11. CASE ApplyPVC
  <2>1. NewPVC \in Volume
    BY <1>1, <1>11 DEF ApplyPVC, NewPVC, Volume, Server, Passes
  <2>2. cache.pvc # Absent =>
          [cache.pvc EXCEPT !.label = pass.gs.spec.ref] \in Volume
    BY <1>1, <1>11 DEF ApplyPVC, Volume, Views, Maybe
  <2>3. api' \in Objects
    BY <1>11, <2>1, <2>2 DEF ApplyPVC, Objects, Maybe
  <2> QED
    BY <1>1, <1>11, <2>3 DEF ApplyPVC, Passes, PassStates
<1>12. CASE ApplyDeployment
  <2> DEFINE spec == BuildDeployment(pass.gs.spec, pass.tpl)
  <2>1. spec \in PodSpecs
    BY <1>1, <1>12, BuildDeploymentType DEF ApplyDeployment
  <2>2. [owner |-> pass.gs.uid, spec |-> spec, pod |-> Absent, ready |-> FALSE] \in Deployment
    BY <1>1, <1>12, <2>1 DEF ApplyDeployment, Deployment, Server
  <2>3. cache.dep # Absent => [cache.dep EXCEPT !.spec = spec] \in Deployment
    BY <2>1 DEF Deployment, Views, Maybe
  <2> HIDE DEF spec
  <2>4. api' \in Objects
    BY <1>12, <2>2, <2>3 DEF ApplyDeployment, Objects, Maybe, spec
  <2> QED
    BY <1>1, <1>12, <2>4, ServicesType DEF ApplyDeployment, Passes, PassStates
<1>13. ASSUME NEW e \in ExposureTypes, UpdateService(e) PROVE TypeOK'
  <2>1. DesiredPorts(e) \in SUBSET AllPorts
    BY <1>1, <1>13, ServicePortsType DEF UpdateService, DesiredPorts
  <2>2. [cache.svc[e] EXCEPT !.ports = DesiredPorts(e)] \in Service
    BY <1>13, <2>1 DEF UpdateService, Service, Views, Maybe
  <2>3. api' \in Objects
    BY <1>13, <2>2 DEF UpdateService, Objects, Maybe
  <2> QED
    BY <1>1, <1>13, <2>3 DEF UpdateService, Passes, PassStates
<1>14. ASSUME NEW e \in ExposureTypes, CreateService(e) PROVE TypeOK'
  <2>1. DesiredPorts(e) \in SUBSET AllPorts
    BY <1>1, <1>14, ServicePortsType DEF CreateService, DesiredPorts
  <2>2. [owner |-> pass.gs.uid, ports |-> DesiredPorts(e)] \in Service
    BY <1>1, <1>14, <2>1 DEF CreateService, Service, Server
  <2>3. api' \in Objects
    BY <1>14, <2>2 DEF CreateService, Objects, Maybe
  <2>4. cache' \in Views
    BY <1>14, <2>3 DEF CreateService, Return, Objects, Views
  <2> QED
    BY <1>1, <1>14, <2>3, <2>4, IdleType DEF CreateService, Return, Passes, PassStates, Idle
<1>15. CASE WriteRefused
  BY <1>15, IdleType DEF WriteRefused, Return, Idle
<1>16. CASE DeploymentNotCached
  BY <1>16, IdleType DEF DeploymentNotCached, Return, Idle
<1>17. CASE RefreshStatus
  <2>1. pass.pc # "Idle"
    BY <1>17 DEF RefreshStatus
  <2>2. FinalStatus \in Status
    BY <1>1, <2>1, SetConditionsType DEF FinalStatus, FinalPhase, Status, Phases, Server
  <2>3. api' \in Objects
    BY <1>17, <2>1, <2>2, UpdateStatusType DEF RefreshStatus
  <2> QED
    BY <1>17, <2>3, IdleType DEF RefreshStatus, Return, Idle
<1> QED
  BY <1>3, <1>4, <1>5, <1>6, <1>7, <1>8, <1>9, <1>10, <1>11, <1>12, <1>13, <1>14,
     <1>15, <1>16, <1>17 DEF PassStep

LEMMA SyncStepType == TypeOK /\ SyncStep => TypeOK'
BY DEF TypeOK, SyncStep, SyncServer, SyncTemplates, SyncPVC, SyncDeployment, SyncServices,
       Objects, Views

LEMMA ClusterStepType == TypeOK /\ ClusterStep => TypeOK'
<1> SUFFICES ASSUME TypeOK, ClusterStep PROVE TypeOK'
  OBVIOUS
<1> USE DEF TypeOK
<1>1. CASE CollectPVC
  BY <1>1 DEF CollectPVC, Vanish, Objects, Maybe
<1>2. CASE CollectDeployment
  BY <1>2 DEF CollectDeployment, Vanish, Objects, Maybe
<1>3. CASE CollectService
  <2>1. PICK e \in ExposureTypes : /\ api' = [api EXCEPT !.svc[e] = Absent]
                                   /\ Vanish(cache.svc[e])
                                   /\ UNCHANGED edits
    BY <1>3 DEF CollectService
  <2> QED
    BY <2>1 DEF Vanish, Objects, Maybe
<1>4. CASE Rollout
  <2>1. [api.dep EXCEPT !.pod = Wanted(api.dep), !.ready = FALSE] \in Deployment
    BY <1>4 DEF Rollout, Wanted, Objects, Deployment, Maybe
  <2> QED
    BY <1>4, <2>1 DEF Rollout, Objects, Maybe
<1>5. CASE PodReady
  <2>1. [api.dep EXCEPT !.ready = TRUE] \in Deployment
    BY <1>5 DEF PodReady, Objects, Deployment, Maybe
  <2> QED
    BY <1>5, <2>1 DEF PodReady, Objects, Maybe
<1> QED
  BY <1>1, <1>2, <1>3, <1>4, <1>5 DEF ClusterStep

LEMMA UserStepType == TypeOK /\ UserStep => TypeOK'
<1> SUFFICES ASSUME TypeOK, UserStep PROVE TypeOK'
  OBVIOUS
<1> USE DEF TypeOK, CountEdit
<1>1. CountEdit => edits' \in 0..MaxEdits /\ edits \in Nat
  BY BoundsAssumption
<1>2. ASSUME NEW s \in ServerSpecs, CreateServer(s) PROVE TypeOK'
  <2>1. NewStatus \in Status
    BY DEF NewStatus, Status, Phases
  <2>2. [uid |-> edits + 1, gen |-> 1, spec |-> s, status |-> NewStatus] \in Server
    BY <1>1, <1>2, <2>1 DEF CreateServer, Edit, Server
  <2> QED
    BY <1>1, <1>2, <2>2 DEF CreateServer, Edit, Objects, Maybe
<1>3. ASSUME NEW s \in ServerSpecs, EditServer(s) PROVE TypeOK'
  <2> DEFINE edited == [api.gs EXCEPT !.gen = api.gs.gen + 1, !.spec = s]
  <2>1. api.gs \in Server
    BY <1>3 DEF EditServer, Objects, Maybe
  <2> DEFINE gen == api.gs.gen + 1
  <2>2. gen \in Nat
    BY <2>1 DEF Server
  <2> HIDE DEF gen
  <2>3. [api.gs EXCEPT !.gen = gen, !.spec = s] \in Server
    BY <2>1, <2>2 DEF Server
  <2>4. edited \in Server
    BY <2>3 DEF gen
  <2>5. api' = [api EXCEPT !.gs = edited]
    BY <1>3, <2>1 DEF EditServer
  <2> HIDE DEF edited
  <2> QED
    BY <1>1, <1>3, <2>4, <2>5 DEF EditServer, Edit, Objects, Maybe
<1>4. CASE DeleteServer
  BY <1>1, <1>4 DEF DeleteServer, Edit, Objects, Maybe
<1>5. ASSUME NEW t \in Templates, NEW spec \in Maybe(TemplateSpecs), SetTemplate(t, spec)
      PROVE  TypeOK'
  BY <1>1, <1>5 DEF SetTemplate, Edit, Objects
<1>6. ASSUME NEW b \in BackupStates, SetBackup(b) PROVE TypeOK'
  BY <1>1, <1>6 DEF SetBackup, Edit, Objects
<1>7. CASE DeletePVC
  BY <1>1, <1>7 DEF DeletePVC, Vanish, Objects, Maybe
<1>8. CASE DeleteDeployment
  BY <1>1, <1>8 DEF DeleteDeployment, Vanish, Objects, Maybe
<1> QED
  BY <1>2, <1>3, <1>4, <1>5, <1>6, <1>7, <1>8 DEF UserStep

LEMMA FaultStepType == TypeOK /\ FaultStep => TypeOK'
<1> SUFFICES ASSUME TypeOK, FaultStep PROVE TypeOK'
  OBVIOUS
<1> USE DEF TypeOK
<1>1. faults < MaxFaults => faults + 1 \in 0..MaxFaults
  BY BoundsAssumption
<1>2. CASE CallFails
  BY <1>1, <1>2, IdleType DEF Fault, CallFails, Idle
<1>3. CASE Restart
  BY <1>1, <1>3, IdleType DEF Fault, Restart, Idle, Objects, Views
<1>4. CASE PodFails
  <2>1. [api.dep EXCEPT !.ready = FALSE] \in Deployment
    BY <1>4 DEF Fault, PodFails, Objects, Deployment, Maybe
  <2> QED
    BY <1>1, <1>4, <2>1 DEF Fault, PodFails, Objects, Maybe
<1>5. CASE RestoreGetFails
  <2>1. api' \in Objects
    BY <1>5, ReportedType, UpdateStatusType DEF RestoreGetFails, Phases
  <2> QED
    BY <1>1, <1>5, <2>1, IdleType DEF Fault, RestoreGetFails, Idle
<1> QED
  BY <1>2, <1>3, <1>4, <1>5 DEF FaultStep

\* The type invariant holds in every reachable state: whichever helper a pass
\* stops at, the objects in the API server, the caches and the pass are well
\* formed, and no helper runs without the server and template it dereferences.
THEOREM TypeCorrect == Spec => []TypeOK
<1>1. Init => TypeOK
  <2> SUFFICES ASSUME Init PROVE TypeOK
    OBVIOUS
  <2>1. PICK tpl \in [Templates -> Maybe(TemplateSpecs)], backup \in BackupStates :
          api = [gs |-> Absent, tpl |-> tpl, pvc |-> Absent, dep |-> Absent,
                 svc |-> [e \in ExposureTypes |-> Absent],
                 account |-> FALSE, backup |-> backup]
    BY DEF Init
  <2>2. [e \in ExposureTypes |-> Absent] \in [ExposureTypes -> Maybe(Service)]
    BY DEF Maybe
  <2>3. api \in Objects
    BY <2>1, <2>2 DEF Objects, Maybe
  <2> QED
    <3>1. cache \in Views
      BY <2>3 DEF Init, Objects, Views
    <3>2. 0 \in 0..MaxEdits /\ 0 \in 0..MaxFaults
      BY BoundsAssumption
    <3> QED
      BY <2>3, <3>1, <3>2, IdleType DEF Init, TypeOK, Idle
<1>2. TypeOK /\ [Next]_vars => TypeOK'
  <2>1. TypeOK /\ UNCHANGED vars => TypeOK'
    BY DEF vars, TypeOK
  <2> QED
    BY <2>1, PassStepType, SyncStepType, ClusterStepType, UserStepType, FaultStepType
    DEF Next
<1> QED
  BY <1>1, <1>2, PTL DEF Spec

-----------------------------------------------------------------------------
(* ObservedInv is inductive.  Most steps touch none of what it speaks of:   *)
(* Quiet says so, and one lemma deals with all of them.                     *)

Quiet ==
  /\ api'.gs = api.gs
  /\ cache'.gs = cache.gs
  /\ edits' >= edits
  /\ \/ pass' = Idle
     \/ /\ pass.pc # "Idle" /\ pass'.gs = pass.gs
        /\ pass'.pc = "ApplyServices" => pass.pc = "ApplyServices"
     \/ pass' = pass
  /\ \/ api'.dep = Absent
     \/ /\ api.dep # Absent /\ api'.dep # Absent
        /\ api'.dep.spec = api.dep.spec

LEMMA BehindStable ==
  ASSUME TypeOK, edits' \in Nat, edits' >= edits, api'.gs = api.gs,
         NEW o \in Maybe(Server), Behind(o)
  PROVE  /\ o # Absent => o.uid <= edits'
         /\ (o # Absent /\ api'.gs # Absent /\ o.uid = api'.gs.uid) =>
              /\ o.gen <= api'.gs.gen
              /\ o.gen = api'.gs.gen => o.spec = api'.gs.spec
<1>1. o # Absent => o.uid \in Nat
  BY DEF Maybe, Server
<1>2. edits \in Nat
  BY DEF TypeOK
<1> QED
  BY <1>1, <1>2 DEF Behind

LEMMA QuietInv == TypeOK /\ TypeOK' /\ ObservedInv /\ Quiet => ObservedInv'
<1> SUFFICES ASSUME TypeOK, TypeOK', ObservedInv, Quiet PROVE ObservedInv'
  OBVIOUS
<1>1. edits \in Nat /\ edits' \in Nat /\ edits' >= edits
  BY DEF TypeOK, Quiet
<1>2. cache.gs \in Maybe(Server) /\ pass.gs \in Maybe(Server) /\ api.gs \in Maybe(Server)
  BY DEF TypeOK, Views, Passes, Objects
<1>3. Behind(cache.gs)'
  BY <1>1, <1>2, BehindStable DEF ObservedInv, Quiet, Behind
<1>4. Behind(pass.gs)'
  <2>1. CASE pass' = Idle
    BY <2>1 DEF Behind, Idle
  <2>2. CASE pass'.gs = pass.gs
    BY <1>1, <1>2, <2>2, BehindStable DEF ObservedInv, Quiet, Behind
  <2> QED
    BY <2>1, <2>2 DEF Quiet
<1>5. api'.gs # Absent => api'.gs.uid <= edits' /\ api'.gs.status.observed <= api'.gs.gen
  <2>1. api.gs # Absent => api.gs.uid \in Nat
    BY <1>2 DEF Maybe, Server
  <2> QED
    BY <1>1, <2>1 DEF ObservedInv, Quiet
<1>6. Idle.pc = "Idle"
  BY DEF Idle
<1>7. ((pass.pc # "Idle" /\ api.gs # Absent /\ Same(pass.gs, api.gs)) =>
         cache.gs # Absent /\ Same(cache.gs, api.gs))'
  BY <1>6 DEF ObservedInv, Quiet, Same
<1>8. (Observed =>
         /\ cache.gs # Absent /\ Same(cache.gs, api.gs)
         /\ pass.pc # "Idle" => Same(pass.gs, api.gs))'
  BY <1>6 DEF ObservedInv, Quiet, Same, Observed
<1>9. ((pass.pc = "ApplyServices" /\ api.dep # Absent) =>
         BuiltFrom(api.dep.spec, pass.gs.spec))'
  BY <1>6 DEF ObservedInv, Quiet, BuiltFrom
<1>10. ObservedSpecApplied'
  BY DEF ObservedInv, Quiet, ObservedSpecApplied, BuiltFrom
<1> QED
  BY <1>3, <1>4, <1>5, <1>7, <1>8, <1>9, <1>10 DEF ObservedInv

(* A status update that leaves observedGeneration as it was read. *)
LEMMA StatusKept ==
  ASSUME TypeOK, TypeOK', ObservedInv, pass.pc # "Idle",
         NEW status \in Status, status.observed = pass.gs.status.observed,
         UpdateStatus(status), pass' = Idle, UNCHANGED <<cache, edits>>
  PROVE  ObservedInv'
<1>1. CASE ~Unchanged
  <2>1. api' = api
    BY <1>1 DEF UpdateStatus
  <2>2. Quiet
    BY <2>1 DEF Quiet, TypeOK
  <2> QED
    BY <2>2, QuietInv
<1>2. CASE Unchanged
  <2> DEFINE new == [api.gs EXCEPT !.status = status]
  <2>1. api.gs \in Server /\ pass.gs = api.gs /\ api.gs # Absent
    BY <1>2, AbsentAssumption DEF Unchanged, TypeOK
  <2>2. /\ new.uid = api.gs.uid /\ new.gen = api.gs.gen /\ new.spec = api.gs.spec
        /\ new.status.observed = api.gs.status.observed
        /\ new \in Server
    BY <2>1 DEF Server
  <2>3. api' = [api EXCEPT !.gs = new]
    BY <1>2 DEF UpdateStatus
  <2> HIDE DEF new
  <2>4. api'.gs = new /\ api'.dep = api.dep /\ new # Absent
    BY <2>2, <2>3, AbsentAssumption DEF TypeOK, Objects
  <2>5. pass'.pc = "Idle" /\ pass'.gs = Absent
    BY DEF Idle
  <2>6. Behind(cache.gs)'
    BY <2>1, <2>2, <2>4 DEF ObservedInv, Behind
  <2>7. Behind(pass.gs)'
    BY <2>5 DEF Behind
  <2> QED
    BY <2>1, <2>2, <2>4, <2>5, <2>6, <2>7
    DEF ObservedInv, Same, Observed, ObservedSpecApplied, BuiltFrom
<1> QED
  BY <1>1, <1>2

LEMMA ReportKept ==
  ASSUME TypeOK, TypeOK', ObservedInv, pass.pc # "Idle",
         NEW phase \in Phases, NEW true, NEW false,
         UpdateStatus(Reported(phase, true, false)),
         pass' = Idle, UNCHANGED <<cache, edits>>
  PROVE  ObservedInv'
BY ReportedType, StatusKept

LEMMA PassStepKept == TypeOK /\ TypeOK' /\ ObservedInv /\ PassStep => ObservedInv'
<1> SUFFICES ASSUME TypeOK, TypeOK', ObservedInv, PassStep PROVE ObservedInv'
  OBVIOUS
<1>1. edits \in Nat /\ api \in Objects /\ cache \in Views
  BY DEF TypeOK
<1>2. pass.pc # "Idle" => pass.gs \in Server /\ pass.gs # Absent
  BY AbsentAssumption DEF TypeOK
<1>3. CASE Reconcile
  <2>1. UNCHANGED <<api, cache, edits>> /\ pass'.pc \in {"Idle", "FetchTemplate"}
    BY <1>3 DEF Reconcile, Idle
  <2>2. pass'.pc = "FetchTemplate" => cache.gs # Absent /\ pass'.gs = cache.gs
    BY <1>3 DEF Reconcile, Idle
  <2>3. pass'.pc = "Idle" => pass'.gs = Absent
    BY <1>3 DEF Reconcile, Idle
  <2> QED
    BY <2>1, <2>2, <2>3
    DEF ObservedInv, Behind, Same, Observed, ObservedSpecApplied, BuiltFrom
<1>4. CASE TemplateNotFound
  BY <1>4, ReportKept DEF TemplateNotFound, Report, Return, Phases
<1>5. CASE ConfigInvalid
  BY <1>5, ReportKept DEF ConfigInvalid, Report, Return, Phases
<1>6. CASE RestoreUnavailable
  BY <1>6, ReportKept DEF RestoreUnavailable, Report, Return, Phases
<1>7. CASE InvalidStorage
  <2> DEFINE status == [pass.gs.status EXCEPT
                          !.cond = SetConditions(@, Resolved, {"ConfigValid"})]
  <2>1. pass.pc # "Idle" /\ pass.gs.status \in Status
    BY <1>2, <1>7 DEF InvalidStorage, Server
  <2>2. status \in Status /\ status.observed = pass.gs.status.observed
    BY <2>1, SetConditionsType DEF Status
  <2> QED
    BY <1>7, <2>1, <2>2, StatusKept DEF InvalidStorage, Return
<1>8. CASE TemplateResolved \/ EnsureServiceAccount \/ ResolveRestoreSource
  <2>1. /\ api'.gs = api.gs /\ api'.dep = api.dep /\ UNCHANGED <<cache, edits>>
        /\ pass.pc # "Idle" /\ pass'.gs = pass.gs /\ pass'.pc # "ApplyServices"
    BY <1>1, <1>8 DEF TemplateResolved, EnsureServiceAccount, ResolveRestoreSource,
                      Objects, TypeOK, Passes
  <2> QED
    BY <1>1, <2>1, QuietInv DEF Quiet
<1>9. CASE ApplyPVC
  <2>1. /\ api'.gs = api.gs /\ api'.dep = api.dep /\ UNCHANGED <<cache, edits>>
        /\ pass.pc # "Idle" /\ pass'.gs = pass.gs /\ pass'.pc # "ApplyServices"
    BY <1>1, <1>9 DEF ApplyPVC, Objects, TypeOK, Passes
  <2> QED
    BY <1>1, <2>1, QuietInv DEF Quiet
<1>10. CASE ApplyDeployment
  <2>1. /\ api'.gs = api.gs /\ UNCHANGED <<cache, edits>>
        /\ pass.pc # "Idle" /\ pass'.gs = pass.gs /\ pass'.pc = "ApplyServices"
    BY <1>1, <1>10 DEF ApplyDeployment, Objects, TypeOK, Passes
  <2>2. api'.dep.spec = BuildDeployment(pass.gs.spec, pass.tpl)
    <3>1. cache.dep # Absent => cache.dep \in Deployment
      BY <1>1 DEF Views, Maybe
    <3> QED
      BY <1>1, <1>10, <3>1 DEF ApplyDeployment, Objects, Deployment
  <2>3. BuiltFrom(api'.dep.spec, pass.gs.spec)
    BY <2>2 DEF BuiltFrom, BuildDeployment
  <2>4. Behind(cache.gs)' /\ Behind(pass.gs)'
    BY <2>1 DEF ObservedInv, Behind
  <2>5. ObservedSpecApplied'
    BY <2>1, <2>3 DEF ObservedInv, ObservedSpecApplied, Observed, Same, BuiltFrom
  <2> QED
    BY <2>1, <2>3, <2>4, <2>5 DEF ObservedInv, Same, Observed, BuiltFrom
<1>11. ASSUME NEW e \in ExposureTypes, UpdateService(e) \/ CreateService(e)
       PROVE  ObservedInv'
  <2>1. /\ api'.gs = api.gs /\ api'.dep = api.dep /\ cache'.gs = cache.gs /\ edits' = edits
        /\ pass.pc = "ApplyServices"
        /\ pass' = Idle \/ pass'.gs = pass.gs
    BY <1>1, <1>11 DEF UpdateService, CreateService, Return, Objects, Views, TypeOK, Passes
  <2> QED
    BY <1>1, <2>1, QuietInv DEF Quiet
<1>12. CASE WriteRefused \/ DeploymentNotCached
  <2>1. UNCHANGED <<api, cache, edits>> /\ pass' = Idle
    BY <1>12 DEF WriteRefused, DeploymentNotCached, Return
  <2> QED
    BY <1>1, <2>1, QuietInv DEF Quiet
<1>13. CASE RefreshStatus
  <2>1. /\ pass.pc = "ApplyServices" /\ UpdateStatus(FinalStatus)
        /\ pass' = Idle /\ UNCHANGED <<cache, edits>>
    BY <1>13 DEF RefreshStatus, Return
  <2>2. CASE ~Unchanged
    <3>1. Quiet
      BY <1>1, <2>1, <2>2 DEF Quiet, UpdateStatus
    <3> QED
      BY <3>1, QuietInv
  <2>3. CASE Unchanged
    <3> DEFINE new == [api.gs EXCEPT !.status = FinalStatus]
    <3>1. api.gs \in Server /\ pass.gs = api.gs /\ api.gs # Absent
      BY <1>2, <2>1, <2>3 DEF Unchanged
    <3>2. /\ new.uid = api.gs.uid /\ new.gen = api.gs.gen /\ new.spec = api.gs.spec
          /\ new.status.observed = api.gs.gen
      BY <3>1 DEF Server, FinalStatus
    <3>3. api'.gs = new /\ api'.dep = api.dep
      BY <1>1, <2>1, <2>3 DEF UpdateStatus, Objects
    <3>4. api.gs.gen \in Nat
      BY <3>1 DEF Server
    <3> HIDE DEF new
    <3>5. pass'.pc = "Idle" /\ pass'.gs = Absent
      BY <2>1 DEF Idle
    <3>6. Behind(cache.gs)' /\ Behind(pass.gs)'
      BY <2>1, <3>1, <3>2, <3>3, <3>5 DEF ObservedInv, Behind
    <3>7. cache.gs # Absent /\ Same(cache.gs, api.gs)
      BY <2>1, <3>1 DEF ObservedInv, Same
    <3>8. ObservedSpecApplied'
      BY <2>1, <3>1, <3>2, <3>3 DEF ObservedInv, ObservedSpecApplied, BuiltFrom
    <3> QED
      BY <2>1, <3>1, <3>2, <3>3, <3>4, <3>5, <3>6, <3>7, <3>8 DEF ObservedInv, Same, Observed
  <2> QED
    BY <2>2, <2>3
<1> QED
  BY <1>3, <1>4, <1>5, <1>6, <1>7, <1>8, <1>9, <1>10, <1>11, <1>12, <1>13 DEF PassStep

LEMMA SyncStepKept == TypeOK /\ TypeOK' /\ ObservedInv /\ SyncStep => ObservedInv'
<1> SUFFICES ASSUME TypeOK, TypeOK', ObservedInv, SyncStep PROVE ObservedInv'
  OBVIOUS
<1>1. edits \in Nat /\ api \in Objects /\ cache \in Views
  BY DEF TypeOK
<1>2. CASE SyncServer
  <2>1. cache'.gs = api.gs /\ UNCHANGED <<api, pass, edits>>
    BY <1>1, <1>2 DEF SyncServer, Views
  <2>2. api.gs # Absent => api.gs.gen \in Nat
    BY <1>1 DEF Objects, Maybe, Server
  <2>3. Behind(cache.gs)' /\ Behind(pass.gs)'
    BY <2>1, <2>2 DEF ObservedInv, Behind
  <2> QED
    BY <2>1, <2>3 DEF ObservedInv, Same, Observed, ObservedSpecApplied, BuiltFrom
<1>3. CASE SyncTemplates \/ SyncPVC \/ SyncDeployment \/ SyncServices
  <2>1. cache'.gs = cache.gs /\ UNCHANGED <<api, pass, edits>>
    BY <1>1, <1>3 DEF SyncTemplates, SyncPVC, SyncDeployment, SyncServices, Views
  <2> QED
    BY <1>1, <2>1, QuietInv DEF Quiet
<1> QED
  BY <1>2, <1>3 DEF SyncStep

LEMMA ClusterStepKept == TypeOK /\ TypeOK' /\ ObservedInv /\ ClusterStep => ObservedInv'
<1> SUFFICES ASSUME TypeOK, TypeOK', ObservedInv, ClusterStep PROVE ObservedInv'
  OBVIOUS
<1>1. edits \in Nat /\ api \in Objects /\ cache \in Views
  BY DEF TypeOK
<1>2. CASE CollectPVC \/ CollectService
  <2>1. api'.gs = api.gs /\ api'.dep = api.dep /\ UNCHANGED <<cache, pass, edits>>
    BY <1>1, <1>2 DEF CollectPVC, CollectService, Vanish, Objects
  <2> QED
    BY <1>1, <2>1, QuietInv DEF Quiet
<1>3. CASE CollectDeployment
  <2>1. api'.gs = api.gs /\ api'.dep = Absent /\ UNCHANGED <<cache, pass, edits>>
    BY <1>1, <1>3 DEF CollectDeployment, Vanish, Objects
  <2> QED
    BY <1>1, <2>1, QuietInv DEF Quiet
<1>4. CASE Rollout \/ PodReady
  <2>1. api.dep \in Deployment /\ api.dep # Absent
    BY <1>1, <1>4 DEF Rollout, PodReady, Objects, Maybe
  <2>2. api'.dep \in Maybe(Deployment) /\ api'.dep.spec = api.dep.spec /\ api'.dep # Absent
    <3>1. CASE Rollout
      <4> DEFINE new == [api.dep EXCEPT !.pod = Wanted(api.dep), !.ready = FALSE]
      <4>1. new \in Deployment /\ new.spec = api.dep.spec
        BY <2>1 DEF Deployment, Wanted
      <4>2. api'.dep = new
        BY <1>1, <3>1 DEF Rollout, Objects
      <4> QED
        BY <4>1, <4>2, AbsentAssumption DEF Maybe
    <3>2. CASE PodReady
      <4> DEFINE new == [api.dep EXCEPT !.ready = TRUE]
      <4>1. new \in Deployment /\ new.spec = api.dep.spec
        BY <2>1 DEF Deployment
      <4>2. api'.dep = new
        BY <1>1, <3>2 DEF PodReady, Objects
      <4> QED
        BY <4>1, <4>2, AbsentAssumption DEF Maybe
    <3> QED
      BY <1>4, <3>1, <3>2
  <2>3. api'.gs = api.gs /\ UNCHANGED <<cache, pass, edits>>
    BY <1>1, <1>4 DEF Rollout, PodReady, Objects
  <2> QED
    BY <1>1, <2>1, <2>2, <2>3, QuietInv DEF Quiet
<1> QED
  BY <1>2, <1>3, <1>4 DEF ClusterStep

LEMMA UserStepKept == TypeOK /\ TypeOK' /\ ObservedInv /\ UserStep => ObservedInv'
<1> SUFFICES ASSUME TypeOK, TypeOK', ObservedInv, UserStep PROVE ObservedInv'
  OBVIOUS
<1>1. edits \in Nat /\ api \in Objects /\ cache \in Views /\ pass \in Passes
  BY DEF TypeOK
<1>2. CountEdit => edits' = edits + 1
  BY DEF CountEdit
<1>3. ASSUME NEW s \in ServerSpecs, CreateServer(s) PROVE ObservedInv'
  <2> DEFINE new == [uid |-> edits + 1, gen |-> 1, spec |-> s, status |-> NewStatus]
  <2>1. /\ new.uid = edits + 1 /\ new.gen = 1 /\ new.status.observed = 0
    BY DEF NewStatus
  <2>2. api.gs = Absent /\ api'.gs = new /\ api'.dep = api.dep
    BY <1>1, <1>3 DEF CreateServer, Edit, Objects
  <2>3. UNCHANGED <<cache, pass>> /\ edits' = edits + 1
    BY <1>2, <1>3 DEF CreateServer, Edit
  <2> HIDE DEF new
  <2>4. /\ cache.gs # Absent => cache.gs.uid \in Nat
        /\ pass.gs # Absent => pass.gs.uid \in Nat
    BY <1>1 DEF Views, Passes, Maybe, Server
  <2>5. /\ cache.gs # Absent => cache.gs.uid < new.uid
        /\ pass.gs # Absent => pass.gs.uid < new.uid
    BY <1>1, <2>1, <2>4 DEF ObservedInv, Behind
  <2>6. Behind(cache.gs)' /\ Behind(pass.gs)'
    BY <1>1, <2>1, <2>2, <2>3, <2>4, <2>5 DEF Behind
  <2>7. pass.pc # "Idle" => pass.gs # Absent
    BY AbsentAssumption DEF TypeOK
  <2>8. ~(pass.pc # "Idle" /\ Same(pass.gs, new))
    BY <1>1, <2>1, <2>4, <2>5, <2>7 DEF Same
  <2>9. ~Observed'
    BY <2>1, <2>2 DEF Observed
  <2>10. api'.gs.uid <= edits' /\ api'.gs.status.observed <= api'.gs.gen
    BY <1>1, <2>1, <2>2, <2>3
  <2>11. ((pass.pc # "Idle" /\ api.gs # Absent /\ Same(pass.gs, api.gs)) =>
            cache.gs # Absent /\ Same(cache.gs, api.gs))'
    BY <2>2, <2>3, <2>8 DEF Same
  <2>12. ObservedSpecApplied'
    BY <2>9 DEF ObservedSpecApplied, Observed
  <2> QED
    BY <2>2, <2>3, <2>6, <2>9, <2>10, <2>11, <2>12 DEF ObservedInv, BuiltFrom
<1>4. ASSUME NEW s \in ServerSpecs, EditServer(s) PROVE ObservedInv'
  <2> DEFINE gen == api.gs.gen + 1
             new == [api.gs EXCEPT !.gen = gen, !.spec = s]
  <2>1. api.gs \in Server /\ api.gs # Absent
    BY <1>1, <1>4 DEF EditServer, Objects, Maybe
  <2>2. /\ new.uid = api.gs.uid /\ new.gen = api.gs.gen + 1
        /\ new.status = api.gs.status
    BY <2>1 DEF Server
  <2>3. api'.gs = new /\ api'.dep = api.dep
    BY <1>1, <1>4 DEF EditServer, Edit, Objects
  <2>4. UNCHANGED <<cache, pass>> /\ edits' = edits + 1
    BY <1>2, <1>4 DEF EditServer, Edit
  <2> HIDE DEF new, gen
  <2>5. /\ cache.gs # Absent => cache.gs.uid \in Nat /\ cache.gs.gen \in Nat
        /\ pass.gs # Absent => pass.gs.uid \in Nat /\ pass.gs.gen \in Nat
        /\ api.gs.gen \in Nat /\ api.gs.uid \in Nat /\ api.gs.status.observed \in Nat
    BY <1>1, <2>1 DEF Views, Passes, Maybe, Server, Status
  <2>6. Behind(cache.gs)' /\ Behind(pass.gs)'
    BY <1>1, <2>1, <2>2, <2>3, <2>4, <2>5 DEF ObservedInv, Behind
  <2>7. pass.pc # "Idle" => pass.gs # Absent
    BY AbsentAssumption DEF TypeOK
  <2>8. ~(pass.pc # "Idle" /\ Same(pass.gs, new))
    BY <2>1, <2>2, <2>5, <2>7 DEF ObservedInv, Behind, Same
  <2>9. ~Observed'
    BY <2>1, <2>2, <2>3, <2>5 DEF ObservedInv, Observed
  <2>10. api'.gs.uid <= edits' /\ api'.gs.status.observed <= api'.gs.gen
    BY <1>1, <2>1, <2>2, <2>3, <2>4, <2>5 DEF ObservedInv
  <2>11. ((pass.pc # "Idle" /\ api.gs # Absent /\ Same(pass.gs, api.gs)) =>
            cache.gs # Absent /\ Same(cache.gs, api.gs))'
    BY <2>3, <2>4, <2>8 DEF Same
  <2>12. ObservedSpecApplied'
    BY <2>9 DEF ObservedSpecApplied, Observed
  <2> QED
    BY <2>3, <2>4, <2>6, <2>9, <2>10, <2>11, <2>12 DEF ObservedInv, BuiltFrom
<1>5. CASE DeleteServer
  <2>1. /\ api'.gs = Absent /\ api'.dep = api.dep /\ UNCHANGED <<cache, pass>>
        /\ edits' = edits + 1
    BY <1>1, <1>2, <1>5 DEF DeleteServer, Edit, Objects
  <2>2. /\ cache.gs # Absent => cache.gs.uid \in Nat
        /\ pass.gs # Absent => pass.gs.uid \in Nat
    BY <1>1 DEF Views, Passes, Maybe, Server
  <2>3. Behind(cache.gs)' /\ Behind(pass.gs)'
    BY <1>1, <2>1, <2>2 DEF ObservedInv, Behind
  <2> QED
    BY <2>1, <2>3 DEF ObservedInv, Observed, ObservedSpecApplied, BuiltFrom
<1>6. ASSUME NEW t \in Templates, NEW spec, SetTemplate(t, spec) PROVE ObservedInv'
  <2>1. /\ api'.gs = api.gs /\ api'.dep = api.dep /\ UNCHANGED <<cache, pass>>
        /\ edits' = edits + 1
    BY <1>1, <1>2, <1>6 DEF SetTemplate, Edit, Objects
  <2> QED
    BY <1>1, <2>1, QuietInv DEF Quiet
<1>7. ASSUME NEW b, SetBackup(b) PROVE ObservedInv'
  <2>1. /\ api'.gs = api.gs /\ api'.dep = api.dep /\ UNCHANGED <<cache, pass>>
        /\ edits' = edits + 1
    BY <1>1, <1>2, <1>7 DEF SetBackup, Edit, Objects
  <2> QED
    BY <1>1, <2>1, QuietInv DEF Quiet
<1>8. CASE DeletePVC \/ DeleteDeployment
  <2>1. /\ api'.gs = api.gs /\ api'.dep \in {api.dep, Absent} /\ UNCHANGED <<cache, pass>>
        /\ edits' = edits + 1
    BY <1>1, <1>2, <1>8 DEF DeletePVC, DeleteDeployment, Vanish, Objects
  <2> QED
    BY <1>1, <2>1, QuietInv DEF Quiet
<1> QED
  BY <1>3, <1>4, <1>5, <1>6, <1>7, <1>8 DEF UserStep

LEMMA FaultStepKept == TypeOK /\ TypeOK' /\ ObservedInv /\ FaultStep => ObservedInv'
<1> SUFFICES ASSUME TypeOK, TypeOK', ObservedInv, FaultStep PROVE ObservedInv'
  OBVIOUS
<1>1. edits \in Nat /\ api \in Objects /\ cache \in Views
  BY DEF TypeOK
<1>2. CASE CallFails
  <2>1. UNCHANGED <<api, cache, edits>> /\ pass' = Idle
    BY <1>2 DEF Fault, CallFails
  <2> QED
    BY <1>1, <2>1, QuietInv DEF Quiet
<1>3. CASE Restart
  <2>1. /\ cache'.gs = api.gs /\ pass'.pc = "Idle" /\ pass'.gs = Absent
        /\ UNCHANGED <<api, edits>>
    BY <1>3 DEF Fault, Restart, Idle
  <2>2. api.gs # Absent => api.gs.gen \in Nat
    BY <1>1 DEF Objects, Maybe, Server
  <2>3. Behind(cache.gs)' /\ Behind(pass.gs)'
    BY <2>1, <2>2 DEF ObservedInv, Behind
  <2> QED
    BY <2>1, <2>3 DEF ObservedInv, Same, Observed, ObservedSpecApplied, BuiltFrom
<1>4. CASE PodFails
  <2> DEFINE new == [api.dep EXCEPT !.ready = FALSE]
  <2>1. api.dep \in Deployment /\ api.dep # Absent
    BY <1>1, <1>4 DEF Fault, PodFails, Objects, Maybe
  <2>2. new \in Deployment /\ new.spec = api.dep.spec
    BY <2>1 DEF Deployment
  <2>3. /\ api'.dep = new /\ api'.gs = api.gs /\ UNCHANGED <<cache, pass, edits>>
    BY <1>1, <1>4 DEF Fault, PodFails, Objects
  <2>4. api'.dep # Absent
    BY <2>2, <2>3, AbsentAssumption
  <2> HIDE DEF new
  <2> QED
    BY <1>1, <2>1, <2>2, <2>3, <2>4, QuietInv DEF Quiet
<1>5. CASE RestoreGetFails
  BY <1>5, ReportKept DEF RestoreGetFails, Phases
<1> QED
  BY <1>2, <1>3, <1>4, <1>5 DEF FaultStep

LEMMA ObservedInductive ==
  /\ Init => ObservedInv
  /\ TypeOK /\ TypeOK' /\ ObservedInv /\ [Next]_vars => ObservedInv'
<1>1. Init => ObservedInv
  <2> SUFFICES ASSUME Init PROVE ObservedInv
    OBVIOUS
  <2>1. api.gs = Absent /\ cache.gs = Absent /\ pass.pc = "Idle" /\ pass.gs = Absent
    BY DEF Init, Idle
  <2> QED
    BY <2>1 DEF ObservedInv, Behind, Observed, ObservedSpecApplied
<1>2. TypeOK /\ TypeOK' /\ ObservedInv /\ [Next]_vars => ObservedInv'
  <2>1. ObservedInv /\ UNCHANGED vars => ObservedInv'
    BY DEF vars, ObservedInv, Behind, Same, Observed, ObservedSpecApplied, BuiltFrom
  <2> QED
    BY <2>1, PassStepKept, SyncStepKept, ClusterStepKept, UserStepKept, FaultStepKept
    DEF Next
<1> QED
  BY <1>1, <1>2

\* The inductive invariant behind observedGeneration holds in every reachable
\* state of the reconciler, with any number of users' edits and faults.
THEOREM ObservedInvariant == Spec => []ObservedInv
<1>1. Init => ObservedInv
  BY ObservedInductive
<1>2. TypeOK /\ TypeOK' /\ ObservedInv /\ [Next]_vars => ObservedInv'
  BY ObservedInductive
<1> QED
  BY <1>1, <1>2, TypeCorrect, PTL DEF Spec

\* When status says the current generation was observed, the Deployment, if it
\* exists, runs the current spec: replicas, config and template name.
THEOREM ObservedSpecIsApplied == Spec => []ObservedSpecApplied
<1>1. ObservedInv => ObservedSpecApplied
  BY DEF ObservedInv
<1> QED
  BY <1>1, ObservedInvariant, PTL

\* No step of any actor takes the observedGeneration of a living server back.
THEOREM ObservedMonotonic == Spec => ObservedNeverRegresses
<1> DEFINE Kept == (api.gs # Absent /\ api'.gs # Absent /\ api'.gs.uid = api.gs.uid)
                     => api'.gs.status.observed >= api.gs.status.observed
<1>1. TypeOK /\ ObservedInv /\ [Next]_vars => Kept
  <2> SUFFICES ASSUME TypeOK, ObservedInv, [Next]_vars,
                      api.gs # Absent, api'.gs # Absent, api'.gs.uid = api.gs.uid
               PROVE  api'.gs.status.observed >= api.gs.status.observed
    OBVIOUS
  <2>1. api \in Objects /\ api.gs \in Server /\ api.gs.status.observed \in Nat
    BY DEF TypeOK, Objects, Maybe, Server, Status
  <2>2. CASE api'.gs = api.gs
    BY <2>1, <2>2
  <2>3. ASSUME NEW status, UpdateStatus(status), status.observed >= api.gs.status.observed
        PROVE  api'.gs.status.observed >= api.gs.status.observed
    <3>1. CASE Unchanged
      <4>1. api'.gs = [api.gs EXCEPT !.status = status]
        BY <2>1, <2>3, <3>1 DEF UpdateStatus, Objects
      <4> QED
        BY <2>1, <2>3, <4>1 DEF Server
    <3>2. CASE ~Unchanged
      BY <2>1, <2>3, <3>2 DEF UpdateStatus
    <3> QED
      BY <3>1, <3>2
  <2>4. ASSUME ~Unchanged, NEW status, UpdateStatus(status)
        PROVE  api'.gs.status.observed >= api.gs.status.observed
    BY <2>1, <2>4 DEF UpdateStatus
  <2>5. ASSUME NEW phase, NEW true, NEW false, UpdateStatus(Reported(phase, true, false))
        PROVE  api'.gs.status.observed >= api.gs.status.observed
    <3> DEFINE status == Reported(phase, true, false)
    <3>1. UpdateStatus(status) /\ status.observed = pass.gs.status.observed
      BY <2>5 DEF Reported
    <3> HIDE DEF status
    <3>2. CASE Unchanged
      BY <2>1, <2>3, <3>1, <3>2 DEF Unchanged
    <3> QED
      BY <2>4, <3>1, <3>2
  <2>6. CASE InvalidStorage
    <3> DEFINE status == [pass.gs.status EXCEPT
                            !.cond = SetConditions(@, Resolved, {"ConfigValid"})]
    <3>1. UpdateStatus(status) /\ pass.gs.status \in Status
      BY <2>6 DEF InvalidStorage, TypeOK, Server
    <3>2. status.observed = pass.gs.status.observed
      BY <3>1 DEF Status
    <3> HIDE DEF status
    <3>3. CASE Unchanged
      BY <2>1, <2>3, <3>1, <3>2, <3>3 DEF Unchanged
    <3> QED
      BY <2>4, <3>1, <3>3
  <2>7. CASE RefreshStatus
    <3>1. UpdateStatus(FinalStatus) /\ FinalStatus.observed = pass.gs.gen
      BY <2>7 DEF RefreshStatus, FinalStatus
    <3>2. api.gs.gen \in Nat /\ api.gs.status.observed <= api.gs.gen
      BY <2>1 DEF Server, ObservedInv
    <3>3. CASE Unchanged
      BY <2>1, <2>3, <3>1, <3>2, <3>3 DEF Unchanged
    <3> QED
      BY <2>4, <3>1, <3>3
  <2>8. CASE PassStep
    <3>1. CASE \/ Reconcile \/ TemplateResolved \/ EnsureServiceAccount
               \/ ResolveRestoreSource \/ ApplyPVC \/ ApplyDeployment
               \/ WriteRefused \/ DeploymentNotCached
               \/ \E e \in ExposureTypes : UpdateService(e) \/ CreateService(e)
      BY <2>1, <2>2, <3>1 DEF Reconcile, TemplateResolved, EnsureServiceAccount,
         ResolveRestoreSource, ApplyPVC, ApplyDeployment, WriteRefused,
         DeploymentNotCached, UpdateService, CreateService, Objects
    <3>2. CASE TemplateNotFound \/ ConfigInvalid \/ RestoreUnavailable
      BY <2>5, <3>2 DEF TemplateNotFound, ConfigInvalid, RestoreUnavailable, Report
    <3> QED
      BY <2>6, <2>7, <2>8, <3>1, <3>2 DEF PassStep
  <2>9. CASE SyncStep \/ ClusterStep \/ CallFails \/ Restart \/ PodFails \/ UNCHANGED vars
    BY <2>1, <2>2, <2>9 DEF SyncStep, SyncServer, SyncTemplates, SyncPVC, SyncDeployment,
       SyncServices, ClusterStep, CollectPVC, CollectDeployment, CollectService, Rollout,
       PodReady, CallFails, Restart, PodFails, Objects, vars
  <2>10. CASE RestoreGetFails
    BY <2>5, <2>10 DEF RestoreGetFails
  <2>11. CASE UserStep
    <3>1. ASSUME NEW s \in ServerSpecs, EditServer(s)
          PROVE  api'.gs.status.observed >= api.gs.status.observed
      <4> DEFINE gen == api.gs.gen + 1
      <4>1. api'.gs = [api.gs EXCEPT !.gen = gen, !.spec = s]
        BY <2>1, <3>1 DEF EditServer, Objects
      <4> HIDE DEF gen
      <4> QED
        BY <2>1, <4>1 DEF Server
    <3>2. ASSUME NEW s \in ServerSpecs, CreateServer(s) PROVE FALSE
      BY <3>2 DEF CreateServer
    <3>3. CASE DeleteServer
      BY <2>1, <3>3 DEF DeleteServer, Objects
    <3>4. CASE \/ \E t \in Templates, spec \in Maybe(TemplateSpecs) : SetTemplate(t, spec)
               \/ \E b \in BackupStates : SetBackup(b)
               \/ DeletePVC \/ DeleteDeployment
      BY <2>1, <2>2, <3>4 DEF SetTemplate, SetBackup, DeletePVC, DeleteDeployment, Objects
    <3> QED
      BY <2>11, <3>1, <3>2, <3>3, <3>4 DEF UserStep
  <2> QED
    BY <2>8, <2>9, <2>10, <2>11 DEF Next, FaultStep
<1>2. TypeOK /\ ObservedInv /\ [Next]_vars => [Kept]_vars
  BY <1>1
<1> QED
  BY <1>2, TypeCorrect, ObservedInvariant, PTL DEF Spec, ObservedNeverRegresses

=============================================================================
