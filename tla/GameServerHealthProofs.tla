----------------------- MODULE GameServerHealthProofs -----------------------
(* That a healthy phase is backed by the conditions of the same pass.        *)
EXTENDS GameServerProofs

\* What is true of a stored server g.  A generation whose own size does not parse
\* is never observed, so InvalidStorage, the one error path that leaves the phase
\* alone, speaks of an observed generation only when the size is the template's.
Backed(g) ==
  (g # Absent /\ g.status.observed = g.gen) =>
    /\ g.spec.size # "bad"
    /\ g.status.phase \in Healthy =>
         /\ g.status.cond["TemplateResolved"] = "True"
         /\ g.status.cond["ConfigValid"] = "True" \/ g.spec.size = ""
         /\ (g.status.cond["Ready"] = "True") <=> (g.status.phase = "Ready")

\* A pass past applyPVC works on a server whose own size, if any, parses.
PassSized == pass.pc \in {"ApplyDeployment", "ApplyServices"} => pass.gs.spec.size # "bad"

HealthInv == Backed(api.gs) /\ PassSized

-----------------------------------------------------------------------------

LEMMA NewStatusBacked ==
  ASSUME TypeOK, HealthInv, pass.pc # "Idle", NEW status, UpdateStatus(status),
         Unchanged => \A g \in Server :
           (/\ g.spec = api.gs.spec /\ g.gen = api.gs.gen /\ g.status = status) => Backed(g),
         status \in Status
  PROVE  Backed(api.gs)'
<1>1. CASE Unchanged
  <2> DEFINE new == [api.gs EXCEPT !.status = status]
  <2>1. api.gs \in Server
    BY <1>1 DEF Unchanged, TypeOK
  <2>2. new \in Server /\ new.spec = api.gs.spec /\ new.gen = api.gs.gen /\ new.status = status
    BY <2>1 DEF Server
  <2>3. api' = [api EXCEPT !.gs = new]
    BY <1>1 DEF UpdateStatus
  <2> HIDE DEF new
  <2>4. api'.gs = new
    BY <2>3 DEF TypeOK, Objects
  <2>5. Backed(new)
    BY <1>1, <2>2
  <2> QED
    BY <2>4, <2>5 DEF Backed, Healthy
<1>2. CASE ~Unchanged
  BY <1>2 DEF UpdateStatus, HealthInv, Backed, Healthy
<1> QED
  BY <1>1, <1>2

\* Every error return but InvalidStorage takes a healthy phase away.
LEMMA ReportBacked ==
  ASSUME TypeOK, HealthInv, pass.pc # "Idle",
         NEW phase \in {"Pending", "Degraded"}, NEW true, NEW false,
         UpdateStatus(Reported(phase, true, false)), pass' = Idle
  PROVE  HealthInv'
<1> DEFINE status == Reported(phase, true, false)
<1>1. phase \in Phases
  BY DEF Phases
<1>2. /\ status \in Status /\ UpdateStatus(status)
      /\ status.observed = pass.gs.status.observed
      /\ status.phase \notin Healthy
  BY <1>1, ReportedType DEF Healthy
<1> HIDE DEF status
<1>3. ASSUME Unchanged, NEW g \in Server,
             g.spec = api.gs.spec, g.gen = api.gs.gen, g.status = status
      PROVE  Backed(g)
  <2>1. api.gs # Absent /\ status.observed = api.gs.status.observed
    BY <1>2, <1>3, AbsentAssumption DEF Unchanged, TypeOK
  <2> QED
    BY <1>2, <1>3, <2>1 DEF HealthInv, Backed, Healthy
<1>4. Backed(api.gs)'
  BY <1>2, <1>3, NewStatusBacked
<1>5. pass'.pc = "Idle"
  BY DEF Idle
<1> QED
  BY <1>4, <1>5 DEF HealthInv, PassSized

LEMMA InvalidStorageBacked ==
  ASSUME TypeOK, HealthInv, InvalidStorage
  PROVE  HealthInv'
<1> DEFINE status == [pass.gs.status EXCEPT !.cond = SetConditions(@, Resolved, {"ConfigValid"})]
<1>1. pass.gs.status \in Status /\ pass.pc # "Idle"
  BY DEF InvalidStorage, TypeOK, Server
<1>2. /\ status \in Status /\ status.observed = pass.gs.status.observed
      /\ status.phase = pass.gs.status.phase
      /\ status.cond["Ready"] = pass.gs.status.cond["Ready"]
      /\ status.cond["TemplateResolved"] = "True"
  BY <1>1, SetConditionsType DEF Status, SetConditions, Resolved, Conditions
<1>3. UpdateStatus(status) /\ pass.gs.spec.size \in {"", "bad"}
  BY DEF InvalidStorage, SizeParses, TypeOK, Server
<1> HIDE DEF status
<1>4. ASSUME Unchanged, NEW g \in Server,
             g.spec = api.gs.spec, g.gen = api.gs.gen, g.status = status
      PROVE  Backed(g)
  <2>1. api.gs # Absent /\ api.gs = pass.gs
    BY <1>4, AbsentAssumption DEF Unchanged, TypeOK, InvalidStorage
  <2>2. Backed(api.gs)
    BY DEF HealthInv
  <2> QED
    BY <1>2, <1>3, <1>4, <2>1, <2>2 DEF Backed, Healthy
<1>5. Backed(api.gs)'
  BY <1>1, <1>2, <1>3, <1>4, NewStatusBacked
<1>6. pass'.pc = "Idle"
  BY DEF InvalidStorage, Return, Idle
<1> QED
  BY <1>5, <1>6 DEF HealthInv, PassSized

LEMMA RefreshStatusBacked ==
  ASSUME TypeOK, HealthInv, RefreshStatus
  PROVE  HealthInv'
<1>1. pass.gs \in Server /\ pass.pc = "ApplyServices" /\ pass.gs.spec.size # "bad"
  BY DEF RefreshStatus, TypeOK, HealthInv, PassSized
<1>2. pass.gs.status.cond \in [Conditions -> {"Unknown", "True", "False"}] /\ pass.gs.gen \in Nat
  BY <1>1 DEF Server, Status
<1>3. FinalPhase \in Phases
  BY DEF FinalPhase, Phases
<1>4. FinalStatus \in Status
  BY <1>2, <1>3, SetConditionsType DEF FinalStatus, Status
<1>5. /\ FinalStatus.cond["TemplateResolved"] = "True"
      /\ FinalStatus.cond["ConfigValid"] = "True"
      /\ (FinalStatus.cond["Ready"] = "True") <=> (FinalStatus.phase = "Ready")
  BY DEF FinalStatus, SetConditions, Resolved, Conditions
<1>6. UpdateStatus(FinalStatus)
  BY DEF RefreshStatus
<1>7. ASSUME Unchanged, NEW g \in Server,
             g.spec = api.gs.spec, g.gen = api.gs.gen, g.status = FinalStatus
      PROVE  Backed(g)
  BY <1>1, <1>5, <1>7 DEF Backed, Healthy, Unchanged
<1>8. Backed(api.gs)'
  BY <1>1, <1>4, <1>6, <1>7, NewStatusBacked
<1>9. pass'.pc = "Idle"
  BY DEF RefreshStatus, Return, Idle
<1> QED
  BY <1>8, <1>9 DEF HealthInv, PassSized

LEMMA PassStepBacked == TypeOK /\ HealthInv /\ PassStep => HealthInv'
<1> SUFFICES ASSUME TypeOK, HealthInv, PassStep PROVE HealthInv'
  OBVIOUS
<1> USE DEF TypeOK
<1>1. CASE TemplateNotFound \/ ConfigInvalid \/ RestoreUnavailable
  BY <1>1, ReportBacked DEF TemplateNotFound, ConfigInvalid, RestoreUnavailable, Report,
     Return
<1>2. CASE InvalidStorage
  BY <1>2, InvalidStorageBacked
<1>3. CASE RefreshStatus
  BY <1>3, RefreshStatusBacked
<1>4. CASE Reconcile \/ TemplateResolved \/ EnsureServiceAccount \/ ResolveRestoreSource
  <2>1. api'.gs = api.gs
    BY <1>4 DEF Reconcile, TemplateResolved, EnsureServiceAccount, ResolveRestoreSource, Objects
  <2>2. pass'.pc \notin {"ApplyDeployment", "ApplyServices"}
    <3>1. CASE Reconcile
      BY <3>1 DEF Reconcile, Idle
    <3>2. CASE TemplateResolved
      BY <3>2 DEF TemplateResolved, Passes
    <3>3. CASE EnsureServiceAccount \/ ResolveRestoreSource
      BY <3>3 DEF EnsureServiceAccount, ResolveRestoreSource, Passes
    <3> QED
      BY <1>4, <3>1, <3>2, <3>3
  <2> QED
    BY <2>1, <2>2 DEF HealthInv, PassSized, Backed, Healthy
<1>5. CASE ApplyPVC \/ ApplyDeployment
  <2>1. api'.gs = api.gs
    BY <1>5 DEF ApplyPVC, ApplyDeployment, Objects
  <2>2. pass'.gs = pass.gs /\ pass.gs.spec.size # "bad"
    BY <1>5 DEF ApplyPVC, ApplyDeployment, SizeParses, Passes, HealthInv, PassSized
  <2> QED
    BY <2>1, <2>2 DEF HealthInv, PassSized, Backed, Healthy
<1>6. ASSUME NEW e \in ExposureTypes, UpdateService(e) \/ CreateService(e)
      PROVE  HealthInv'
  <2>1. api'.gs = api.gs
    BY <1>6 DEF UpdateService, CreateService, Objects
  <2>2. pass'.pc = "Idle" \/ (pass'.gs = pass.gs /\ pass.gs.spec.size # "bad")
    <3>1. Idle.pc = "Idle"
      BY DEF Idle
    <3>2. pass' = Idle \/ pass'.gs = pass.gs
      BY <1>6 DEF UpdateService, CreateService, Return, Passes
    <3>3. pass.gs.spec.size # "bad"
      BY <1>6 DEF UpdateService, CreateService, HealthInv, PassSized
    <3> QED
      BY <3>1, <3>2, <3>3
  <2> QED
    BY <2>1, <2>2 DEF HealthInv, PassSized, Backed, Healthy
<1>7. CASE WriteRefused \/ DeploymentNotCached
  <2>1. api' = api /\ pass'.pc = "Idle"
    BY <1>7 DEF WriteRefused, DeploymentNotCached, Return, Idle
  <2> QED
    BY <2>1 DEF HealthInv, PassSized, Backed, Healthy
<1> QED
  BY <1>1, <1>2, <1>3, <1>4, <1>5, <1>6, <1>7 DEF PassStep

LEMMA UserStepBacked == TypeOK /\ ObservedInv /\ HealthInv /\ UserStep => HealthInv'
<1> SUFFICES ASSUME TypeOK, ObservedInv, HealthInv, UserStep PROVE HealthInv'
  OBVIOUS
<1>0. api \in Objects /\ api.gs \in Maybe(Server)
  BY DEF TypeOK, Objects
<1>1. pass' = pass
  BY DEF UserStep, CreateServer, EditServer, DeleteServer, SetTemplate, SetBackup,
     DeletePVC, DeleteDeployment, Edit, Vanish
<1>2. ASSUME NEW s \in ServerSpecs, CreateServer(s) PROVE Backed(api.gs)'
  <2>1. api'.gs.gen = 1 /\ api'.gs.status.observed = 0
    BY <1>0, <1>2 DEF CreateServer, NewStatus, Objects
  <2>2. api'.gs.status.observed # api'.gs.gen
    BY <2>1
  <2> QED
    BY <2>2 DEF Backed
<1>3. ASSUME NEW s \in ServerSpecs, EditServer(s) PROVE Backed(api.gs)'
  <2> DEFINE gen == api.gs.gen + 1
             new == [api.gs EXCEPT !.gen = gen, !.spec = s]
  <2>1. api.gs \in Server /\ api.gs # Absent
    BY <1>0, <1>3 DEF EditServer, Maybe
  <2>2. /\ api.gs.status.observed \in Nat /\ api.gs.gen \in Nat
        /\ api.gs.status.observed <= api.gs.gen
    BY <2>1 DEF Server, Status, ObservedInv
  <2>3. api.gs.status.observed # gen
    BY <2>2
  <2>4. api'.gs = new
    BY <1>0, <1>3 DEF EditServer, Objects
  <2> HIDE DEF gen
  <2>5. new.gen = gen /\ new.status = api.gs.status
    BY <2>1 DEF Server
  <2> HIDE DEF new
  <2> QED
    BY <2>3, <2>4, <2>5 DEF Backed, Healthy
<1>4. CASE DeleteServer
  BY <1>0, <1>4 DEF DeleteServer, Objects, Backed, Healthy, HealthInv, PassSized, Edit
<1>5. CASE \/ \E t \in Templates, spec \in Maybe(TemplateSpecs) : SetTemplate(t, spec)
           \/ \E b \in BackupStates : SetBackup(b)
           \/ DeletePVC \/ DeleteDeployment
  <2>1. api'.gs = api.gs
    BY <1>0, <1>5 DEF SetTemplate, SetBackup, DeletePVC, DeleteDeployment, Objects
  <2> QED
    BY <1>1, <2>1 DEF HealthInv, PassSized, Backed, Healthy
<1>6. PassSized'
  BY <1>1 DEF HealthInv, PassSized
<1> QED
  BY <1>2, <1>3, <1>4, <1>5, <1>6 DEF UserStep, HealthInv

LEMMA OthersBacked ==
  TypeOK /\ HealthInv /\ (SyncStep \/ ClusterStep \/ FaultStep \/ UNCHANGED vars) => HealthInv'
<1> SUFFICES ASSUME TypeOK, HealthInv,
                    SyncStep \/ ClusterStep \/ CallFails \/ Restart \/ PodFails
                      \/ UNCHANGED vars
             PROVE  HealthInv'
  BY ReportBacked DEF FaultStep, RestoreGetFails
<1>1. api \in Objects
  BY DEF TypeOK
<1>2. api'.gs = api.gs
  BY <1>1 DEF SyncStep, SyncServer, SyncTemplates, SyncPVC, SyncDeployment, SyncServices,
     ClusterStep, CollectPVC, CollectDeployment, CollectService, Rollout, PodReady,
     CallFails, Restart, PodFails, Objects, vars
<1>3. pass' = pass \/ pass' = Idle
  BY DEF SyncStep, SyncServer, SyncTemplates, SyncPVC, SyncDeployment, SyncServices,
     ClusterStep, CollectPVC, CollectDeployment, CollectService, Rollout, PodReady, Vanish,
     CallFails, Restart, PodFails, vars
<1>4. Idle.pc = "Idle"
  BY DEF Idle
<1> QED
  BY <1>2, <1>3, <1>4 DEF HealthInv, PassSized, Backed, Healthy

-----------------------------------------------------------------------------

\* A phase Ready, Provisioning or Stopped for the current generation stands
\* beside TemplateResolved, ConfigValid and a Ready that agrees with it, whatever
\* error paths, edits, re-creations and restarts came before; ConfigValid may be
\* missing only for a server that takes its size from the template.
THEOREM HealthyPhaseBacked == Spec => []HealthyPhaseIsBacked
<1>1. Init => HealthInv
  <2> SUFFICES ASSUME Init PROVE HealthInv
    OBVIOUS
  <2>1. api.gs = Absent /\ pass.pc = "Idle"
    BY DEF Init, Idle
  <2> QED
    BY <2>1 DEF HealthInv, Backed, PassSized
<1>2. TypeOK /\ ObservedInv /\ HealthInv /\ [Next]_vars => HealthInv'
  BY PassStepBacked, UserStepBacked, OthersBacked DEF Next
<1>3. HealthInv => HealthyPhaseIsBacked
  BY DEF HealthInv, Backed, Healthy, HealthyPhaseIsBacked
<1> QED
  BY <1>1, <1>2, <1>3, TypeCorrect, ObservedInvariant, PTL DEF Spec
=============================================================================
