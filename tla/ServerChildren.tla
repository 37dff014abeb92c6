--------------------------- MODULE ServerChildren ---------------------------
(***************************************************************************)
(* What a GameServer's children contain: the same Reconcile as in          *)
(* GameServerController, looked at for its data.  Users apply a GameServer *)
(* and its GameTemplate past the admission webhooks; a pass validates the  *)
(* config, writes the container's environment and the Services, and reads  *)
(* the address from what it applied; the API server assigns NodePorts and  *)
(* refuses what clashes; load balancers get their address when they do.    *)
(*                                                                         *)
(* api, cache, pass and queued are as in GameServerController.  The steps  *)
(* that do not touch this data (account, volume, phase and conditions) are *)
(* that module's; here a pass goes past them.  The server stays: creation, *)
(* deletion and garbage collection are that module's, too.                 *)
(***************************************************************************)
EXTENDS Builders

CONSTANTS
  ServerSpecs,    \* GameServer specs users apply
  TemplateSpecs,  \* GameTemplate specs users apply
  NodePorts,      \* the cluster's range of NodePorts
  Webhooks,       \* whether admission is on (ENABLE_WEBHOOKS)
  MaxEdits        \* bound on what users and load balancers do, and failed calls

VARIABLES api, cache, pass, queued, edits

vars == <<api, cache, pass, queued, edits>>

Maybe(S) == S \union {Absent}

Address == [via : {"none"} \union ExposureTypes, port : Nat]

Server == [spec : ServerSpecs, address : Address]

\* A port as built, with any pin, and one that the API server takes.
BuiltPort == [name : STRING, port : Nat, protocol : {"TCP", "UDP"}, nodePort : Nat]

ServicePort == {p \in BuiltPort : p.nodePort \in NodePorts \union {0}}

\* ingress: whether status.loadBalancer has an address.
Service == [ports : Seq(ServicePort), ingress : BOOLEAN]

ASSUME AbsentAssumption ==
  /\ Absent \notin TemplateSpecs /\ Absent \notin Service
  /\ \A s \in ServerSpecs, t \in TemplateSpecs : Absent # ResolveEnv(s, t)

ASSUME BoundsAssumption ==
  MaxEdits \in Nat /\ NodePorts \subseteq Nat \ {0} /\ Webhooks \in BOOLEAN

EnvVar == [name : STRING, value : STRING]

Override == [portName : STRING, exposeAs : ExposureTypes, nodePort : Nat]

TemplatePort == [name : STRING, containerPort : Nat, protocol : {"TCP", "UDP"},
                 exposeAs : ExposureTypes, primary : BOOLEAN]

TemplateKey == [name : STRING, envVar : STRING, type : {"string", "int", "bool", "enum"},
                enum : SUBSET STRING, default : STRING, required : BOOLEAN]

\* The CRD schemas: a template has at least one port.
ASSUME SpecsAssumption ==
  /\ \A s \in ServerSpecs :
       /\ s.override \in Seq(Override)
       /\ s.env \in Seq(EnvVar)
       /\ \A name \in DOMAIN s.config : name \in ToSet(KeyOrder) /\ s.config[name] \in STRING
  /\ \A t \in TemplateSpecs :
       /\ t.ports \in Seq(TemplatePort) \ {<<>>}
       /\ t.env \in Seq(EnvVar)
       /\ t.keys \in Seq(TemplateKey)
  /\ KeyOrder \in Seq(STRING)

Kinds == {"gs", "tpl", "dep", "svc"}

\* dep is the environment of the Deployment's container.
Stored(o) ==
  /\ DOMAIN o = Kinds
  /\ o.gs \in Server
  /\ o.tpl \in Maybe(TemplateSpecs)
  /\ o.dep # Absent => \A v \in DOMAIN o.dep : v \in STRING /\ o.dep[v] \in STRING
  /\ o.svc \in [ExposureTypes -> Maybe(Service)]

NoServices == [e \in ExposureTypes |-> Absent]

TypeOK ==
  /\ Stored(api)
  /\ Stored(cache)
  /\ pass \in [pc : {"Idle", "FetchTemplate", "ApplyDeployment", "ApplyServices"},
               gs : Maybe(Server), tpl : Maybe(TemplateSpecs),
               groups : [ExposureTypes -> Seq(BuiltPort)], todo : Seq(ExposureTypes),
               applied : [ExposureTypes -> Maybe(Service)]]
  /\ pass.pc # "Idle" => pass.gs \in Server
  /\ pass.pc \in {"ApplyDeployment", "ApplyServices"} => pass.tpl \in TemplateSpecs
  /\ queued \in BOOLEAN
  /\ edits \in 0..MaxEdits

Idle == [pc |-> "Idle", gs |-> Absent, tpl |-> Absent, groups |-> [e \in ExposureTypes |-> <<>>],
         todo |-> <<>>, applied |-> NoServices]

Admitted(t) == Webhooks => ValidateTemplate(t)

\* The operator starts with a server just created, admitted against its template.
Init ==
  /\ \E t \in TemplateSpecs, s \in ServerSpecs :
       /\ Admitted(t)
       /\ Webhooks => ValidateServer(s, t)
       /\ api = [gs |-> [spec |-> s, address |-> NoAddress],
                 tpl |-> t, dep |-> Absent, svc |-> NoServices]
  /\ cache = api
  /\ pass = Idle
  /\ queued = TRUE
  /\ edits = 0

-----------------------------------------------------------------------------
(* The reconcile pass *)

Return(requeue) ==
  /\ pass' = Idle
  /\ queued' = (queued \/ requeue)
  /\ UNCHANGED <<cache, edits>>

Reconcile ==
  /\ pass.pc = "Idle"
  /\ queued
  /\ queued' = FALSE
  /\ pass' = [Idle EXCEPT !.pc = "FetchTemplate", !.gs = cache.gs]
  /\ UNCHANGED <<api, cache, edits>>

\* Mutant: NotFound is not told apart from a template that was read.
TemplateAssumed == cache.tpl # Absent => ValidateConfig(pass.gs.spec, cache.tpl)

TemplateAccepts == cache.tpl # Absent /\ ValidateConfig(pass.gs.spec, cache.tpl)

\* No template, or not one that accepts the config: reported, tried again.
\* Neither report touches the address.
NotAccepted ==
  /\ pass.pc = "FetchTemplate"
  /\ ~TemplateAccepts
  /\ Return(TRUE)
  /\ UNCHANGED api

ConfigValid ==
  /\ pass.pc = "FetchTemplate"
  /\ TemplateAccepts
  /\ pass' = [pass EXCEPT !.pc = "ApplyDeployment", !.tpl = cache.tpl]
  /\ UNCHANGED <<api, cache, queued, edits>>

\* applyDeployment: the environment is replaced as a whole.
ApplyDeployment ==
  /\ pass.pc = "ApplyDeployment"
  /\ cache.dep = api.dep
  /\ api' = [api EXCEPT !.dep = ResolveEnv(pass.gs.spec, pass.tpl)]
  /\ pass' = [pass EXCEPT !.pc = "ApplyServices",
                          !.groups = BuildServices(pass.gs.spec, pass.tpl).groups,
                          !.todo = BuildServices(pass.gs.spec, pass.tpl).order]
  /\ UNCHANGED <<cache, queued, edits>>

Held(e) == IF api.svc[e] = Absent THEN {}
           ELSE {p.nodePort : p \in ToSet(api.svc[e].ports)} \ {0}

HeldByOthers(e) == UNION {Held(f) : f \in ExposureTypes \ {e}}

\* The API server accepts a list of well-formed ports whose names, numbers and
\* NodePorts do not clash, among each other or with those another Service holds ...
Acceptable(e, ports) ==
  LET pins == SelectSeq(ports, LAMBDA p : p.nodePort # 0)
  IN  /\ ports \in Seq(ServicePort)
      /\ Distinct(ports, LAMBDA p : p.name)
      /\ Distinct(ports, LAMBDA p : <<p.port, p.protocol>>)
      /\ Distinct(pins, LAMBDA p : <<p.nodePort, p.protocol>>)
      /\ \A p \in ToSet(pins) : p.nodePort \in NodePorts \ HeldByOthers(e)

\* ... and gives the others of a NodePort or LoadBalancer Service free ones:
\* the lists it may store, none if it refuses.
Assigned(e, ports) ==
  LET missing == {i \in DOMAIN ports : e # "ClusterIP" /\ ports[i].nodePort = 0}
      free == NodePorts \ (Held(e) \union HeldByOthers(e) \union {p.nodePort : p \in ToSet(ports)})
  IN  IF ~Acceptable(e, ports) THEN {}
      ELSE {[i \in DOMAIN ports |-> IF i \in missing THEN [ports[i] EXCEPT !.nodePort = new[i]]
                                    ELSE ports[i]] : new \in Injection(missing, free)}

\* The exposure whose Service's turn it is, and the ports asked for in it.
Turn == Head(pass.todo)

Desired == IF cache.svc[Turn] = Absent THEN pass.groups[Turn]
           ELSE MergeServicePorts(cache.svc[Turn].ports, pass.groups[Turn])

Outcomes == Assigned(Turn, Desired)

ApplyingService == pass.pc = "ApplyServices" /\ pass.todo # <<>>

\* applyService on a Service that exists.  The answer of the update is what the
\* pass goes on with.
UpdateService ==
  /\ ApplyingService
  /\ cache.svc[Turn] = api.svc[Turn]
  /\ cache.svc[Turn] # Absent
  /\ \E ports \in Outcomes : api' = [api EXCEPT !.svc[Turn].ports = ports]
  /\ pass' = [pass EXCEPT !.todo = Tail(@), !.applied[Turn] = api'.svc[Turn]]
  /\ UNCHANGED <<cache, queued, edits>>

\* applyService on a missing one: created and read back, if the cache has it.
CreateService ==
  /\ ApplyingService
  /\ cache.svc[Turn] = api.svc[Turn]
  /\ cache.svc[Turn] = Absent
  /\ \E ports \in Outcomes :
       api' = [api EXCEPT !.svc[Turn] = [ports |-> ports, ingress |-> FALSE]]
  /\ \/ /\ cache' = [cache EXCEPT !.svc = api'.svc]
        /\ queued' = TRUE
        /\ pass' = [pass EXCEPT !.todo = Tail(@), !.applied[Turn] = api'.svc[Turn]]
        /\ UNCHANGED edits
     \/ Return(TRUE)

Refused ==
  \/ pass.pc = "ApplyDeployment" /\ cache.dep # api.dep
  \/ ApplyingService /\ cache.svc[Turn] # api.svc[Turn]
  \/ ApplyingService /\ Outcomes = {}

\* Mutant: the error of a refused write is logged, not returned.
WriteForgotten == Refused /\ Return(FALSE) /\ UNCHANGED api

\* A write against a stale cache, or one the API server finds invalid.  The
\* Services after it wait for the next pass, as does the status.
WriteRefused == Refused /\ Return(TRUE) /\ UNCHANGED api

\* The Deployment just applied is read again; a lagging cache has none.
DeploymentNotCached ==
  /\ pass.pc = "ApplyServices"
  /\ pass.todo = <<>>
  /\ cache.dep = Absent
  /\ Return(TRUE)
  /\ UNCHANGED api

\* The status is refused unless the server is still the one read.  A Ready one
\* is not requeued: from there on only events bring the pass back.
RefreshStatus ==
  /\ pass.pc = "ApplyServices"
  /\ pass.todo = <<>>
  /\ cache.dep # Absent
  /\ api' = IF api.gs # pass.gs THEN api
            ELSE [api EXCEPT !.gs.address =
                    PrimaryAddress(pass.gs.spec, pass.tpl, pass.applied)]
  /\ Return(api.gs # pass.gs)

PassStep ==
  \/ Reconcile
  \/ NotAccepted
  \/ ConfigValid
  \/ ApplyDeployment
  \/ UpdateService
  \/ CreateService
  \/ WriteRefused
  \/ DeploymentNotCached
  \/ RefreshStatus

-----------------------------------------------------------------------------
(* The watches *)

SyncQuietly(kind, quiet) ==
  /\ cache[kind] # api[kind]
  /\ cache' = [cache EXCEPT ![kind] = api[kind]]
  /\ queued' = (queued \/ kind # quiet)
  /\ UNCHANGED <<api, pass, edits>>

\* Mutant: Services are not watched.
SyncServiceQuietly(kind) == SyncQuietly(kind, "svc")

\* Mutant: templates are not watched.
SyncTemplateQuietly(kind) == SyncQuietly(kind, "tpl")

\* The informer of a kind catches up, and its event is mapped to the server.
\* Changes the cache never saw apart are one event, and none if they cancel out.
Sync(kind) ==
  /\ cache[kind] # api[kind]
  /\ cache' = [cache EXCEPT ![kind] = api[kind]]
  /\ queued' = TRUE
  /\ UNCHANGED <<api, pass, edits>>

SyncStep == \E kind \in Kinds : Sync(kind)

-----------------------------------------------------------------------------
(* Users, past admission.  The GameServer webhook reads templates through   *)
(* the manager's cache.                                                     *)

CountEdit == edits < MaxEdits /\ edits' = edits + 1

Edit == CountEdit /\ UNCHANGED <<cache, pass, queued>>

ApplyServer(s) ==
  /\ Webhooks => ValidateServer(s, cache.tpl)
  /\ api.gs.spec # s
  /\ api' = [api EXCEPT !.gs.spec = s]
  /\ Edit

ApplyTemplate(t) ==
  /\ Admitted(t)
  /\ api.tpl # t
  /\ api' = [api EXCEPT !.tpl = t]
  /\ Edit

DeleteTemplate ==
  /\ api.tpl # Absent
  /\ api' = [api EXCEPT !.tpl = Absent]
  /\ Edit

\* Somebody deletes a Service behind the operator's back.
DeleteService(e) ==
  /\ api.svc[e] # Absent
  /\ api' = [api EXCEPT !.svc[e] = Absent]
  /\ Edit

\* A load balancer gets its address, or loses it.
ToggleIngress ==
  /\ api.svc["LoadBalancer"] # Absent
  /\ api' = [api EXCEPT !.svc["LoadBalancer"].ingress = ~@]
  /\ Edit

UserStep ==
  \/ \E s \in ServerSpecs : ApplyServer(s)
  \/ \E t \in TemplateSpecs : ApplyTemplate(t)
  \/ DeleteTemplate
  \/ \E e \in ExposureTypes : DeleteService(e)
  \/ ToggleIngress

\* Any call of the pass may fail: the pass returns the error and is retried.
CallFails ==
  /\ pass.pc # "Idle"
  /\ CountEdit
  /\ pass' = Idle
  /\ queued' = TRUE
  /\ UNCHANGED <<api, cache>>

-----------------------------------------------------------------------------

Next == PassStep \/ SyncStep \/ UserStep \/ CallFails

Spec == Init /\ [][Next]_vars

\* The worker runs, and a cache that is behind catches up, in whatever order of
\* kinds.  Load balancers owe nothing.
FairSpec ==
  /\ Spec
  /\ WF_vars(PassStep)
  /\ WF_vars(SyncStep)
-----------------------------------------------------------------------------
(* Properties.  What the specs ask for is stated from the stored objects,   *)
(* whatever the passes computed on the way.                                 *)

Accepted ==
  api.tpl # Absent /\ ValidateConfig(api.gs.spec, api.tpl)

\* The environment env carries what s sets, or t has as default, for key k.
Delivers(env, s, t, k) ==
  LET overrides == {i \in DOMAIN s.env : s.env[i].name = k.envVar}
      value == IF k.name \in DOMAIN s.config THEN s.config[k.name] ELSE k.default
  IN  IF overrides # {}
        THEN env[k.envVar] = s.env[Max(overrides)].value
        ELSE (k.name \in DOMAIN s.config \/ k.default # "") =>
               /\ k.envVar \in DOMAIN env
               /\ env[k.envVar] = value
               /\ k.type = "enum" => value \in k.enum

\* Every configKey "becomes a container env var": in the end the pod has each
\* key's value, and no enum key a value its template does not list, although
\* the server was admitted against a template that may have changed since, and
\* the template without a look at the servers.
ConfigReachesPod ==
  <>[](Accepted =>
         /\ api.dep # Absent
         /\ \A k \in ToSet(api.tpl.keys) : Delivers(api.dep, api.gs.spec, api.tpl, k))

ExposureOf(p) == ResolveExposure(api.gs.spec, p)

\* A pinned NodePort that another port of the server's own Services holds: the
\* API server refuses the pin as long as it does.
PinTaken ==
  \E p \in ToSet(api.tpl.ports) :
    /\ ExposureOf(p).exposeAs = "NodePort"
    /\ \E e \in ExposureTypes :
         /\ api.svc[e] # Absent
         /\ \E q \in ToSet(api.svc[e].ports) :
              /\ q.nodePort # 0 /\ q.nodePort = ExposureOf(p).nodePort
              /\ e # "NodePort" \/ q.name # p.name

\* The stored Service port q is what the template's port p asks for in Service e.
Matches(q, p, e) ==
  /\ q.name = p.name /\ q.port = p.containerPort /\ q.protocol = p.protocol
  /\ ExposureOf(p).exposeAs = e
  /\ e # "ClusterIP" => q.nodePort # 0
  /\ (e = "NodePort" /\ ExposureOf(p).nodePort # 0) => q.nodePort = ExposureOf(p).nodePort

Served(p) ==
  LET svc == api.svc[ExposureOf(p).exposeAs]
  IN  /\ svc # Absent
      /\ \E q \in ToSet(svc.ports) : Matches(q, p, ExposureOf(p).exposeAs)
      /\ \A q \in ToSet(svc.ports) :
           \E r \in ToSet(api.tpl.ports) : Matches(q, r, ExposureOf(p).exposeAs)

\* Exposures, numbers, names and pins may change, Services be deleted, and
\* assigned NodePorts be in the way: in the end every port has its place in the
\* Service of its exposure, with its pin, unless another port holds that.
ServicesSettle ==
  <>[](Accepted => PinTaken \/ \A p \in ToSet(api.tpl.ports) : Served(p))

\* status.address names a port of the Service applied that leads to the primary
\* port, and nothing as long as its load balancer has no address.
Addressed ==
  LET p == PrimaryPort(api.tpl)
      e == ExposureOf(p).exposeAs
      svc == api.svc[e]
  IN  /\ svc # Absent
      /\ \E q \in ToSet(svc.ports) :
           /\ Matches(q, p, e)
           /\ api.gs.address =
                CASE e = "ClusterIP" -> [via |-> e, port |-> q.port]
                  [] e = "NodePort" -> [via |-> e, port |-> q.nodePort]
                  [] OTHER -> IF svc.ingress THEN [via |-> e, port |-> q.port]
                              ELSE NoAddress

\* The address appears and disappears with the load balancer's: of an event the
\* pass is told, as it is not requeued for it.
AddressSettles ==
  <>[](Accepted => PinTaken \/ Addressed)

\* The safety half of the three: when no pass is due or in flight and the caches
\* are up to date, the children contain all that the specs ask for, and no
\* refused pin, lost template or late load balancer has been passed over.  The
\* keys are told apart by admission only.
RestIsServed ==
  (pass.pc = "Idle" /\ ~queued /\ cache = api)
    => /\ Accepted
       /\ api.dep # Absent
       /\ Webhooks =>
            \A k \in ToSet(api.tpl.keys) : Delivers(api.dep, api.gs.spec, api.tpl, k)
       /\ \A p \in ToSet(api.tpl.ports) : Served(p)
       /\ Addressed

\* What mergeServicePorts is for: as long as its Service lives, a port keeps the
\* NodePort players know, whatever else of the specs changes around it, unless
\* an override pins another one.
NodePortsKept ==
  [][\A e \in ExposureTypes : api.svc[e] # Absent /\ api'.svc[e] # Absent =>
       \A p \in ToSet(api.svc[e].ports), q \in ToSet(api'.svc[e].ports) :
         (p.name = q.name /\ p.nodePort # q.nodePort)
           => \E o \in ToSet(pass.gs.spec.override) :
                o.portName = q.name /\ o.nodePort = q.nodePort]_vars

\* gameserver_types.go: "exposeOverride replaces the template's Service exposure
\* per port": in the end no Service exposes a port in another way than asked for.
ExposureReplaced ==
  <>[](Accepted /\ ~PinTaken =>
         \A e \in ExposureTypes : api.svc[e] # Absent =>
           \A q \in ToSet(api.svc[e].ports) :
             \E p \in ToSet(api.tpl.ports) : Matches(q, p, e))
=============================================================================
