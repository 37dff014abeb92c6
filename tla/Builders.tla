------------------------------ MODULE Builders ------------------------------
(***************************************************************************)
(* The pure functions between a GameServer spec s, a GameTemplate spec t   *)
(* and the objects applied for them (internal/controller/builders.go,      *)
(* mergeServicePorts of gameserver_controller.go), and the checks of the   *)
(* admission webhooks (internal/webhook/v1alpha1).                         *)
(*                                                                         *)
(*   s  ref, config (key name -> value), override and env (sequences)      *)
(*   t  ports, env and keys (sequences, as the CRD has lists)              *)
(*                                                                         *)
(* "" is an unset string, 0 an unset NodePort; the CRD schema has already  *)
(* filled in the defaults of protocol, exposeAs and type.                  *)
(***************************************************************************)
EXTENDS Naturals, FiniteSets, SequencesExt

CONSTANTS
  Absent,     \* stands for an object that does not exist
  KeyOrder,   \* all config key names in lexical order
  Ints,       \* the values strconv.Atoi takes
  Bools       \* the values strconv.ParseBool takes

ExposureTypes == {"ClusterIP", "NodePort", "LoadBalancer"}

\* Whether the elements of a list differ in what f makes of them.
Distinct(seq, f(_)) ==
  \A i, j \in DOMAIN seq : f(seq[i]) = f(seq[j]) => i = j

-----------------------------------------------------------------------------
(* The container's environment *)

\* In Go's map a later key of the same name replaces an earlier one.
ConfigKey(t, name) == t.keys[SelectLastInSeq(t.keys, LAMBDA k : k.name = name)]

KeyNames(t) == {k.name : k \in ToSet(t.keys)}

\* What each source sets, variable by variable.  The last entry of a name wins.
Listed(env) ==
  [v \in {e.name : e \in ToSet(env)} |->
    env[SelectLastInSeq(env, LAMBDA e : e.name = v)].value]

Defaults(t) ==
  [v \in {k.envVar : k \in {d \in ToSet(t.keys) : d.default # ""}} |->
    t.keys[SelectLastInSeq(t.keys, LAMBDA k : k.default # "" /\ k.envVar = v)].default]

\* Keys the template does not know are skipped, the rest is taken in order.
Configured(s, t) ==
  LET known == DOMAIN s.config \intersect KeyNames(t)
      Sets(name, v) == name \in known /\ ConfigKey(t, name).envVar = v
  IN  [v \in {ConfigKey(t, name).envVar : name \in known} |->
        s.config[KeyOrder[SelectLastInSeq(KeyOrder, LAMBDA name : Sets(name, v))]]]

Over(later, earlier) ==
  [v \in DOMAIN later \union DOMAIN earlier |-> IF v \in DOMAIN later THEN later[v] ELSE earlier[v]]

\* resolveEnv: a later source wins over an earlier one.  The order is not kept.
ResolveEnv(s, t) ==
  Over(Listed(s.env), Over(Configured(s, t), Over(Defaults(t), Listed(t.env))))

-----------------------------------------------------------------------------
(* Services *)

\* resolveExposure: the first override of the port counts, and brings its pin.
ResolveExposure(s, p) ==
  LET first == SelectInSeq(s.override, LAMBDA o : o.portName = p.name)
  IN  IF first = 0 THEN [exposeAs |-> p.exposeAs, nodePort |-> 0]
      ELSE [exposeAs |-> s.override[first].exposeAs, nodePort |-> s.override[first].nodePort]

\* primaryPort: the primary one, else the first TCP port, else the first.
PrimaryPort(t) ==
  LET primary == SelectInSeq(t.ports, LAMBDA p : p.primary)
      tcp == SelectInSeq(t.ports, LAMBDA p : p.protocol = "TCP")
  IN  t.ports[IF primary # 0 THEN primary ELSE IF tcp # 0 THEN tcp ELSE 1]

\* A pin is for NodePort only.
BuildPort(s, p) ==
  LET exposure == ResolveExposure(s, p)
  IN  [name |-> p.name, port |-> p.containerPort, protocol |-> p.protocol,
       nodePort |-> IF exposure.exposeAs = "NodePort" THEN exposure.nodePort ELSE 0]

NoPorts == [order |-> <<>>, groups |-> [e \in ExposureTypes |-> <<>>]]

AddPort(s, services, p) ==
  LET e == ResolveExposure(s, p).exposeAs
  IN  [order |-> IF services.groups[e] # <<>> THEN services.order
                 ELSE Append(services.order, e),
       groups |-> [services.groups EXCEPT ![e] = Append(@, BuildPort(s, p))]]

\* BuildServices: a Service for each exposure in use, in the order of the ports.
BuildServices(s, t) ==
  FoldLeft(LAMBDA services, p : AddPort(s, services, p), NoPorts, t.ports)

\* Mutant: ports are matched by their position.
MergeByPosition(existing, desired) ==
  [i \in DOMAIN desired |->
    IF i \in DOMAIN existing /\ desired[i].nodePort = 0
    THEN [desired[i] EXCEPT !.nodePort = existing[i].nodePort]
    ELSE desired[i]]

\* Mutant: an assigned NodePort is never replaced.
MergeKeepsAssigned(existing, desired) ==
  [i \in DOMAIN desired |->
    LET same == SelectLastInSeq(existing, LAMBDA p : p.name = desired[i].name)
    IN  IF same # 0 /\ existing[same].nodePort # 0
        THEN [desired[i] EXCEPT !.nodePort = existing[same].nodePort]
        ELSE desired[i]]

\* mergeServicePorts: a port without a pin keeps the NodePort it has.
MergeServicePorts(existing, desired) ==
  [i \in DOMAIN desired |->
    LET same == SelectLastInSeq(existing, LAMBDA p : p.name = desired[i].name)
    IN  IF same # 0 /\ desired[i].nodePort = 0
        THEN [desired[i] EXCEPT !.nodePort = existing[same].nodePort]
        ELSE desired[i]]

NoAddress == [via |-> "none", port |-> 0]

\* PrimaryAddress: how and at which port the primary port is reached, given the
\* Services just applied.  Hosts are not told apart.
PrimaryAddress(s, t, services) ==
  LET p == PrimaryPort(t)
      exposure == ResolveExposure(s, p)
      svc == services[exposure.exposeAs]
      assigned == SelectInSeq(svc.ports, LAMBDA sp : sp.name = p.name)
      nodePort == IF exposure.nodePort # 0 THEN exposure.nodePort
                  ELSE IF assigned # 0 THEN svc.ports[assigned].nodePort ELSE 0
  IN  IF svc = Absent THEN NoAddress
      ELSE CASE exposure.exposeAs = "ClusterIP" -> [via |-> "ClusterIP", port |-> p.containerPort]
             [] exposure.exposeAs = "NodePort" ->
                  IF nodePort = 0 THEN NoAddress ELSE [via |-> "NodePort", port |-> nodePort]
             [] exposure.exposeAs = "LoadBalancer" ->
                  IF svc.ingress THEN [via |-> "LoadBalancer", port |-> p.containerPort]
                  ELSE NoAddress

-----------------------------------------------------------------------------
(* Validation *)

HasType(k, value) ==
  CASE k.type = "int" -> value \in Ints
    [] k.type = "bool" -> value \in Bools
    [] k.type = "enum" -> value \in k.enum
    [] OTHER -> TRUE

\* ValidateConfig: no unknown key, every value typed, none missing.
ValidateConfig(s, t) ==
  /\ \A name \in DOMAIN s.config :
       name \in KeyNames(t) /\ HasType(ConfigKey(t, name), s.config[name])
  /\ \A k \in ToSet(t.keys) :
       k.required => k.name \in DOMAIN s.config \/ k.default # ""

\* The GameServer webhook: a template that does not exist yet is a warning.
ValidateServer(s, t) == s.ref # "" /\ (t # Absent => ValidateConfig(s, t))

EnumsFit(k) ==
  /\ k.type = "enum" <=> k.enum # {}
  /\ k.type = "enum" => k.default \in k.enum \union {""}

\* The GameTemplate webhook.  The default of an int or bool is not looked at.
ValidateTemplate(t) ==
  /\ Distinct(t.ports, LAMBDA p : p.name)
  /\ Distinct(t.ports, LAMBDA p : p.containerPort)
  /\ Cardinality({i \in DOMAIN t.ports : t.ports[i].primary}) <= 1
  /\ Distinct(t.keys, LAMBDA k : k.name)
  /\ Distinct(t.keys, LAMBDA k : k.envVar)
  /\ \A k \in ToSet(t.keys) : EnumsFit(k)
=============================================================================
