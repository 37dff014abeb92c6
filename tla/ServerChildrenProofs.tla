------------------------ MODULE ServerChildrenProofs ------------------------
(* Types, what the builders build, and what the children have of it at rest; *)
(* and that a port keeps its NodePort.  For all specs, templates and bounds. *)
EXTENDS ServerChildren, WellFoundedInduction, TLAPS

NamesDiffer(ports) ==
  \A i, j \in DOMAIN ports : ports[i].name = ports[j].name => i = j

-----------------------------------------------------------------------------
(* Numbers, and the choices of the library *)

LEMMA MinExists ==
  ASSUME NEW T, T \subseteq Nat, T # {}
  PROVE  \E x \in T : \A y \in T : x <= y
<1> DEFINE R == {ss \in Nat \X Nat : ss[1] < ss[2]}
<1>1. IsWellFoundedOn(R, Nat)
  BY NatLessThanWellFounded DEF OpToRel
<1> HIDE DEF R
<1>2. \E x \in T : \A y \in T : ~(<<y, x>> \in R)
  BY <1>1, WFMin
<1>3. \A x, y \in Nat : y < x => <<y, x>> \in R
  BY DEF R
<1>4. \A x, y \in Nat : ~(y < x) => x <= y
  OBVIOUS
<1> QED
  BY <1>2, <1>3, <1>4

\* A set of numbers that has 0 and each successor has all of them.
LEMMA Reaches ==
  ASSUME NEW T, T \subseteq Nat, 0 \in T, \A n \in T : n + 1 \in T
  PROVE  T = Nat
<1> SUFFICES ASSUME Nat \ T # {} PROVE FALSE
  OBVIOUS
<1>1. PICK x \in Nat \ T : \A y \in Nat \ T : x <= y
  <2>1. Nat \ T \subseteq Nat
    OBVIOUS
  <2> QED
    BY <2>1, MinExists
<1>2. x # 0 /\ x - 1 \in Nat
  BY <1>1
<1>3. x - 1 \in T
  BY <1>1, <1>2
<1> QED
  BY <1>1, <1>3

\* The library folds over the sets of indices, taking the largest off each time.
Folds(s, ports, n, g) ==
  g = [T \in SUBSET (1..n) |->
        IF T = {} THEN NoPorts ELSE AddPort(s, g[T \ {Max(T)}], ports[Max(T)])]

LEMMA LargestTaken ==
  ASSUME NEW n \in Nat, NEW T \in SUBSET (1..n), T # {}
  PROVE  Max(T) \in T /\ \A y \in T : Max(T) >= y
<1> DEFINE U == {n - x : x \in T}
<1>1. U \subseteq Nat /\ U # {}
  <2>1. \A x \in T : x \in Nat /\ n - x \in Nat
    OBVIOUS
  <2>2. U # {}
    OBVIOUS
  <2> QED
    BY <2>1, <2>2
<1>2. PICK u \in U : \A y \in U : u <= y
  BY <1>1, MinExists
<1>3. PICK m \in T : u = n - m
  BY <1>2
<1>4. \A y \in T : m >= y
  <2> TAKE y \in T
  <2>1. n - m <= n - y
    BY <1>2, <1>3
  <2> QED
    BY <2>1
<1> QED
  BY <1>4 DEF Max

LEMMA LastTaken ==
  ASSUME NEW n \in Nat, NEW T \in SUBSET (1..n), n \in T
  PROVE  Max(T) = n
<1>1. Max(T) \in T /\ \A y \in T : Max(T) >= y
  BY LargestTaken
<1>2. Max(T) >= n /\ Max(T) \in 1..n
  BY <1>1
<1> HIDE DEF Max
<1> QED
  BY <1>2

LEMMA FoldExists ==
  ASSUME NEW s, NEW ports
  PROVE  \A n \in Nat : \E g : Folds(s, ports, n, g)
<1> DEFINE Good == {n \in Nat : \E g : Folds(s, ports, n, g)}
<1>1. 0 \in Good
  <2> DEFINE g == [T \in SUBSET (1..0) |-> NoPorts]
  <2>1. SUBSET (1..0) = {{}}
    OBVIOUS
  <2>2. g = [T \in SUBSET (1..0) |->
              IF T = {} THEN NoPorts ELSE AddPort(s, g[T \ {Max(T)}], ports[Max(T)])]
    BY <2>1
  <2> HIDE DEF g
  <2>3. Folds(s, ports, 0, g)
    BY <2>2 DEF Folds
  <2> QED
    BY <2>3
<1>2. ASSUME NEW n \in Good PROVE n + 1 \in Good
  <2>1. PICK g : Folds(s, ports, n, g)
    BY <1>2
  <2> DEFINE h == [T \in SUBSET (1..(n + 1)) |->
                    IF n + 1 \notin T THEN g[T]
                    ELSE AddPort(s, g[T \ {n + 1}], ports[n + 1])]
  <2>2. ASSUME NEW T \in SUBSET (1..(n + 1))
        PROVE  h[T] = IF T = {} THEN NoPorts ELSE AddPort(s, h[T \ {Max(T)}], ports[Max(T)])
    <3>1. n + 1 \in Nat /\ n \in Nat
      OBVIOUS
    <3>2. CASE n + 1 \in T
      <4>1. Max(T) = n + 1
        BY <3>1, <3>2, LastTaken
      <4>2. h[T \ {n + 1}] = g[T \ {n + 1}]
        OBVIOUS
      <4>3. h[T] = AddPort(s, g[T \ {n + 1}], ports[n + 1])
        BY <3>2
      <4> HIDE DEF h
      <4> QED
        BY <3>2, <4>1, <4>2, <4>3
    <3>3. CASE n + 1 \notin T
      <4>1. T \in SUBSET (1..n) /\ T \ {Max(T)} \in SUBSET (1..n)
        <5>1. \A x \in T : x \in 1..n
          BY <3>1, <3>3
        <5> QED
          BY <5>1
      <4>2. h[T] = g[T] /\ h[T \ {Max(T)}] = g[T \ {Max(T)}]
        BY <3>3
      <4>3. g[T] = IF T = {} THEN NoPorts ELSE AddPort(s, g[T \ {Max(T)}], ports[Max(T)])
        BY <2>1, <4>1 DEF Folds
      <4> HIDE DEF h
      <4> QED
        BY <4>2, <4>3
    <3> QED
      BY <3>2, <3>3
  <2>3. h = [T \in SUBSET (1..(n + 1)) |-> h[T]]
    OBVIOUS
  <2> HIDE DEF h
  <2>4. Folds(s, ports, n + 1, h)
    BY <2>2, <2>3 DEF Folds
  <2> QED
    BY <2>4
<1> HIDE DEF Good
<1>3. Good = Nat
  <2>1. Good \subseteq Nat
    BY DEF Good
  <2> QED
    BY <1>1, <1>2, <2>1, Reaches
<1> QED
  BY <1>3 DEF Good

\* BuildServices takes the ports one by one.
Steps(s, ports, F) ==
  /\ F[0] = NoPorts
  /\ \A k \in 1..Len(ports) : F[k] = AddPort(s, F[k - 1], ports[k])

LEMMA BuiltStepwise ==
  ASSUME NEW s, NEW t, NEW S, t.ports \in Seq(S)
  PROVE  \E F : Steps(s, t.ports, F) /\ BuildServices(s, t) = F[Len(t.ports)]
<1> DEFINE ports == t.ports
           n == Len(ports)
           fold == CHOOSE g : Folds(s, ports, n, g)
           F == [k \in 0..n |-> fold[1..k]]
<1>1. n \in Nat /\ DOMAIN ports = 1..n
  OBVIOUS
<1>2. Folds(s, ports, n, fold)
  BY <1>1, FoldExists
<1>3. BuildServices(s, t) = fold[1..n]
  BY <1>1 DEF BuildServices, FoldLeft, MapThenFoldSet, Folds
<1> HIDE DEF fold, n
<1>4. F[0] = NoPorts
  <2>1. 1..0 = {}
    OBVIOUS
  <2> QED
    BY <1>1, <1>2, <2>1 DEF Folds
<1>5. ASSUME NEW k \in 1..n PROVE F[k] = AddPort(s, F[k - 1], ports[k])
  <2>1. 1..k \in SUBSET (1..n) /\ k \in 1..k /\ k \in Nat
    BY <1>1
  <2>2. Max(1..k) = k
    BY <2>1, LastTaken
  <2>3. (1..k) \ {k} = 1..(k - 1)
    BY <2>1
  <2>4. k \in 0..n /\ k - 1 \in 0..n
    BY <1>1
  <2> QED
    BY <1>2, <2>1, <2>2, <2>3, <2>4 DEF Folds
<1> QED
  BY <1>3, <1>4, <1>5, <1>1 DEF Steps, n

LEMMA OnlyOne ==
  ASSUME NEW seq, NEW name, NEW i \in 1..Len(seq), seq[i].name = name,
         \A j \in 1..Len(seq) : seq[j].name = name => j = i
  PROVE  SelectLastInSeq(seq, LAMBDA p : p.name = name) = i
<1> DEFINE I == {j \in 1..Len(seq) : seq[j].name = name}
<1>1. I = {i}
  OBVIOUS
<1>2. Max(I) = i
  BY <1>1 DEF Max
<1> QED
  BY <1>1, <1>2 DEF SelectLastInSeq

LEMMA SmallestTaken ==
  ASSUME NEW T, T \subseteq Nat, T # {}
  PROVE  Min(T) \in T
BY MinExists DEF Min

-----------------------------------------------------------------------------
(* Exposures and ports *)

Exposures == [exposeAs : ExposureTypes, nodePort : Nat]

\* A pin is an override's.
LEMMA ExposureResolved ==
  ASSUME NEW s \in ServerSpecs, NEW p \in TemplatePort
  PROVE  /\ ResolveExposure(s, p) \in Exposures
         /\ ResolveExposure(s, p).nodePort # 0 =>
              \E o \in ToSet(s.override) :
                o.portName = p.name /\ o.nodePort = ResolveExposure(s, p).nodePort
<1> DEFINE first == SelectInSeq(s.override, LAMBDA o : o.portName = p.name)
           I == {i \in 1..Len(s.override) : s.override[i].portName = p.name}
<1>1. s.override \in Seq(Override)
  BY SpecsAssumption
<1>2. CASE I = {}
  <2>1. first = 0
    BY <1>2 DEF SelectInSeq
  <2>2. ResolveExposure(s, p) = [exposeAs |-> p.exposeAs, nodePort |-> 0]
    BY <2>1 DEF ResolveExposure
  <2> QED
    BY <2>2 DEF TemplatePort, Exposures
<1>3. CASE I # {}
  <2>1. first = Min(I) /\ I \subseteq Nat
    BY <1>3 DEF SelectInSeq
  <2>2. first \in I
    BY <1>3, <2>1, SmallestTaken
  <2>3. first # 0 /\ s.override[first] \in Override /\ s.override[first].portName = p.name
        /\ s.override[first] \in ToSet(s.override)
    <3>1. first \in 1..Len(s.override) /\ s.override[first].portName = p.name
      BY <2>2
    <3> HIDE DEF first
    <3>2. first # 0 /\ first \in DOMAIN s.override
      BY <1>1, <3>1
    <3> QED
      BY <1>1, <3>1, <3>2 DEF ToSet
  <2>4. ResolveExposure(s, p) = [exposeAs |-> s.override[first].exposeAs,
                                 nodePort |-> s.override[first].nodePort]
    BY <2>3 DEF ResolveExposure
  <2> HIDE DEF first
  <2> QED
    BY <2>3, <2>4 DEF Override, Exposures
<1> QED
  BY <1>2, <1>3

LEMMA PortBuilt ==
  ASSUME NEW s \in ServerSpecs, NEW p \in TemplatePort
  PROVE  /\ BuildPort(s, p) \in BuiltPort
         /\ BuildPort(s, p).name = p.name
         /\ BuildPort(s, p).port = p.containerPort
         /\ BuildPort(s, p).protocol = p.protocol
         /\ ResolveExposure(s, p).exposeAs = "NodePort" =>
              BuildPort(s, p).nodePort = ResolveExposure(s, p).nodePort
         /\ ResolveExposure(s, p).exposeAs # "NodePort" => BuildPort(s, p).nodePort = 0
<1>1. ResolveExposure(s, p) \in Exposures
  BY ExposureResolved
<1> QED
  BY <1>1 DEF BuildPort, BuiltPort, TemplatePort, Exposures

Services == [order : Seq(ExposureTypes), groups : [ExposureTypes -> Seq(BuiltPort)]]

\* What services has of the first k ports: these ports, each in the list of its
\* exposure, and every exposure in use in its order.
Collects(s, ports, k, services) ==
  /\ services \in Services
  /\ \A e \in ExposureTypes :
       /\ services.groups[e] # <<>> => e \in ToSet(services.order)
       /\ \A i \in DOMAIN services.groups[e] : \E j \in 1..k :
            /\ services.groups[e][i] = BuildPort(s, ports[j])
            /\ ResolveExposure(s, ports[j]).exposeAs = e
  /\ \A j \in 1..k : \E i \in DOMAIN services.groups[ResolveExposure(s, ports[j]).exposeAs] :
       services.groups[ResolveExposure(s, ports[j]).exposeAs][i] = BuildPort(s, ports[j])

LEMMA PortAdded ==
  ASSUME NEW s \in ServerSpecs, NEW ports \in Seq(TemplatePort), NEW k \in 1..Len(ports),
         NEW old, Collects(s, ports, k - 1, old)
  PROVE  Collects(s, ports, k, AddPort(s, old, ports[k]))
<1> DEFINE p == ports[k]
           e == ResolveExposure(s, p).exposeAs
           b == BuildPort(s, p)
           new == AddPort(s, old, p)
<1>1. p \in TemplatePort /\ k \in Nat /\ k # 0 /\ 1..k = (1..(k - 1)) \union {k}
  OBVIOUS
<1>2. e \in ExposureTypes /\ b \in BuiltPort
  BY <1>1, ExposureResolved, PortBuilt DEF Exposures
<1>3. old \in Services
  BY DEF Collects
<1>4. /\ new.groups = [old.groups EXCEPT ![e] = Append(old.groups[e], b)]
      /\ new.order = IF old.groups[e] # <<>> THEN old.order ELSE Append(old.order, e)
      /\ new = [order |-> new.order, groups |-> new.groups]
  BY DEF AddPort
<1> HIDE DEF p, e, b, new
<1>5. /\ \A f \in ExposureTypes \ {e} : new.groups[f] = old.groups[f]
      /\ new.groups[e] = Append(old.groups[e], b)
      /\ old.groups[e] \in Seq(BuiltPort)
  BY <1>2, <1>3, <1>4 DEF Services
<1>6. /\ DOMAIN new.groups[e] = (DOMAIN old.groups[e]) \union {Len(old.groups[e]) + 1}
      /\ \A i \in DOMAIN old.groups[e] : new.groups[e][i] = old.groups[e][i]
      /\ new.groups[e][Len(old.groups[e]) + 1] = b
  BY <1>2, <1>5
<1>7. /\ new.order \in Seq(ExposureTypes)
      /\ ToSet(old.order) \subseteq ToSet(new.order)
      /\ e \in ToSet(new.order)
  <2>1. old.order \in Seq(ExposureTypes)
    BY <1>3 DEF Services
  <2>2. CASE old.groups[e] # <<>>
    BY <1>2, <1>4, <2>1, <2>2 DEF Collects
  <2>3. CASE old.groups[e] = <<>>
    <3>1. new.order = Append(old.order, e)
      BY <1>4, <2>3
    <3>2. /\ DOMAIN new.order = (DOMAIN old.order) \union {Len(old.order) + 1}
          /\ \A i \in DOMAIN old.order : new.order[i] = old.order[i]
          /\ new.order[Len(old.order) + 1] = e
      BY <1>2, <2>1, <3>1
    <3> QED
      BY <1>2, <2>1, <3>1, <3>2 DEF ToSet
  <2> QED
    BY <2>2, <2>3
<1>8. new \in Services
  <2>1. new.groups \in [ExposureTypes -> Seq(BuiltPort)]
    BY <1>2, <1>3, <1>4, <1>5 DEF Services
  <2> QED
    BY <1>4, <1>7, <2>1 DEF Services
<1>9. ASSUME NEW f \in ExposureTypes
      PROVE  /\ new.groups[f] # <<>> => f \in ToSet(new.order)
             /\ \A i \in DOMAIN new.groups[f] : \E j \in 1..k :
                  /\ new.groups[f][i] = BuildPort(s, ports[j])
                  /\ ResolveExposure(s, ports[j]).exposeAs = f
  <2>1. /\ old.groups[f] # <<>> => f \in ToSet(old.order)
        /\ \A i \in DOMAIN old.groups[f] : \E j \in 1..(k - 1) :
             /\ old.groups[f][i] = BuildPort(s, ports[j])
             /\ ResolveExposure(s, ports[j]).exposeAs = f
    BY DEF Collects
  <2>2. CASE f # e
    BY <1>1, <1>5, <1>7, <2>1, <2>2
  <2>3. CASE f = e
    <3>1. b = BuildPort(s, ports[k]) /\ e = ResolveExposure(s, ports[k]).exposeAs /\ k \in 1..k
      BY <1>1 DEF b, e, p
    <3>2. ASSUME NEW i \in DOMAIN new.groups[e]
          PROVE  \E j \in 1..k : /\ new.groups[e][i] = BuildPort(s, ports[j])
                                 /\ ResolveExposure(s, ports[j]).exposeAs = e
      <4>1. CASE i \in DOMAIN old.groups[e]
        BY <1>1, <1>6, <2>1, <2>3, <4>1
      <4>2. CASE i = Len(old.groups[e]) + 1
        BY <1>6, <3>1, <4>2
      <4> QED
        BY <1>6, <4>1, <4>2
    <3> QED
      BY <1>7, <2>3, <3>2
  <2> QED
    BY <2>2, <2>3
<1>10. ASSUME NEW j \in 1..k
       PROVE  \E i \in DOMAIN new.groups[ResolveExposure(s, ports[j]).exposeAs] :
                new.groups[ResolveExposure(s, ports[j]).exposeAs][i] = BuildPort(s, ports[j])
  <2>1. CASE j = k
    BY <1>6, <2>1 DEF b, e, p
  <2>2. CASE j # k
    <3> DEFINE f == ResolveExposure(s, ports[j]).exposeAs
    <3>1. PICK i \in DOMAIN old.groups[f] : old.groups[f][i] = BuildPort(s, ports[j])
      BY <1>1, <2>2 DEF Collects
    <3>2. f \in ExposureTypes
      <4>1. ports[j] \in TemplatePort
        BY <1>1
      <4> QED
        BY <4>1, ExposureResolved DEF Exposures
    <3> HIDE DEF f
    <3>3. i \in DOMAIN new.groups[f] /\ new.groups[f][i] = old.groups[f][i]
      BY <1>5, <1>6, <3>1, <3>2
    <3> QED
      BY <3>1, <3>3 DEF f
  <2> QED
    BY <2>1, <2>2
<1> QED
  BY <1>8, <1>9, <1>10 DEF Collects, new, p

\* Each port is in the Service of its exposure, and nothing else is.
LEMMA ServicesBuilt ==
  ASSUME NEW s \in ServerSpecs, NEW t \in TemplateSpecs
  PROVE  Collects(s, t.ports, Len(t.ports), BuildServices(s, t))
<1>1. t.ports \in Seq(TemplatePort)
  BY SpecsAssumption
<1>2. PICK F : Steps(s, t.ports, F) /\ BuildServices(s, t) = F[Len(t.ports)]
  BY <1>1, BuiltStepwise
<1> DEFINE n == Len(t.ports)
           Good == {k \in Nat : k <= n => Collects(s, t.ports, k, F[k])}
<1>3. n \in Nat
  BY <1>1
<1> HIDE DEF n
<1>4. 0 \in Good
  <2>1. F[0] = NoPorts /\ 1..0 = {}
    BY <1>2 DEF Steps
  <2>2. <<>> \in Seq(ExposureTypes) /\ <<>> \in Seq(BuiltPort)
    OBVIOUS
  <2>3. NoPorts \in Services /\ \A e \in ExposureTypes : NoPorts.groups[e] = <<>>
    BY <2>2 DEF NoPorts, Services
  <2>4. DOMAIN <<>> = {}
    OBVIOUS
  <2> QED
    BY <2>1, <2>3, <2>4 DEF Collects
<1>5. ASSUME NEW k \in Good PROVE k + 1 \in Good
  <2> SUFFICES ASSUME k + 1 <= n PROVE Collects(s, t.ports, k + 1, F[k + 1])
    OBVIOUS
  <2>1. k + 1 \in 1..n /\ (k + 1) - 1 = k /\ Collects(s, t.ports, k, F[k])
    BY <1>3
  <2>2. F[k + 1] = AddPort(s, F[k], t.ports[k + 1])
    BY <1>2, <2>1 DEF Steps, n
  <2> QED
    BY <1>1, <2>1, <2>2, PortAdded DEF n
<1>6. Good = Nat
  BY <1>4, <1>5, Reaches
<1>7. n \in Good
  BY <1>3, <1>6
<1> QED
  BY <1>2, <1>3, <1>7 DEF n

\* A port is built with a NodePort only if an override pins it.
LEMMA PinsAreOverrides ==
  ASSUME NEW s \in ServerSpecs, NEW t \in TemplateSpecs, NEW e \in ExposureTypes,
         NEW i \in DOMAIN BuildServices(s, t).groups[e],
         BuildServices(s, t).groups[e][i].nodePort # 0
  PROVE  /\ e = "NodePort"
         /\ \E o \in ToSet(s.override) :
              /\ o.portName = BuildServices(s, t).groups[e][i].name
              /\ o.nodePort = BuildServices(s, t).groups[e][i].nodePort
<1> DEFINE built == BuildServices(s, t).groups[e]
<1>1. PICK j \in 1..Len(t.ports) : /\ built[i] = BuildPort(s, t.ports[j])
                                   /\ ResolveExposure(s, t.ports[j]).exposeAs = e
  BY ServicesBuilt DEF Collects
<1>2. t.ports[j] \in TemplatePort
  BY SpecsAssumption
<1> QED
  BY <1>1, <1>2, PortBuilt, ExposureResolved

\* Merging keeps all of a built port but its NodePort, which is the pin or, for
\* want of one, that of the existing port of its name.
LEMMA MergeKeeps ==
  ASSUME NEW existing \in Seq(ServicePort), NamesDiffer(existing),
         NEW built \in Seq(BuiltPort), NEW i \in DOMAIN built
  PROVE  LET merged == MergeServicePorts(existing, built)
         IN  /\ DOMAIN merged = DOMAIN built
             /\ merged[i].name = built[i].name
             /\ merged[i].port = built[i].port
             /\ merged[i].protocol = built[i].protocol
             /\ built[i].nodePort # 0 => merged[i].nodePort = built[i].nodePort
             /\ \A j \in DOMAIN existing :
                  (existing[j].name = built[i].name /\ built[i].nodePort = 0)
                    => merged[i].nodePort = existing[j].nodePort
             /\ (\A j \in DOMAIN existing : existing[j].name # built[i].name)
                  => merged[i].nodePort = built[i].nodePort
<1> DEFINE merged == MergeServicePorts(existing, built)
           same == SelectLastInSeq(existing, LAMBDA p : p.name = built[i].name)
<1>1. built[i] \in BuiltPort
  OBVIOUS
<1>2. /\ DOMAIN merged = DOMAIN built
      /\ merged[i] = IF same # 0 /\ built[i].nodePort = 0
                     THEN [built[i] EXCEPT !.nodePort = existing[same].nodePort]
                     ELSE built[i]
  BY DEF MergeServicePorts
<1>3. /\ merged[i].name = built[i].name
      /\ merged[i].port = built[i].port
      /\ merged[i].protocol = built[i].protocol
      /\ built[i].nodePort # 0 => merged[i].nodePort = built[i].nodePort
      /\ (same # 0 /\ built[i].nodePort = 0) => merged[i].nodePort = existing[same].nodePort
      /\ same = 0 => merged[i].nodePort = built[i].nodePort
  BY <1>1, <1>2 DEF BuiltPort
<1>4. DOMAIN existing = 1..Len(existing)
  OBVIOUS
<1>5. ASSUME NEW j \in DOMAIN existing, existing[j].name = built[i].name
      PROVE  same = j
  <2>1. \A k \in 1..Len(existing) : existing[k].name = built[i].name => k = j
    BY <1>4, <1>5 DEF NamesDiffer
  <2> QED
    BY <1>4, <1>5, <2>1, OnlyOne
<1>6. ASSUME \A j \in 1..Len(existing) : existing[j].name # built[i].name
      PROVE  same = 0
  BY <1>6 DEF SelectLastInSeq
<1> HIDE DEF same
<1>7. \A j \in DOMAIN existing : existing[j].name = built[i].name => same = j /\ same # 0
  BY <1>4, <1>5
<1> QED
  BY <1>2, <1>3, <1>4, <1>6, <1>7

\* What the API server stores: what is asked for, but for NodePorts of ports
\* without one.
LEMMA AssignedKeeps ==
  ASSUME NEW e \in ExposureTypes, NEW ports, NEW stored \in Assigned(e, ports)
  PROVE  /\ ports \in Seq(ServicePort)
         /\ NamesDiffer(ports)
         /\ DOMAIN stored = DOMAIN ports
         /\ stored \in Seq(ServicePort)
         /\ \A i \in DOMAIN ports :
              /\ stored[i].name = ports[i].name
              /\ stored[i].port = ports[i].port
              /\ stored[i].protocol = ports[i].protocol
              /\ ports[i].nodePort # 0 => stored[i].nodePort = ports[i].nodePort
              /\ (ports[i].nodePort = 0 /\ e = "ClusterIP") => stored[i].nodePort = 0
              /\ e # "ClusterIP" => stored[i].nodePort # 0
<1> DEFINE missing == {i \in DOMAIN ports : e # "ClusterIP" /\ ports[i].nodePort = 0}
           free == NodePorts \ (Held(e) \union HeldByOthers(e) \union {p.nodePort : p \in ToSet(ports)})
<1>1. PICK new \in Injection(missing, free) :
        stored = [i \in DOMAIN ports |-> IF i \in missing
                    THEN [ports[i] EXCEPT !.nodePort = new[i]] ELSE ports[i]]
  BY DEF Assigned
<1>2. ports \in Seq(ServicePort) /\ NamesDiffer(ports)
  BY DEF Assigned, Acceptable, Distinct, NamesDiffer
<1>3. new \in [missing -> free]
  BY DEF Injection
<1>4. free \subseteq NodePorts /\ NodePorts \subseteq Nat /\ 0 \notin NodePorts
  BY BoundsAssumption
<1> HIDE DEF free
<1>5. \A i \in missing : new[i] \in NodePorts /\ new[i] \in Nat /\ new[i] # 0
  BY <1>3, <1>4
<1>6. ASSUME NEW i \in DOMAIN ports
      PROVE  /\ stored[i] \in ServicePort
             /\ stored[i].name = ports[i].name
             /\ stored[i].port = ports[i].port
             /\ stored[i].protocol = ports[i].protocol
             /\ i \in missing => stored[i].nodePort # 0
             /\ i \notin missing => stored[i] = ports[i]
  <2>1. ports[i] \in ServicePort
    BY <1>2
  <2>2. CASE i \in missing
    <3>1. stored[i] = [ports[i] EXCEPT !.nodePort = new[i]]
      BY <1>1, <2>2
    <3> HIDE DEF missing
    <3> QED
      BY <1>5, <2>1, <2>2, <3>1 DEF ServicePort, BuiltPort
  <2>3. CASE i \notin missing
    BY <1>1, <2>1, <2>3
  <2> QED
    BY <2>2, <2>3
<1>7. stored \in Seq(ServicePort) /\ DOMAIN stored = DOMAIN ports
  <2>1. stored \in [1..Len(ports) -> ServicePort]
    BY <1>1, <1>2, <1>6
  <2> QED
    BY <1>1, <1>2, <2>1
<1> QED
  BY <1>2, <1>6, <1>7

-----------------------------------------------------------------------------
(* The address *)

LEMMA PrimaryIsPort ==
  ASSUME NEW t \in TemplateSpecs
  PROVE  PrimaryPort(t) \in TemplatePort /\ PrimaryPort(t) \in ToSet(t.ports)
<1> DEFINE P == {i \in 1..Len(t.ports) : t.ports[i].primary}
           T == {i \in 1..Len(t.ports) : t.ports[i].protocol = "TCP"}
           primary == SelectInSeq(t.ports, LAMBDA p : p.primary)
           tcp == SelectInSeq(t.ports, LAMBDA p : p.protocol = "TCP")
<1>1. t.ports \in Seq(TemplatePort) /\ t.ports # <<>>
  BY SpecsAssumption
<1>2. 1 \in 1..Len(t.ports)
  BY <1>1
<1>3. primary # 0 => primary \in 1..Len(t.ports)
  <2>1. P \subseteq Nat
    OBVIOUS
  <2>2. P # {} => Min(P) \in P
    <3> HIDE DEF P
    <3> QED
      BY <2>1, SmallestTaken
  <2> QED
    BY <2>2 DEF SelectInSeq
<1>4. tcp # 0 => tcp \in 1..Len(t.ports)
  <2>1. T \subseteq Nat
    OBVIOUS
  <2>2. T # {} => Min(T) \in T
    <3> HIDE DEF T
    <3> QED
      BY <2>1, SmallestTaken
  <2> QED
    BY <2>2 DEF SelectInSeq
<1>5. PrimaryPort(t) = t.ports[IF primary # 0 THEN primary ELSE IF tcp # 0 THEN tcp ELSE 1]
  BY DEF PrimaryPort
<1> HIDE DEF primary, tcp
<1>6. \E i \in 1..Len(t.ports) : PrimaryPort(t) = t.ports[i]
  BY <1>2, <1>3, <1>4, <1>5
<1> QED
  BY <1>1, <1>6 DEF ToSet

FirstNamed(seq, name) == SelectInSeq(seq, LAMBDA sp : sp.name = name)

LEMMA NamedFound ==
  ASSUME NEW S, NEW seq \in Seq(S), NEW name
  PROVE  /\ FirstNamed(seq, name) # 0 =>
              /\ FirstNamed(seq, name) \in DOMAIN seq
              /\ seq[FirstNamed(seq, name)].name = name
         /\ (\E i \in DOMAIN seq : seq[i].name = name) => FirstNamed(seq, name) # 0
<1> DEFINE I == {i \in 1..Len(seq) : seq[i].name = name}
<1>1. DOMAIN seq = 1..Len(seq) /\ I \subseteq Nat
  OBVIOUS
<1>2. I # {} => Min(I) \in I
  <2> HIDE DEF I
  <2> QED
    BY <1>1, SmallestTaken
<1>3. FirstNamed(seq, name) = IF I # {} THEN Min(I) ELSE 0
  BY DEF SelectInSeq, FirstNamed
<1> QED
  BY <1>1, <1>2, <1>3

LEMMA AddressType ==
  ASSUME NEW s \in ServerSpecs, NEW t \in TemplateSpecs,
         NEW services \in [ExposureTypes -> Maybe(Service)]
  PROVE  PrimaryAddress(s, t, services) \in Address
<1> DEFINE p == PrimaryPort(t)
           exposure == ResolveExposure(s, p)
           svc == services[exposure.exposeAs]
           assigned == FirstNamed(svc.ports, p.name)
           nodePort == IF exposure.nodePort # 0 THEN exposure.nodePort
                       ELSE IF assigned # 0 THEN svc.ports[assigned].nodePort ELSE 0
<1>1. p \in TemplatePort /\ exposure \in Exposures
  BY PrimaryIsPort, ExposureResolved
<1>2. svc # Absent => svc \in Service
  BY <1>1 DEF Exposures, Maybe
<1>3. svc # Absent => nodePort \in Nat
  <2> SUFFICES ASSUME svc # Absent PROVE nodePort \in Nat
    OBVIOUS
  <2>1. svc.ports \in Seq(ServicePort)
    BY <1>2 DEF Service
  <2>2. assigned # 0 => assigned \in DOMAIN svc.ports
    BY <2>1, NamedFound
  <2> HIDE DEF assigned
  <2>3. assigned # 0 => svc.ports[assigned].nodePort \in Nat
    BY <2>1, <2>2 DEF ServicePort, BuiltPort
  <2> QED
    BY <1>1, <2>3 DEF Exposures
<1>4. PrimaryAddress(s, t, services) =
        IF svc = Absent THEN NoAddress
        ELSE CASE exposure.exposeAs = "ClusterIP" -> [via |-> "ClusterIP", port |-> p.containerPort]
               [] exposure.exposeAs = "NodePort" ->
                    IF nodePort = 0 THEN NoAddress ELSE [via |-> "NodePort", port |-> nodePort]
               [] exposure.exposeAs = "LoadBalancer" ->
                    IF svc.ingress THEN [via |-> "LoadBalancer", port |-> p.containerPort]
                    ELSE NoAddress
  BY DEF PrimaryAddress, FirstNamed
<1> HIDE DEF p, exposure, svc, nodePort
<1>5. exposure.exposeAs \in ExposureTypes /\ p.containerPort \in Nat
  BY <1>1 DEF Exposures, TemplatePort
<1>6. NoAddress \in Address
  BY DEF NoAddress, Address
<1> QED
  <2>1. CASE svc = Absent
    BY <1>4, <1>6, <2>1
  <2>2. CASE svc # Absent
    <3>1. ASSUME NEW via \in ExposureTypes, NEW port \in Nat
          PROVE  [via |-> via, port |-> port] \in Address
      BY DEF Address
    <3> QED
      BY <1>3, <1>4, <1>5, <1>6, <2>2, <3>1 DEF ExposureTypes
  <2> QED
    BY <2>1, <2>2

-----------------------------------------------------------------------------
(* The environment *)

\* An entry of a list is the last one of its name.
LEMMA ListedLast ==
  ASSUME NEW env \in Seq(EnvVar), NEW v \in DOMAIN Listed(env)
  PROVE  LET I == {i \in DOMAIN env : env[i].name = v}
         IN  /\ Max(I) \in I
             /\ \A i \in I : Max(I) >= i
             /\ Listed(env)[v] = env[Max(I)].value
<1> DEFINE I == {i \in 1..Len(env) : env[i].name = v}
<1>1. DOMAIN env = 1..Len(env) /\ Len(env) \in Nat
  OBVIOUS
<1>2. I # {} /\ I \in SUBSET (1..Len(env))
  BY <1>1 DEF Listed, ToSet
<1>3. Listed(env)[v] = env[SelectLastInSeq(env, LAMBDA e : e.name = v)].value
  BY DEF Listed
<1>4. SelectLastInSeq(env, LAMBDA e : e.name = v) = Max(I)
  BY <1>2 DEF SelectLastInSeq
<1> HIDE DEF I
<1>5. Max(I) \in I /\ \A i \in I : Max(I) >= i
  BY <1>1, <1>2, LargestTaken
<1> QED
  BY <1>1, <1>3, <1>4, <1>5 DEF I

LEMMA DefaultLast ==
  ASSUME NEW t \in TemplateSpecs, NEW v \in DOMAIN Defaults(t)
  PROVE  \E i \in DOMAIN t.keys :
           /\ t.keys[i].default # "" /\ t.keys[i].envVar = v
           /\ Defaults(t)[v] = t.keys[i].default
<1> DEFINE I == {i \in 1..Len(t.keys) : t.keys[i].default # "" /\ t.keys[i].envVar = v}
<1>1. t.keys \in Seq(TemplateKey) /\ DOMAIN t.keys = 1..Len(t.keys) /\ Len(t.keys) \in Nat
  BY SpecsAssumption
<1>2. I # {} /\ I \in SUBSET (1..Len(t.keys))
  BY <1>1 DEF Defaults, ToSet
<1>3. Defaults(t)[v] =
        t.keys[SelectLastInSeq(t.keys, LAMBDA k : k.default # "" /\ k.envVar = v)].default
  BY DEF Defaults
<1>4. SelectLastInSeq(t.keys, LAMBDA k : k.default # "" /\ k.envVar = v) = Max(I)
  BY <1>2 DEF SelectLastInSeq
<1>5. Max(I) \in I
  <2> HIDE DEF I
  <2> QED
    BY <1>1, <1>2, LargestTaken
<1> QED
  BY <1>1, <1>3, <1>4, <1>5

\* A key of a name the template knows is one of its keys.
LEMMA ConfigKeyFound ==
  ASSUME NEW t \in TemplateSpecs, NEW name \in KeyNames(t)
  PROVE  \E i \in DOMAIN t.keys : ConfigKey(t, name) = t.keys[i] /\ t.keys[i].name = name
<1> DEFINE I == {i \in 1..Len(t.keys) : t.keys[i].name = name}
<1>1. t.keys \in Seq(TemplateKey) /\ DOMAIN t.keys = 1..Len(t.keys) /\ Len(t.keys) \in Nat
  BY SpecsAssumption
<1>2. I # {} /\ I \in SUBSET (1..Len(t.keys))
  BY <1>1 DEF KeyNames, ToSet
<1>3. ConfigKey(t, name) = t.keys[SelectLastInSeq(t.keys, LAMBDA k : k.name = name)]
  BY DEF ConfigKey
<1>4. SelectLastInSeq(t.keys, LAMBDA k : k.name = name) = Max(I)
  BY <1>2 DEF SelectLastInSeq
<1>5. Max(I) \in I
  <2> HIDE DEF I
  <2> QED
    BY <1>1, <1>2, LargestTaken
<1> QED
  BY <1>1, <1>3, <1>4, <1>5

LEMMA ConfiguredLast ==
  ASSUME NEW s \in ServerSpecs, NEW t \in TemplateSpecs, NEW v \in DOMAIN Configured(s, t)
  PROVE  \E name \in DOMAIN s.config \intersect KeyNames(t) :
           ConfigKey(t, name).envVar = v /\ Configured(s, t)[v] = s.config[name]
<1> DEFINE known == DOMAIN s.config \intersect KeyNames(t)
           I == {i \in 1..Len(KeyOrder) : KeyOrder[i] \in known
                                          /\ ConfigKey(t, KeyOrder[i]).envVar = v}
           last == SelectLastInSeq(KeyOrder,
                     LAMBDA name : name \in known /\ ConfigKey(t, name).envVar = v)
<1>1. KeyOrder \in Seq(STRING) /\ DOMAIN KeyOrder = 1..Len(KeyOrder) /\ Len(KeyOrder) \in Nat
  BY SpecsAssumption
<1>2. PICK name \in known : ConfigKey(t, name).envVar = v
  BY DEF Configured
<1>3. name \in ToSet(KeyOrder)
  BY <1>2, SpecsAssumption
<1>4. I # {} /\ I \in SUBSET (1..Len(KeyOrder))
  BY <1>1, <1>2, <1>3 DEF ToSet
<1>5. Configured(s, t)[v] = s.config[KeyOrder[last]]
  BY DEF Configured
<1>6. last = Max(I)
  BY <1>4 DEF SelectLastInSeq
<1>7. Max(I) \in I
  <2> HIDE DEF I
  <2> QED
    BY <1>1, <1>4, LargestTaken
<1> QED
  BY <1>5, <1>6, <1>7

LEMMA EnvType ==
  ASSUME NEW s \in ServerSpecs, NEW t \in TemplateSpecs
  PROVE  \A v \in DOMAIN ResolveEnv(s, t) : v \in STRING /\ ResolveEnv(s, t)[v] \in STRING
<1> DEFINE Typed(f) == \A v \in DOMAIN f : v \in STRING /\ f[v] \in STRING
<1>1. ASSUME NEW env \in Seq(EnvVar) PROVE Typed(Listed(env))
  <2> TAKE v \in DOMAIN Listed(env)
  <2>1. PICK i \in DOMAIN env : env[i].name = v /\ Listed(env)[v] = env[i].value
    BY ListedLast
  <2>2. env[i] \in EnvVar
    OBVIOUS
  <2> QED
    BY <2>1, <2>2 DEF EnvVar
<1>2. Typed(Defaults(t))
  <2> TAKE v \in DOMAIN Defaults(t)
  <2>1. PICK i \in DOMAIN t.keys : t.keys[i].envVar = v /\ Defaults(t)[v] = t.keys[i].default
    BY DefaultLast
  <2>2. t.keys[i] \in TemplateKey
    BY SpecsAssumption
  <2> QED
    BY <2>1, <2>2 DEF TemplateKey
<1>3. Typed(Configured(s, t))
  <2> TAKE v \in DOMAIN Configured(s, t)
  <2>1. PICK name \in DOMAIN s.config \intersect KeyNames(t) :
          ConfigKey(t, name).envVar = v /\ Configured(s, t)[v] = s.config[name]
    BY ConfiguredLast
  <2>2. PICK i \in DOMAIN t.keys : ConfigKey(t, name) = t.keys[i]
    BY <2>1, ConfigKeyFound
  <2>3. t.keys[i] \in TemplateKey /\ s.config[name] \in STRING
    BY <2>1, SpecsAssumption
  <2> QED
    BY <2>1, <2>2, <2>3 DEF TemplateKey
<1>4. ASSUME NEW f, NEW g, Typed(f), Typed(g) PROVE Typed(Over(f, g))
  BY <1>4 DEF Over
<1>5. s.env \in Seq(EnvVar) /\ t.env \in Seq(EnvVar)
  BY SpecsAssumption
<1>6. Typed(Listed(s.env)) /\ Typed(Listed(t.env))
  BY <1>1, <1>5
<1> HIDE DEF Typed
<1>7. Typed(Over(Defaults(t), Listed(t.env)))
  BY <1>2, <1>4, <1>6
<1>8. Typed(Over(Configured(s, t), Over(Defaults(t), Listed(t.env))))
  BY <1>3, <1>4, <1>7
<1>9. Typed(ResolveEnv(s, t))
  BY <1>4, <1>6, <1>8 DEF ResolveEnv
<1> QED
  BY <1>9 DEF Typed

\* With keys told apart by name and variable, each has the value that the last
\* override, the config, or its default gives it.
LEMMA EnvDelivers ==
  ASSUME NEW s \in ServerSpecs, NEW t \in TemplateSpecs, ValidateTemplate(t),
         ValidateConfig(s, t), NEW k \in ToSet(t.keys)
  PROVE  Delivers(ResolveEnv(s, t), s, t, k)
<1> DEFINE env == ResolveEnv(s, t)
           overrides == {i \in DOMAIN s.env : s.env[i].name = k.envVar}
           own == Listed(s.env)
           v == k.envVar
<1>1. /\ s.env \in Seq(EnvVar) /\ t.keys \in Seq(TemplateKey)
      /\ \A i, j \in DOMAIN t.keys : t.keys[i].name = t.keys[j].name => i = j
      /\ \A i, j \in DOMAIN t.keys : t.keys[i].envVar = t.keys[j].envVar => i = j
  BY SpecsAssumption DEF ValidateTemplate, Distinct
<1>2. PICK n \in DOMAIN t.keys : k = t.keys[n]
  BY DEF ToSet
<1>3. k.name \in KeyNames(t) /\ ConfigKey(t, k.name) = k
  <2>1. k.name \in KeyNames(t)
    BY DEF KeyNames
  <2>2. PICK i \in DOMAIN t.keys : ConfigKey(t, k.name) = t.keys[i] /\ t.keys[i].name = k.name
    BY <2>1, ConfigKeyFound
  <2> QED
    BY <1>1, <1>2, <2>1, <2>2
<1>4. v \in DOMAIN own <=> overrides # {}
  BY DEF Listed, ToSet
<1>5. v \in DOMAIN own => env[v] = s.env[Max(overrides)].value
  <2> SUFFICES ASSUME v \in DOMAIN own PROVE env[v] = s.env[Max(overrides)].value
    OBVIOUS
  <2>1. own[v] = s.env[Max(overrides)].value
    BY <1>1, ListedLast
  <2> HIDE DEF own
  <2>2. env[v] = own[v]
    BY DEF ResolveEnv, Over, own
  <2> QED
    BY <2>1, <2>2
<1>6. ASSUME v \notin DOMAIN own, k.name \in DOMAIN s.config
      PROVE  v \in DOMAIN env /\ env[v] = s.config[k.name]
  <2>1. v \in DOMAIN Configured(s, t)
    BY <1>3, <1>6 DEF Configured
  <2>2. PICK name \in DOMAIN s.config \intersect KeyNames(t) :
          ConfigKey(t, name).envVar = v /\ Configured(s, t)[v] = s.config[name]
    BY <2>1, ConfiguredLast
  <2>3. PICK i \in DOMAIN t.keys : ConfigKey(t, name) = t.keys[i] /\ t.keys[i].name = name
    BY <2>2, ConfigKeyFound
  <2>4. i = n /\ name = k.name
    BY <1>1, <1>2, <2>2, <2>3
  <2> HIDE DEF own
  <2>5. v \in DOMAIN env /\ env[v] = Configured(s, t)[v]
    BY <1>6, <2>1 DEF ResolveEnv, Over, own
  <2> QED
    BY <2>2, <2>4, <2>5
<1>7. ASSUME v \notin DOMAIN own, k.name \notin DOMAIN s.config, k.default # ""
      PROVE  v \in DOMAIN env /\ env[v] = k.default
  <2>1. v \notin DOMAIN Configured(s, t)
    <3> SUFFICES ASSUME v \in DOMAIN Configured(s, t) PROVE FALSE
      OBVIOUS
    <3>2. PICK name \in DOMAIN s.config \intersect KeyNames(t) : ConfigKey(t, name).envVar = v
      BY ConfiguredLast
    <3>3. PICK i \in DOMAIN t.keys : ConfigKey(t, name) = t.keys[i] /\ t.keys[i].name = name
      BY <3>2, ConfigKeyFound
    <3> QED
      BY <1>1, <1>2, <1>7, <3>2, <3>3
  <2>2. v \in DOMAIN Defaults(t)
    BY <1>7 DEF Defaults
  <2>3. PICK i \in DOMAIN t.keys : t.keys[i].envVar = v /\ Defaults(t)[v] = t.keys[i].default
    BY <2>2, DefaultLast
  <2>4. i = n
    BY <1>1, <1>2, <2>3
  <2> HIDE DEF own
  <2>5. v \in DOMAIN env /\ env[v] = Defaults(t)[v]
    BY <1>7, <2>1, <2>2 DEF ResolveEnv, Over, own
  <2> QED
    BY <1>2, <2>3, <2>4, <2>5
<1>8. k.type = "enum" =>
        /\ k.name \in DOMAIN s.config => s.config[k.name] \in k.enum
        /\ k.default # "" => k.default \in k.enum
  <2>1. k.name \in DOMAIN s.config => HasType(k, s.config[k.name])
    BY <1>3 DEF ValidateConfig
  <2>2. EnumsFit(k)
    BY DEF ValidateTemplate
  <2> QED
    BY <2>1, <2>2 DEF HasType, EnumsFit
<1> HIDE DEF env, own, overrides
<1>9. CASE overrides # {}
  BY <1>4, <1>5, <1>9 DEF Delivers, env, overrides
<1>10. CASE overrides = {}
  <2> DEFINE value == IF k.name \in DOMAIN s.config THEN s.config[k.name] ELSE k.default
  <2>1. ASSUME k.name \in DOMAIN s.config \/ k.default # ""
        PROVE  /\ v \in DOMAIN env
               /\ env[v] = value
               /\ k.type = "enum" => value \in k.enum
    BY <1>4, <1>6, <1>7, <1>8, <1>10, <2>1
  <2> QED
    BY <1>10, <2>1 DEF Delivers, env, overrides
<1> QED
  BY <1>9, <1>10

-----------------------------------------------------------------------------
(* Types *)

LEMMA BuiltType ==
  ASSUME NEW s \in ServerSpecs, NEW t \in TemplateSpecs
  PROVE  BuildServices(s, t) \in Services
BY ServicesBuilt DEF Collects

\* While a Service is applied it is one of an exposure, and of a server and a
\* template that were read.
LEMMA TurnType ==
  ASSUME TypeOK, ApplyingService
  PROVE  /\ Turn \in ExposureTypes
         /\ Tail(pass.todo) \in Seq(ExposureTypes)
         /\ ToSet(pass.todo) \subseteq {Turn} \union ToSet(Tail(pass.todo))
         /\ pass.pc = "ApplyServices"
         /\ pass.gs \in Server /\ pass.gs.spec \in ServerSpecs /\ pass.tpl \in TemplateSpecs
<1>1. pass.todo \in Seq(ExposureTypes) /\ pass.todo # <<>>
  BY DEF TypeOK, ApplyingService
<1>2. \A i \in DOMAIN pass.todo : i = 1 \/ (i - 1 \in DOMAIN Tail(pass.todo)
                                          /\ Tail(pass.todo)[i - 1] = pass.todo[i])
  BY <1>1
<1>3. pass.todo[1] = Turn /\ Turn \in ExposureTypes
  BY <1>1 DEF Turn
<1>4. Tail(pass.todo) \in Seq(ExposureTypes)
  BY <1>1
<1>5. ToSet(pass.todo) \subseteq {Turn} \union ToSet(Tail(pass.todo))
  BY <1>2, <1>3 DEF ToSet
<1>6. pass.pc = "ApplyServices" /\ pass.gs \in Server /\ pass.tpl \in TemplateSpecs
  BY DEF TypeOK, ApplyingService
<1> QED
  BY <1>3, <1>4, <1>5, <1>6 DEF Server

LEMMA OutcomesType ==
  ASSUME TypeOK, ApplyingService, NEW ports \in Outcomes
  PROVE  ports \in Seq(ServicePort)
BY TurnType, AssignedKeeps DEF Outcomes

\* The Service of e is stored.
LEMMA ServiceStoredType ==
  ASSUME TypeOK, NEW e \in ExposureTypes, NEW svc \in Maybe(Service),
         api' = [api EXCEPT !.svc[e] = svc]
  PROVE  /\ Stored(api')
         /\ api'.svc[e] = svc
         /\ \A f \in ExposureTypes \ {e} : api'.svc[f] = api.svc[f]
         /\ api'.gs = api.gs /\ api'.tpl = api.tpl /\ api'.dep = api.dep
<1> DEFINE new == [api.svc EXCEPT ![e] = svc]
<1>1. new \in [ExposureTypes -> Maybe(Service)] /\ new[e] = svc
      /\ \A f \in ExposureTypes \ {e} : new[f] = api.svc[f]
  BY DEF TypeOK, Stored
<1>2. api' = [api EXCEPT !.svc = new]
  BY DEF TypeOK, Stored, Kinds
<1> HIDE DEF new
<1> QED
  BY <1>1, <1>2 DEF TypeOK, Stored, Kinds

\* The update of the Service whose turn it is, and its creation.
LEMMA UpdateStores ==
  ASSUME TypeOK, UpdateService
  PROVE  \E ports \in Outcomes :
           LET svc == [api.svc[Turn] EXCEPT !.ports = ports]
           IN  /\ svc \in Service
               /\ svc.ports = ports /\ svc.ingress = api.svc[Turn].ingress
               /\ api' = [api EXCEPT !.svc[Turn] = svc]
<1>1. PICK ports \in Outcomes : api' = [api EXCEPT !.svc[Turn].ports = ports]
  BY DEF UpdateService
<1>2. api.svc[Turn] \in Service
  BY TurnType DEF UpdateService, TypeOK, Stored, Maybe
<1>3. ports \in Seq(ServicePort)
  BY OutcomesType DEF UpdateService
<1>4. [api.svc[Turn] EXCEPT !.ports = ports] \in Service
  BY <1>2, <1>3 DEF Service
<1> QED
  BY <1>1, <1>2, <1>4 DEF Service

LEMMA CreateStores ==
  ASSUME TypeOK, CreateService
  PROVE  \E ports \in Outcomes :
           LET svc == [ports |-> ports, ingress |-> FALSE]
           IN  svc \in Service /\ api' = [api EXCEPT !.svc[Turn] = svc]
<1>1. PICK ports \in Outcomes :
        api' = [api EXCEPT !.svc[Turn] = [ports |-> ports, ingress |-> FALSE]]
  BY DEF CreateService
<1>2. ports \in Seq(ServicePort)
  BY OutcomesType DEF CreateService
<1> QED
  BY <1>1, <1>2 DEF Service

Passes == [pc : {"Idle", "FetchTemplate", "ApplyDeployment", "ApplyServices"},
           gs : Maybe(Server), tpl : Maybe(TemplateSpecs),
           groups : [ExposureTypes -> Seq(BuiltPort)], todo : Seq(ExposureTypes),
           applied : [ExposureTypes -> Maybe(Service)]]

PassTyped ==
  /\ pass \in Passes
  /\ pass.pc # "Idle" => pass.gs \in Server
  /\ pass.pc \in {"ApplyDeployment", "ApplyServices"} => pass.tpl \in TemplateSpecs

LEMMA IdleTyped ==
  Idle \in Passes /\ NoServices \in [ExposureTypes -> Maybe(Service)]
<1>1. <<>> \in Seq(BuiltPort) /\ <<>> \in Seq(ExposureTypes)
  OBVIOUS
<1> QED
  BY <1>1 DEF Idle, Passes, NoServices, Maybe

LEMMA InitType == Init => TypeOK
<1> SUFFICES ASSUME Init PROVE TypeOK
  OBVIOUS
<1>1. PICK t \in TemplateSpecs, s \in ServerSpecs :
        api = [gs |-> [spec |-> s, address |-> NoAddress],
               tpl |-> t, dep |-> Absent, svc |-> NoServices]
  BY DEF Init
<1>2. Stored(api)
  BY <1>1, IdleTyped DEF Stored, Kinds, Server, Address, NoAddress, Maybe
<1>3. pass \in Passes /\ pass.pc = "Idle"
  BY IdleTyped DEF Init, Idle
<1>4. edits \in 0..MaxEdits
  BY BoundsAssumption DEF Init
<1> QED
  BY <1>2, <1>3, <1>4 DEF Init, TypeOK, Passes

\* The pass leaves the objects and itself typed.
LEMMA PassStepType ==
  ASSUME TypeOK, PassStep
  PROVE  Stored(api') /\ Stored(cache') /\ PassTyped'
<1>1. Stored(api) /\ Stored(cache) /\ PassTyped
  BY DEF TypeOK, PassTyped, Passes
<1>2. ASSUME pass' = Idle, cache' = cache, Stored(api')
      PROVE  Stored(api') /\ Stored(cache') /\ PassTyped'
  BY <1>1, <1>2, IdleTyped DEF PassTyped, Idle
<1>3. CASE Reconcile
  <2>1. cache.gs \in Server
    BY <1>1 DEF Stored
  <2>2. PassTyped'
    BY <1>3, <2>1, IdleTyped DEF Reconcile, PassTyped, Passes, Idle, Maybe
  <2> QED
    BY <1>1, <1>3, <2>2 DEF Reconcile
<1>4. CASE NotAccepted \/ WriteRefused \/ DeploymentNotCached
  BY <1>1, <1>2, <1>4 DEF NotAccepted, WriteRefused, DeploymentNotCached, Return
<1>5. CASE ConfigValid
  <2>1. cache.tpl \in TemplateSpecs
    BY <1>1, <1>5 DEF ConfigValid, TemplateAccepts, Stored, Maybe
  <2>2. PassTyped'
    BY <1>1, <1>5, <2>1 DEF ConfigValid, PassTyped, Passes, Maybe
  <2> QED
    BY <1>1, <1>5, <2>2 DEF ConfigValid
<1>6. CASE ApplyDeployment
  <2> DEFINE s == pass.gs.spec
             t == pass.tpl
             env == ResolveEnv(s, t)
             services == BuildServices(s, t)
  <2>1. s \in ServerSpecs /\ t \in TemplateSpecs /\ pass.gs \in Server
    BY <1>1, <1>6 DEF ApplyDeployment, PassTyped, Server
  <2>2. services \in Services /\ \A v \in DOMAIN env : v \in STRING /\ env[v] \in STRING
    BY <2>1, BuiltType, EnvType
  <2>3. /\ api' = [api EXCEPT !.dep = env]
        /\ pass' = [pass EXCEPT !.pc = "ApplyServices", !.groups = services.groups,
                                !.todo = services.order]
        /\ cache' = cache
    BY <1>6 DEF ApplyDeployment
  <2> HIDE DEF env, services, s, t
  <2>4. Stored(api')
    BY <1>1, <2>2, <2>3 DEF Stored, Kinds
  <2>5. pass' \in Passes /\ pass'.pc = "ApplyServices" /\ pass'.gs = pass.gs /\ pass'.tpl = pass.tpl
    BY <1>1, <2>2, <2>3 DEF PassTyped, Passes, Services
  <2> QED
    BY <1>1, <2>1, <2>3, <2>4, <2>5 DEF PassTyped, t
<1>7. ASSUME NEW svc \in Service, ApplyingService, cache' \in {cache, [cache EXCEPT !.svc = api'.svc]},
             api' = [api EXCEPT !.svc[Turn] = svc],
             pass' = [pass EXCEPT !.todo = Tail(@), !.applied[Turn] = api'.svc[Turn]]
      PROVE  Stored(api') /\ Stored(cache') /\ PassTyped'
  <2>1. /\ Turn \in ExposureTypes /\ Tail(pass.todo) \in Seq(ExposureTypes)
        /\ svc \in Maybe(Service)
    BY <1>7, TurnType DEF Maybe
  <2>2. Stored(api') /\ api'.svc[Turn] = svc /\ api'.svc \in [ExposureTypes -> Maybe(Service)]
    BY <1>7, <2>1, ServiceStoredType DEF Stored
  <2>3. Stored(cache')
    BY <1>1, <1>7, <2>2 DEF Stored, Kinds
  <2> DEFINE applied == [pass.applied EXCEPT ![Turn] = svc]
             todo == Tail(pass.todo)
  <2>4. applied \in [ExposureTypes -> Maybe(Service)]
    BY <1>1, <2>1 DEF PassTyped, Passes
  <2>5. pass' = [pass EXCEPT !.todo = todo, !.applied = applied]
    BY <1>1, <1>7, <2>2 DEF PassTyped, Passes
  <2> HIDE DEF applied, todo
  <2>6. pass' \in Passes /\ pass'.pc = pass.pc /\ pass'.gs = pass.gs /\ pass'.tpl = pass.tpl
    BY <1>1, <2>1, <2>4, <2>5 DEF PassTyped, Passes, todo
  <2> QED
    BY <1>1, <2>2, <2>3, <2>6 DEF PassTyped
<1>8. CASE UpdateService
  <2>1. PICK svc \in Service : api' = [api EXCEPT !.svc[Turn] = svc]
    BY <1>8, UpdateStores
  <2> QED
    BY <1>7, <1>8, <2>1 DEF UpdateService
<1>9. CASE CreateService
  <2>1. PICK svc \in Service : api' = [api EXCEPT !.svc[Turn] = svc]
    BY <1>9, CreateStores
  <2>2. Stored(api')
    BY <1>9, <2>1, TurnType, ServiceStoredType DEF CreateService, Maybe
  <2> QED
    BY <1>2, <1>7, <1>9, <2>1, <2>2 DEF CreateService, Return
<1>10. CASE RefreshStatus
  <2> DEFINE address == PrimaryAddress(pass.gs.spec, pass.tpl, pass.applied)
  <2>1. address \in Address
    BY <1>1, <1>10, AddressType DEF RefreshStatus, PassTyped, Passes, Server
  <2>2. api' = api \/ api' = [api EXCEPT !.gs.address = address]
    BY <1>10 DEF RefreshStatus
  <2> HIDE DEF address
  <2>3. [api.gs EXCEPT !.address = address] \in Server
    BY <1>1, <2>1 DEF Stored, Server
  <2>4. Stored(api')
    BY <1>1, <2>2, <2>3 DEF Stored, Kinds
  <2> QED
    BY <1>2, <1>10, <2>4 DEF RefreshStatus, Return
<1> QED
  BY <1>3, <1>4, <1>5, <1>6, <1>8, <1>9, <1>10 DEF PassStep

LEMMA PassStepBounded ==
  ASSUME TypeOK, PassStep
  PROVE  queued' \in BOOLEAN /\ edits' = edits
BY DEF TypeOK, PassStep, Reconcile, NotAccepted, ConfigValid, ApplyDeployment, UpdateService,
   CreateService, WriteRefused, DeploymentNotCached, RefreshStatus, Return

LEMMA UserStepType == ASSUME TypeOK, UserStep PROVE Stored(api')
<1>1. Stored(api)
  BY DEF TypeOK
<1>2. ASSUME NEW s \in ServerSpecs, ApplyServer(s) PROVE Stored(api')
  <2>1. api' = [api EXCEPT !.gs.spec = s]
    BY <1>2 DEF ApplyServer
  <2>2. [api.gs EXCEPT !.spec = s] \in Server
    BY <1>1 DEF Stored, Server
  <2> QED
    BY <1>1, <2>1, <2>2 DEF Stored, Kinds
<1>3. CASE (\E t \in TemplateSpecs : ApplyTemplate(t)) \/ DeleteTemplate
  <2>1. PICK t \in Maybe(TemplateSpecs) : api' = [api EXCEPT !.tpl = t]
    BY <1>3 DEF ApplyTemplate, DeleteTemplate, Maybe
  <2> QED
    BY <1>1, <2>1 DEF Stored, Kinds
<1>4. ASSUME NEW e \in ExposureTypes, DeleteService(e) PROVE Stored(api')
  BY <1>4, ServiceStoredType DEF DeleteService, Maybe
<1>5. CASE ToggleIngress
  <2> DEFINE old == api.svc["LoadBalancer"]
             new == [old EXCEPT !.ingress = ~@]
  <2>1. old \in Service
    BY <1>1, <1>5 DEF ToggleIngress, Stored, Maybe, ExposureTypes
  <2>2. new \in Service /\ api' = [api EXCEPT !.svc["LoadBalancer"] = new]
    BY <1>5, <2>1 DEF ToggleIngress, Service
  <2> HIDE DEF new
  <2> QED
    BY <2>2, ServiceStoredType DEF Maybe, ExposureTypes
<1> QED
  BY <1>2, <1>3, <1>4, <1>5 DEF UserStep

LEMMA NextType == ASSUME TypeOK, [Next]_vars PROVE TypeOK'
<1>1. ASSUME Stored(api'), Stored(cache'), PassTyped', queued' \in BOOLEAN,
             edits' \in 0..MaxEdits
      PROVE  TypeOK'
  BY <1>1 DEF TypeOK, PassTyped, Passes
<1>2. Stored(api) /\ Stored(cache) /\ PassTyped /\ queued \in BOOLEAN /\ edits \in 0..MaxEdits
  BY DEF TypeOK, PassTyped, Passes
<1>3. CASE PassStep
  BY <1>1, <1>2, <1>3, PassStepType, PassStepBounded
<1>4. CASE SyncStep
  <2>1. PICK kind \in Kinds : cache' = [cache EXCEPT ![kind] = api[kind]]
    BY <1>4 DEF SyncStep, Sync
  <2>2. Stored(cache')
    BY <1>2, <2>1 DEF Stored, Kinds
  <2> QED
    BY <1>1, <1>2, <1>4, <2>2 DEF SyncStep, Sync, PassTyped
<1>5. ASSUME CountEdit PROVE edits' \in 0..MaxEdits
  BY <1>2, <1>5, BoundsAssumption DEF CountEdit
<1>6. CASE UserStep
  <2>1. CountEdit /\ UNCHANGED <<cache, pass, queued>>
    BY <1>6 DEF UserStep, ApplyServer, ApplyTemplate, DeleteTemplate, DeleteService,
       ToggleIngress, Edit
  <2> QED
    BY <1>1, <1>2, <1>5, <1>6, <2>1, UserStepType DEF PassTyped
<1>7. CASE CallFails
  BY <1>1, <1>2, <1>5, <1>7, IdleTyped DEF CallFails, PassTyped, Idle
<1>8. CASE UNCHANGED vars
  BY <1>1, <1>2, <1>8 DEF vars, PassTyped
<1> QED
  BY <1>3, <1>4, <1>6, <1>7, <1>8 DEF Next

\* All objects, the pass and the Services it has applied are what the CRDs and
\* the API server say, for any specs of the schema.
THEOREM TypeCorrect == Spec => []TypeOK
<1>1. TypeOK /\ [Next]_vars => TypeOK'
  BY NextType
<1> QED
  BY <1>1, InitType, PTL DEF Spec

-----------------------------------------------------------------------------
(* NodePorts *)

\* A stored Service's ports have different names, and NodePorts but in a
\* ClusterIP Service.
Allocated(e, ports) ==
  /\ NamesDiffer(ports)
  /\ \A p \in ToSet(ports) : p.nodePort = 0 <=> e = "ClusterIP"

\* What is deployed is allocated ...
DeployedInv ==
  \A e \in ExposureTypes : api.svc[e] # Absent => Allocated(e, api.svc[e].ports)

\* ... and a pass applies what its own specs group.
GroupsInv ==
  pass.pc = "ApplyServices" => pass.groups = BuildServices(pass.gs.spec, pass.tpl).groups

AllocationInv == DeployedInv /\ GroupsInv

\* The stored port q is the built port p, with a NodePort where there has to be one.
Fits(q, p, e) ==
  /\ q.name = p.name /\ q.port = p.port /\ q.protocol = p.protocol
  /\ e # "ClusterIP" => q.nodePort # 0
  /\ p.nodePort # 0 => q.nodePort = p.nodePort

PortsFit(ports, s, t, e) ==
  LET built == BuildServices(s, t).groups[e]
  IN  /\ DOMAIN ports = DOMAIN built
      /\ \A i \in DOMAIN built : Fits(ports[i], built[i], e)

\* What the step does to a Service's ports: they keep their NodePorts or get one
\* an override pins.
KeptIn(old, new) ==
  \A p \in ToSet(old), q \in ToSet(new) :
    (p.name = q.name /\ p.nodePort # q.nodePort)
      => \E o \in ToSet(pass.gs.spec.override) :
           o.portName = q.name /\ o.nodePort = q.nodePort

Kept ==
  \A e \in ExposureTypes : api.svc[e] # Absent /\ api'.svc[e] # Absent =>
    KeptIn(api.svc[e].ports, api'.svc[e].ports)

\* A list stored for exposure e is allocated if what was asked for has no
\* NodePorts in a ClusterIP Service.
LEMMA AssignedAllocated ==
  ASSUME NEW e \in ExposureTypes, NEW ports, NEW stored \in Assigned(e, ports),
         e = "ClusterIP" => \A i \in DOMAIN ports : ports[i].nodePort = 0
  PROVE  Allocated(e, stored)
<1>1. NamesDiffer(stored)
  BY AssignedKeeps DEF NamesDiffer
<1>2. ASSUME NEW i \in DOMAIN stored
      PROVE  stored[i].nodePort = 0 <=> e = "ClusterIP"
  <2>1. /\ i \in DOMAIN ports
        /\ (ports[i].nodePort = 0 /\ e = "ClusterIP") => stored[i].nodePort = 0
        /\ e # "ClusterIP" => stored[i].nodePort # 0
    BY AssignedKeeps
  <2> QED
    BY <2>1
<1> QED
  BY <1>1, <1>2 DEF Allocated, ToSet

LEMMA CreatedAllocated ==
  ASSUME TypeOK, AllocationInv, CreateService
  PROVE  \E ports \in Outcomes : /\ api' = [api EXCEPT !.svc[Turn] = [ports |-> ports, ingress |-> FALSE]]
                                 /\ Allocated(Turn, ports)
<1> DEFINE e == Turn
           s == pass.gs.spec
           t == pass.tpl
<1>1. PICK ports \in Outcomes : api' = [api EXCEPT !.svc[e] = [ports |-> ports, ingress |-> FALSE]]
  BY CreateStores
<1>2. e \in ExposureTypes /\ s \in ServerSpecs /\ t \in TemplateSpecs /\ pass.pc = "ApplyServices"
  BY TurnType DEF CreateService
<1>3. pass.groups = BuildServices(s, t).groups
  BY <1>2 DEF AllocationInv, GroupsInv
<1>4. ports \in Assigned(e, pass.groups[e])
  BY <1>1 DEF CreateService, Outcomes, Desired
<1> HIDE DEF e, s, t
<1>5. e = "ClusterIP" => \A i \in DOMAIN pass.groups[e] : pass.groups[e][i].nodePort = 0
  BY <1>2, <1>3, PinsAreOverrides
<1>6. Allocated(e, ports)
  BY <1>2, <1>4, <1>5, AssignedAllocated
<1> QED
  BY <1>1, <1>6 DEF e

\* The Service is updated: every port that stays has its NodePort or the one an
\* override pins, and all ports are as they were built.
LEMMA UpdatedKeeps ==
  ASSUME TypeOK, AllocationInv, ApplyingService, api.svc[Turn] # Absent,
         NEW stored \in Assigned(Turn, MergeServicePorts(api.svc[Turn].ports, pass.groups[Turn]))
  PROVE  /\ Allocated(Turn, stored)
         /\ KeptIn(api.svc[Turn].ports, stored)
         /\ PortsFit(stored, pass.gs.spec, pass.tpl, Turn)
<1> DEFINE e == Turn
           s == pass.gs.spec
           t == pass.tpl
           existing == api.svc[e].ports
           built == BuildServices(s, t).groups[e]
           merged == MergeServicePorts(existing, built)
<1>1. e \in ExposureTypes /\ s \in ServerSpecs /\ t \in TemplateSpecs /\ pass.pc = "ApplyServices"
  BY TurnType
<1>2. pass.groups[e] = built /\ built \in Seq(BuiltPort)
  BY <1>1, BuiltType DEF AllocationInv, GroupsInv, Services
<1>3. /\ existing \in Seq(ServicePort)
      /\ NamesDiffer(existing)
      /\ \A j \in DOMAIN existing : existing[j].nodePort = 0 <=> e = "ClusterIP"
  BY <1>1 DEF AllocationInv, DeployedInv, Allocated, ToSet, TypeOK, Stored, Service, Maybe
<1>4. stored \in Assigned(e, merged)
  BY <1>2
<1>5. DOMAIN merged = DOMAIN built
  BY DEF MergeServicePorts
<1> HIDE DEF existing, e, s, t
<1>6. \A i \in DOMAIN built :
        /\ merged[i].name = built[i].name
        /\ merged[i].port = built[i].port
        /\ merged[i].protocol = built[i].protocol
        /\ built[i].nodePort # 0 => merged[i].nodePort = built[i].nodePort
        /\ \A j \in DOMAIN existing :
             (existing[j].name = built[i].name /\ built[i].nodePort = 0)
               => merged[i].nodePort = existing[j].nodePort
        /\ (\A j \in DOMAIN existing : existing[j].name # built[i].name)
             => merged[i].nodePort = built[i].nodePort
  BY <1>2, <1>3, MergeKeeps
<1>7. \A i \in DOMAIN built : built[i].nodePort # 0 =>
        /\ e = "NodePort"
        /\ \E o \in ToSet(s.override) : o.portName = built[i].name /\ o.nodePort = built[i].nodePort
  BY <1>1, PinsAreOverrides
<1> HIDE DEF merged, built
<1>8. e = "ClusterIP" => \A i \in DOMAIN merged : merged[i].nodePort = 0
  BY <1>3, <1>5, <1>6, <1>7
<1>9. Allocated(e, stored)
  BY <1>1, <1>4, <1>8, AssignedAllocated
<1>10. /\ DOMAIN stored = DOMAIN merged
       /\ \A i \in DOMAIN merged :
            /\ stored[i].name = merged[i].name
            /\ stored[i].port = merged[i].port
            /\ stored[i].protocol = merged[i].protocol
            /\ merged[i].nodePort # 0 => stored[i].nodePort = merged[i].nodePort
            /\ (merged[i].nodePort = 0 /\ e = "ClusterIP") => stored[i].nodePort = 0
            /\ e # "ClusterIP" => stored[i].nodePort # 0
  BY <1>1, <1>4, AssignedKeeps
<1>11. PortsFit(stored, s, t, e)
  BY <1>5, <1>6, <1>10 DEF PortsFit, Fits, built
<1>12. ASSUME NEW j \in DOMAIN existing, NEW i \in DOMAIN stored,
              existing[j].name = stored[i].name, existing[j].nodePort # stored[i].nodePort
       PROVE  \E o \in ToSet(s.override) : o.portName = stored[i].name /\ o.nodePort = stored[i].nodePort
  <2>1. i \in DOMAIN built /\ i \in DOMAIN merged
    BY <1>5, <1>10
  <2>2. built[i].nodePort # 0
    <3> SUFFICES ASSUME built[i].nodePort = 0 PROVE FALSE
      OBVIOUS
    <3>1. merged[i].nodePort = existing[j].nodePort
      BY <1>6, <1>10, <1>12, <2>1
    <3> QED
      BY <1>3, <1>10, <1>12, <2>1, <3>1
  <2> QED
    BY <1>6, <1>7, <1>10, <2>1, <2>2
<1>13. KeptIn(existing, stored)
  BY <1>12 DEF KeptIn, ToSet, s
<1> QED
  BY <1>9, <1>11, <1>13 DEF existing, e, s, t

LEMMA SamePortsKept ==
  ASSUME NEW e, NEW ports, Allocated(e, ports)
  PROVE  KeptIn(ports, ports)
BY DEF Allocated, NamesDiffer, KeptIn, ToSet

\* A step that leaves the Services alone, and one that stores one.
LEMMA ServicesUntouched ==
  ASSUME DeployedInv, api'.svc = api.svc
  PROVE  DeployedInv' /\ Kept
<1>1. DeployedInv'
  BY DEF DeployedInv, Allocated, NamesDiffer
<1>2. Kept
  BY SamePortsKept DEF Kept, DeployedInv
<1> QED
  BY <1>1, <1>2

LEMMA ServiceStored ==
  ASSUME TypeOK, DeployedInv, NEW e \in ExposureTypes, NEW svc \in Maybe(Service),
         api' = [api EXCEPT !.svc[e] = svc],
         svc # Absent => Allocated(e, svc.ports),
         (svc # Absent /\ api.svc[e] # Absent) => KeptIn(api.svc[e].ports, svc.ports)
  PROVE  DeployedInv' /\ Kept
<1>1. api'.svc[e] = svc /\ \A f \in ExposureTypes \ {e} : api'.svc[f] = api.svc[f]
  BY ServiceStoredType
<1>2. ASSUME NEW f \in ExposureTypes, api'.svc[f] # Absent
      PROVE  Allocated(f, api'.svc[f].ports)
  BY <1>1, <1>2 DEF DeployedInv
<1>3. DeployedInv'
  BY <1>2 DEF DeployedInv, Allocated, NamesDiffer
<1>4. ASSUME NEW f \in ExposureTypes, api.svc[f] # Absent, api'.svc[f] # Absent
      PROVE  KeptIn(api.svc[f].ports, api'.svc[f].ports)
  <2>1. CASE f = e
    BY <1>1, <1>4, <2>1
  <2>2. CASE f # e
    <3>1. Allocated(f, api.svc[f].ports) /\ api'.svc[f] = api.svc[f]
      BY <1>1, <1>4, <2>2 DEF DeployedInv
    <3> QED
      BY <3>1, SamePortsKept
  <2> QED
    BY <2>1, <2>2
<1> QED
  BY <1>3, <1>4 DEF Kept

LEMMA PassStepKeeps ==
  ASSUME TypeOK, AllocationInv, PassStep
  PROVE  DeployedInv' /\ Kept
<1>1. DeployedInv
  BY DEF AllocationInv
<1>2. CASE UpdateService
  <2>1. ApplyingService /\ api.svc[Turn] # Absent /\ cache.svc[Turn] = api.svc[Turn]
    BY <1>2 DEF UpdateService
  <2> DEFINE new(ports) == [api.svc[Turn] EXCEPT !.ports = ports]
  <2>2. PICK ports \in Outcomes :
          /\ new(ports) \in Service /\ new(ports).ports = ports
          /\ api' = [api EXCEPT !.svc[Turn] = new(ports)]
    BY <1>2, UpdateStores
  <2>3. ports \in Assigned(Turn, MergeServicePorts(api.svc[Turn].ports, pass.groups[Turn]))
    BY <2>1 DEF Outcomes, Desired
  <2>4. Allocated(Turn, ports) /\ KeptIn(api.svc[Turn].ports, ports)
    BY <2>1, <2>3, UpdatedKeeps
  <2> DEFINE svc == new(ports)
  <2>5. svc \in Maybe(Service) /\ svc.ports = ports /\ api' = [api EXCEPT !.svc[Turn] = svc]
    BY <2>2 DEF Maybe
  <2> HIDE DEF svc, new
  <2>6. Turn \in ExposureTypes
    BY <2>1, TurnType
  <2> QED
    BY <1>1, <2>4, <2>5, <2>6, ServiceStored
<1>3. CASE CreateService
  <2>1. PICK ports \in Outcomes : /\ api' = [api EXCEPT !.svc[Turn] = [ports |-> ports, ingress |-> FALSE]]
                                  /\ Allocated(Turn, ports)
    BY <1>3, CreatedAllocated
  <2>2. ApplyingService /\ api.svc[Turn] = Absent /\ Turn \in ExposureTypes
    BY <1>3, TurnType DEF CreateService
  <2> DEFINE svc == [ports |-> ports, ingress |-> FALSE]
  <2>3. svc \in Maybe(Service) /\ svc.ports = ports /\ api' = [api EXCEPT !.svc[Turn] = svc]
    BY <2>1, <2>2, OutcomesType DEF Maybe, Service
  <2> HIDE DEF svc
  <2> QED
    BY <1>1, <2>1, <2>2, <2>3, ServiceStored
<1>4. CASE ~(UpdateService \/ CreateService)
  <2>1. api'.svc = api.svc
    BY <1>4 DEF PassStep, Reconcile, NotAccepted, ConfigValid, WriteRefused,
       DeploymentNotCached, ApplyDeployment, RefreshStatus, TypeOK, Stored, Kinds
  <2> QED
    BY <1>1, <2>1, ServicesUntouched
<1> QED
  BY <1>2, <1>3, <1>4

\* Users and load balancers.
LEMMA UserStepKeeps ==
  ASSUME TypeOK, AllocationInv, UserStep
  PROVE  DeployedInv' /\ Kept
<1>1. DeployedInv
  BY DEF AllocationInv
<1>2. CASE (\E s \in ServerSpecs : ApplyServer(s)) \/ (\E t \in TemplateSpecs : ApplyTemplate(t))
           \/ DeleteTemplate
  <2>1. api'.svc = api.svc
    BY <1>2 DEF ApplyServer, ApplyTemplate, DeleteTemplate, TypeOK, Stored, Kinds
  <2> QED
    BY <1>1, <2>1, ServicesUntouched
<1>3. ASSUME NEW e \in ExposureTypes, DeleteService(e)
      PROVE  DeployedInv' /\ Kept
  <2>1. api' = [api EXCEPT !.svc[e] = Absent] /\ Absent \in Maybe(Service)
    BY <1>3 DEF DeleteService, Maybe
  <2> QED
    BY <1>1, <2>1, ServiceStored
<1>4. CASE ToggleIngress
  <2> DEFINE old == api.svc["LoadBalancer"]
             new == [old EXCEPT !.ingress = ~@]
  <2>1. old # Absent /\ api' = [api EXCEPT !.svc["LoadBalancer"] = new]
        /\ "LoadBalancer" \in ExposureTypes
    BY <1>4 DEF ToggleIngress, ExposureTypes
  <2>2. old \in Service /\ Allocated("LoadBalancer", old.ports)
    BY <1>1, <2>1 DEF DeployedInv, TypeOK, Stored, Maybe
  <2>3. new \in Service /\ new.ports = old.ports
    BY <2>2 DEF Service
  <2> HIDE DEF new
  <2>4. new \in Maybe(Service) /\ Allocated("LoadBalancer", new.ports)
    BY <2>2, <2>3 DEF Maybe
  <2>5. KeptIn(old.ports, new.ports)
    BY <2>2, <2>3, SamePortsKept
  <2> QED
    BY <1>1, <2>1, <2>4, <2>5, ServiceStored
<1> QED
  BY <1>2, <1>3, <1>4 DEF UserStep

LEMMA StepKeeps ==
  ASSUME TypeOK, AllocationInv, [Next]_vars
  PROVE  DeployedInv' /\ Kept
<1>1. CASE SyncStep \/ CallFails \/ UNCHANGED vars
  <2>1. api' = api
    BY <1>1 DEF SyncStep, Sync, CallFails, vars
  <2> QED
    BY <2>1, ServicesUntouched DEF AllocationInv
<1> QED
  BY <1>1, PassStepKeeps, UserStepKeeps DEF Next

\* No pass mixes what it read with what another read.
LEMMA StepGroups ==
  ASSUME TypeOK, AllocationInv, [Next]_vars
  PROVE  GroupsInv'
<1>1. GroupsInv /\ pass \in Passes
  BY DEF AllocationInv, TypeOK, Passes
<1>2. CASE pass' = Idle \/ pass' = pass
  BY <1>1, <1>2 DEF GroupsInv, Idle
<1>3. CASE Reconcile \/ ConfigValid
  BY <1>1, <1>3 DEF Reconcile, ConfigValid, GroupsInv, Idle, Passes
<1>4. CASE ApplyDeployment
  BY <1>1, <1>4 DEF ApplyDeployment, GroupsInv, Passes
<1>5. CASE UpdateService \/ CreateService
  <2>1. CASE pass' = Idle
    BY <1>2, <2>1
  <2>2. CASE pass' # Idle
    <3>1. pass' = [pass EXCEPT !.todo = Tail(@), !.applied[Turn] = api'.svc[Turn]]
      BY <1>5, <2>2 DEF UpdateService, CreateService, Return
    <3>2. pass'.pc = pass.pc /\ pass'.groups = pass.groups /\ pass'.gs = pass.gs
          /\ pass'.tpl = pass.tpl
      BY <1>1, <3>1 DEF Passes
    <3> QED
      BY <1>1, <3>2 DEF GroupsInv
  <2> QED
    BY <2>1, <2>2
<1>6. CASE NotAccepted \/ WriteRefused \/ DeploymentNotCached \/ RefreshStatus
           \/ CallFails
  BY <1>2, <1>6 DEF NotAccepted, WriteRefused, DeploymentNotCached, RefreshStatus, CallFails, Return
<1>7. CASE SyncStep \/ UserStep \/ UNCHANGED vars
  BY <1>2, <1>7 DEF SyncStep, Sync, UserStep, ApplyServer, ApplyTemplate, DeleteTemplate,
     DeleteService, ToggleIngress, Edit, vars
<1> QED
  BY <1>3, <1>4, <1>5, <1>6, <1>7 DEF Next, PassStep

\* The inductive invariant: what is deployed has its NodePorts allocated, and
\* the pass that is about to write applies what its own specs group.
THEOREM AllocationInvariant == Spec => []AllocationInv
<1>1. Init => AllocationInv
  BY DEF Init, NoServices, Idle, AllocationInv, DeployedInv, GroupsInv
<1>2. TypeOK /\ AllocationInv /\ [Next]_vars => AllocationInv'
  BY StepKeeps, StepGroups DEF AllocationInv
<1> QED
  BY <1>1, <1>2, TypeCorrect, PTL DEF Spec

\* Whatever specs are applied, Services deleted and calls failed, a port keeps
\* its NodePort as long as its Service lives, unless an override pins another.
THEOREM NodePortsAreKept == Spec => NodePortsKept
<1>1. TypeOK /\ AllocationInv /\ [Next]_vars => [Kept]_vars
  BY StepKeeps
<1>2. NodePortsKept <=> [][Kept]_vars
  BY PTL DEF NodePortsKept, Kept, KeptIn
<1> QED
  BY <1>1, <1>2, TypeCorrect, AllocationInvariant, PTL DEF Spec

-----------------------------------------------------------------------------
(* At rest *)

\* The exposures in use.
Exposed(s, t) == {ResolveExposure(s, p).exposeAs : p \in ToSet(t.ports)}

\* No update of the ports of e is on its way to the cache.
PortsCached(e) == api.svc[e] # Absent /\ api.svc[e].ports = cache.svc[e].ports

\* The Service of e, once its update has gone through, is as s and t ask for.
ServiceFits(e, s, t) ==
  /\ cache.svc[e] # Absent
  /\ PortsCached(e) => PortsFit(cache.svc[e].ports, s, t, e)

\* A pass that no event will repeat works on what is cached.
PassCurrent ==
  /\ pass.pc # "Idle" => pass.gs = cache.gs
  /\ pass.pc \in {"ApplyDeployment", "ApplyServices"} =>
       pass.tpl = cache.tpl /\ ValidateConfig(pass.gs.spec, pass.tpl)
  /\ pass.pc = "ApplyServices" =>
       \A e \in Exposed(pass.gs.spec, pass.tpl) \ ToSet(pass.todo) :
         /\ ServiceFits(e, pass.gs.spec, pass.tpl)
         /\ PortsCached(e) => pass.applied[e] = cache.svc[e]

\* Between passes the specs cached are the ones served, unless a write is still
\* on its way to the cache.
IdleServed ==
  LET s == cache.gs.spec
      t == cache.tpl
  IN  pass.pc = "Idle" =>
        /\ t # Absent
        /\ ValidateConfig(s, t)
        /\ api.dep = ResolveEnv(s, t)
        /\ \A e \in Exposed(s, t) : ServiceFits(e, s, t)
        /\ (/\ PortsCached(ResolveExposure(s, PrimaryPort(t)).exposeAs)
            /\ cache.gs.address = api.gs.address)
             => cache.gs.address = PrimaryAddress(s, t, cache.svc)

ServedInv ==
  /\ \A t \in {api.tpl, cache.tpl} : t # Absent => Admitted(t)
  /\ pass.pc = "ApplyServices" => api.dep = ResolveEnv(pass.gs.spec, pass.tpl)
  /\ ~queued => PassCurrent /\ IdleServed

LEMMA ExposedOrdered ==
  ASSUME NEW s \in ServerSpecs, NEW t \in TemplateSpecs
  PROVE  Exposed(s, t) \subseteq ExposureTypes \intersect ToSet(BuildServices(s, t).order)
<1> DEFINE services == BuildServices(s, t)
<1>1. t.ports \in Seq(TemplatePort) /\ DOMAIN t.ports = 1..Len(t.ports)
  BY SpecsAssumption
<1>2. Collects(s, t.ports, Len(t.ports), services)
  BY ServicesBuilt
<1> HIDE DEF services
<1>3. ASSUME NEW j \in 1..Len(t.ports)
      PROVE  ResolveExposure(s, t.ports[j]).exposeAs \in ExposureTypes \intersect ToSet(services.order)
  <2> DEFINE e == ResolveExposure(s, t.ports[j]).exposeAs
  <2>1. e \in ExposureTypes
    <3>1. t.ports[j] \in TemplatePort
      BY <1>1
    <3> QED
      BY <3>1, ExposureResolved DEF Exposures
  <2>2. \E i \in DOMAIN services.groups[e] : TRUE
    BY <1>2 DEF Collects
  <2> HIDE DEF e
  <2>3. services.groups[e] # <<>>
    BY <2>2
  <2> QED
    BY <1>2, <2>1, <2>3 DEF Collects, e
<1> QED
  BY <1>1, <1>3 DEF Exposed, ToSet, services

\* A step that only brings Services away from what is cached.
LEMMA ApiStable ==
  ASSUME PassCurrent, IdleServed, TypeOK,
         cache' = cache, pass' = pass, api'.dep = api.dep,
         api'.gs.address = api.gs.address,
         \A e \in ExposureTypes :
           api'.svc[e] # Absent => api.svc[e] # Absent /\ api'.svc[e].ports = api.svc[e].ports
  PROVE  PassCurrent' /\ IdleServed'
<1>1. \A e \in ExposureTypes : PortsCached(e)' => PortsCached(e)
  BY DEF PortsCached
<1>2. ASSUME NEW e \in ExposureTypes, NEW s, NEW t, ServiceFits(e, s, t)
      PROVE  ServiceFits(e, s, t)'
  BY <1>1, <1>2 DEF ServiceFits
<1>3. PassCurrent'
  <2>1. ASSUME pass.pc = "ApplyServices"
        PROVE  Exposed(pass.gs.spec, pass.tpl) \subseteq ExposureTypes
    BY <2>1, ExposedOrdered DEF TypeOK, Server
  <2>2. ASSUME pass.pc = "ApplyServices",
               NEW e \in Exposed(pass.gs.spec, pass.tpl) \ ToSet(pass.todo)
        PROVE  /\ ServiceFits(e, pass.gs.spec, pass.tpl)'
               /\ PortsCached(e)' => pass'.applied[e] = cache'.svc[e]
    <3>1. e \in ExposureTypes /\ ServiceFits(e, pass.gs.spec, pass.tpl)
          /\ (PortsCached(e) => pass.applied[e] = cache.svc[e])
      BY <2>1, <2>2 DEF PassCurrent
    <3>2. ServiceFits(e, pass.gs.spec, pass.tpl)'
      BY <1>1, <3>1 DEF ServiceFits
    <3> QED
      BY <1>1, <3>1, <3>2
  <2> QED
    BY <2>2 DEF PassCurrent
<1>4. IdleServed'
  <2> DEFINE s == cache.gs.spec
             t == cache.tpl
  <2> SUFFICES ASSUME pass.pc = "Idle" PROVE IdleServed'
    BY DEF IdleServed
  <2>1. s \in ServerSpecs /\ t \in TemplateSpecs
    BY DEF IdleServed, TypeOK, Stored, Server, Maybe
  <2>2. Exposed(s, t) \subseteq ExposureTypes /\ ResolveExposure(s, PrimaryPort(t)).exposeAs \in ExposureTypes
    BY <2>1, ExposedOrdered, PrimaryIsPort, ExposureResolved DEF Exposures
  <2>3. \A e \in Exposed(s, t) : ServiceFits(e, s, t)'
    <3> TAKE e \in Exposed(s, t)
    <3>1. ServiceFits(e, s, t) /\ e \in ExposureTypes
      BY <2>2 DEF IdleServed
    <3> QED
      BY <1>1, <3>1 DEF ServiceFits
  <2> QED
    BY <1>1, <2>2, <2>3 DEF IdleServed
<1> QED
  BY <1>3, <1>4

LEMMA UserStepServed ==
  ASSUME TypeOK, PassCurrent, IdleServed, UserStep
  PROVE  PassCurrent' /\ IdleServed'
<1>1. cache' = cache /\ pass' = pass
  BY DEF UserStep, ApplyServer, ApplyTemplate, DeleteTemplate, DeleteService, ToggleIngress, Edit
<1>2. Stored(api)
  BY DEF TypeOK
<1>3. ASSUME NEW s \in ServerSpecs, ApplyServer(s)
      PROVE  api'.dep = api.dep /\ api'.gs.address = api.gs.address /\ api'.svc = api.svc
  BY <1>2, <1>3 DEF ApplyServer, Stored, Kinds, Server
<1>4. CASE (\E t \in TemplateSpecs : ApplyTemplate(t)) \/ DeleteTemplate
  <2>1. api'.dep = api.dep /\ api'.gs = api.gs /\ api'.svc = api.svc
    BY <1>2, <1>4 DEF ApplyTemplate, DeleteTemplate, Stored, Kinds
  <2> QED
    BY <1>1, <2>1, ApiStable
<1>5. ASSUME NEW e \in ExposureTypes, DeleteService(e)
      PROVE  PassCurrent' /\ IdleServed'
  <2>1. /\ api'.svc[e] = Absent /\ api'.gs = api.gs /\ api'.dep = api.dep
        /\ \A f \in ExposureTypes \ {e} : api'.svc[f] = api.svc[f]
    BY <1>5, ServiceStoredType DEF DeleteService, Maybe
  <2> QED
    BY <1>1, <2>1, ApiStable
<1>6. CASE ToggleIngress
  <2> DEFINE old == api.svc["LoadBalancer"]
             new == [old EXCEPT !.ingress = ~@]
  <2>1. old \in Service /\ old # Absent /\ api' = [api EXCEPT !.svc["LoadBalancer"] = new]
        /\ "LoadBalancer" \in ExposureTypes
    BY <1>2, <1>6 DEF ToggleIngress, ExposureTypes, Stored, Maybe
  <2>2. new \in Service /\ new.ports = old.ports
    BY <2>1 DEF Service
  <2> HIDE DEF new
  <2>3. /\ api'.svc["LoadBalancer"] = new /\ api'.gs = api.gs /\ api'.dep = api.dep
        /\ \A f \in ExposureTypes \ {"LoadBalancer"} : api'.svc[f] = api.svc[f]
    BY <2>1, <2>2, ServiceStoredType DEF Maybe
  <2> QED
    BY <1>1, <2>1, <2>2, <2>3, ApiStable
<1> QED
  BY <1>1, <1>3, <1>4, <1>5, <1>6, ApiStable DEF UserStep

\* The Service of this turn becomes what the pass asks for; nothing else changes.
LEMMA UpdateServed ==
  ASSUME TypeOK, AllocationInv, PassCurrent, UpdateService
  PROVE  PassCurrent'
<1> DEFINE s == pass.gs.spec
           t == pass.tpl
<1>1. /\ ApplyingService /\ api.svc[Turn] # Absent /\ cache.svc[Turn] = api.svc[Turn]
      /\ cache' = cache
      /\ pass' = [pass EXCEPT !.todo = Tail(@), !.applied[Turn] = api'.svc[Turn]]
  BY DEF UpdateService
<1>2. /\ Turn \in ExposureTypes /\ pass.pc = "ApplyServices"
      /\ ToSet(pass.todo) \subseteq {Turn} \union ToSet(Tail(pass.todo))
  BY <1>1, TurnType
<1> DEFINE new(ports) == [api.svc[Turn] EXCEPT !.ports = ports]
<1>3. PICK ports \in Outcomes :
        /\ new(ports) \in Service /\ new(ports).ports = ports
        /\ new(ports).ingress = api.svc[Turn].ingress
        /\ api' = [api EXCEPT !.svc[Turn] = new(ports)]
  BY UpdateStores
<1>4. PortsFit(ports, s, t, Turn)
  <2>1. ports \in Assigned(Turn, MergeServicePorts(api.svc[Turn].ports, pass.groups[Turn]))
    BY <1>1, <1>3 DEF Outcomes, Desired
  <2> QED
    BY <1>1, <2>1, UpdatedKeeps
<1>5. ports = api.svc[Turn].ports => new(ports) = api.svc[Turn]
  <2>1. api.svc[Turn] \in Service
    BY <1>1, <1>2 DEF TypeOK, Stored, Maybe
  <2> QED
    BY <2>1 DEF Service
<1> DEFINE svc == new(ports)
<1>6. /\ svc \in Maybe(Service) /\ svc # Absent /\ svc.ports = ports
      /\ api' = [api EXCEPT !.svc[Turn] = svc]
      /\ ports = api.svc[Turn].ports => svc = api.svc[Turn]
  BY <1>3, <1>5, AbsentAssumption DEF Maybe
<1> HIDE DEF svc, new
<1>7. /\ api'.svc[Turn] = svc
      /\ \A f \in ExposureTypes \ {Turn} : api'.svc[f] = api.svc[f]
  BY <1>2, <1>6, ServiceStoredType
<1>8. /\ pass'.pc = pass.pc /\ pass'.gs = pass.gs /\ pass'.tpl = pass.tpl
      /\ pass'.todo = Tail(pass.todo)
      /\ pass'.applied[Turn] = svc
      /\ \A f \in ExposureTypes \ {Turn} : pass'.applied[f] = pass.applied[f]
  <2>1. pass \in Passes
    BY DEF TypeOK, Passes
  <2> QED
    BY <1>1, <1>2, <1>7, <2>1 DEF Passes
<1>9. ASSUME NEW e \in Exposed(s, t) \ ToSet(pass'.todo)
      PROVE  /\ ServiceFits(e, s, t)'
             /\ PortsCached(e)' => pass'.applied[e] = cache'.svc[e]
  <2>1. e \in ExposureTypes
    BY <1>2, ExposedOrdered DEF TypeOK, Server
  <2>2. CASE e = Turn
    <3>1. PortsCached(e)' => ports = api.svc[Turn].ports
      BY <1>1, <1>6, <1>7, <2>2 DEF PortsCached
    <3>2. PortsCached(e)' => pass'.applied[e] = cache'.svc[e] /\ cache'.svc[e].ports = ports
      BY <1>1, <1>6, <1>8, <2>2, <3>1
    <3>3. ServiceFits(e, s, t)'
      BY <1>1, <1>4, <1>8, <2>2, <3>2 DEF ServiceFits
    <3> QED
      BY <3>2, <3>3
  <2>3. CASE e # Turn
    <3>1. e \in Exposed(s, t) \ ToSet(pass.todo)
      BY <1>2, <1>8, <2>3
    <3>2. ServiceFits(e, s, t) /\ (PortsCached(e) => pass.applied[e] = cache.svc[e])
      BY <1>2, <3>1 DEF PassCurrent
    <3>3. PortsCached(e)' <=> PortsCached(e)
      BY <1>1, <1>7, <2>1, <2>3 DEF PortsCached
    <3>4. pass'.applied[e] = pass.applied[e]
      BY <1>8, <2>1, <2>3
    <3> QED
      BY <1>1, <1>8, <3>2, <3>3, <3>4 DEF ServiceFits
  <2> QED
    BY <2>2, <2>3
<1>10. pass'.gs = cache'.gs /\ pass'.tpl = cache'.tpl /\ ValidateConfig(pass'.gs.spec, pass'.tpl)
  BY <1>1, <1>2, <1>8 DEF PassCurrent
<1> QED
  BY <1>8, <1>9, <1>10 DEF PassCurrent

\* The address depends on the Service of the primary port alone.
LEMMA AddressOf ==
  ASSUME NEW s, NEW t, NEW one, NEW other,
         one[ResolveExposure(s, PrimaryPort(t)).exposeAs] = other[ResolveExposure(s, PrimaryPort(t)).exposeAs]
  PROVE  PrimaryAddress(s, t, one) = PrimaryAddress(s, t, other)
<1>1. \A x, name : SelectInSeq(x, LAMBDA sp : sp.name = name) = FirstNamed(x, name)
  BY DEF FirstNamed
<1> QED
  BY DEF PrimaryAddress

\* A pass that ends without a requeue has served what is cached.
LEMMA RefreshServed ==
  ASSUME TypeOK, PassCurrent, pass.pc = "ApplyServices" => api.dep = ResolveEnv(pass.gs.spec, pass.tpl),
         RefreshStatus, api.gs = pass.gs
  PROVE  IdleServed'
<1> DEFINE s == cache.gs.spec
           t == cache.tpl
           e == ResolveExposure(s, PrimaryPort(t)).exposeAs
           address == PrimaryAddress(s, t, pass.applied)
<1>1. /\ pass.pc = "ApplyServices" /\ pass.todo = <<>> /\ pass.gs = cache.gs /\ pass.tpl = cache.tpl
      /\ cache' = cache /\ ValidateConfig(s, t)
      /\ api' = [api EXCEPT !.gs.address = address]
  BY DEF RefreshStatus, Return, PassCurrent
<1>2. s \in ServerSpecs /\ t \in TemplateSpecs /\ t # Absent
  BY <1>1, AbsentAssumption DEF TypeOK, Server
<1>3. api'.gs.address = address /\ api'.dep = api.dep /\ api'.svc = api.svc
  <2> HIDE DEF address
  <2> QED
    BY <1>1 DEF TypeOK, Stored, Kinds, Server
<1>4. \A f : PortsCached(f)' <=> PortsCached(f)
  BY <1>1, <1>3 DEF PortsCached
<1>5. \A f \in Exposed(s, t) : ServiceFits(f, s, t) /\ (PortsCached(f) => pass.applied[f] = cache.svc[f])
  <2>1. ToSet(pass.todo) = {}
    BY <1>1 DEF ToSet
  <2> QED
    BY <1>1, <2>1 DEF PassCurrent
<1>6. \A f \in Exposed(s, t) : ServiceFits(f, s, t)'
  BY <1>1, <1>4, <1>5 DEF ServiceFits
<1>7. e \in Exposed(s, t)
  BY <1>2, PrimaryIsPort DEF Exposed
<1>8. PortsCached(e) => address = PrimaryAddress(s, t, cache.svc)
  <2> SUFFICES ASSUME PortsCached(e) PROVE address = PrimaryAddress(s, t, cache.svc)
    OBVIOUS
  <2>1. pass.applied[e] = cache.svc[e]
    BY <1>5, <1>7
  <2> QED
    BY <2>1, AddressOf
<1>9. api'.dep = ResolveEnv(s, t)
  BY <1>1, <1>3
<1> HIDE DEF address
<1> QED
  BY <1>1, <1>2, <1>3, <1>4, <1>6, <1>8, <1>9 DEF IdleServed

\* A step after which no pass is due.
LEMMA StepServed ==
  ASSUME TypeOK, AllocationInv, ServedInv, [Next]_vars, ~queued'
  PROVE  PassCurrent' /\ IdleServed'
<1>1. CASE Reconcile
  BY <1>1 DEF Reconcile, Idle, PassCurrent, IdleServed
<1>2. CASE ~queued /\ (ConfigValid \/ ApplyDeployment \/ UpdateService \/ RefreshStatus)
  <2>1. PassCurrent
    BY <1>2 DEF ServedInv
  <2>2. CASE ConfigValid
    <3>1. /\ pass'.pc = "ApplyDeployment" /\ pass'.gs = pass.gs /\ pass'.tpl = cache.tpl
          /\ pass.pc = "FetchTemplate" /\ cache' = cache /\ ValidateConfig(pass.gs.spec, cache.tpl)
      BY <2>2 DEF ConfigValid, TemplateAccepts, TypeOK
    <3> QED
      BY <2>1, <3>1 DEF PassCurrent, IdleServed
  <2>3. CASE ApplyDeployment
    <3>1. /\ pass'.pc = "ApplyServices" /\ pass'.gs = pass.gs /\ pass'.tpl = pass.tpl
          /\ pass'.todo = BuildServices(pass.gs.spec, pass.tpl).order
          /\ pass.pc = "ApplyDeployment" /\ cache' = cache
      BY <2>3 DEF ApplyDeployment, TypeOK
    <3>2. pass.gs.spec \in ServerSpecs /\ pass.tpl \in TemplateSpecs
      BY <3>1 DEF TypeOK, Server
    <3>3. Exposed(pass'.gs.spec, pass'.tpl) \ ToSet(pass'.todo) = {}
      BY <3>1, <3>2, ExposedOrdered
    <3> QED
      BY <2>1, <3>1, <3>3 DEF PassCurrent, IdleServed
  <2>4. CASE UpdateService
    <3>1. PassCurrent'
      BY <2>1, <2>4, UpdateServed
    <3>2. pass'.pc = "ApplyServices"
      BY <2>4 DEF UpdateService, ApplyingService, TypeOK
    <3> QED
      BY <3>1, <3>2 DEF IdleServed
  <2>5. CASE RefreshStatus
    <3>1. api.gs = pass.gs /\ pass'.pc = "Idle"
      BY <2>5 DEF RefreshStatus, Return, Idle
    <3>2. IdleServed'
      BY <2>1, <2>5, <3>1, RefreshServed DEF ServedInv
    <3> QED
      BY <3>1, <3>2 DEF PassCurrent
  <2> QED
    BY <1>2, <2>2, <2>3, <2>4, <2>5
<1>3. CASE ~queued /\ UserStep
  BY <1>3, UserStepServed DEF ServedInv
<1>4. CASE UNCHANGED vars
  <2>1. PassCurrent /\ IdleServed
    BY <1>4 DEF ServedInv, vars
  <2> QED
    BY <1>4, <2>1, ApiStable DEF vars
<1>5. ~queued \/ Reconcile
  BY DEF Next, PassStep, NotAccepted, ConfigValid, ApplyDeployment, UpdateService, CreateService,
     WriteRefused, DeploymentNotCached, RefreshStatus, Return, SyncStep, Sync, UserStep,
     ApplyServer, ApplyTemplate, DeleteTemplate, DeleteService, ToggleIngress, Edit, CallFails, vars, TypeOK
<1>6. ~(NotAccepted \/ CreateService \/ WriteRefused \/ DeploymentNotCached \/ SyncStep \/ CallFails)
  BY DEF NotAccepted, CreateService, WriteRefused, DeploymentNotCached, Return, SyncStep,
     Sync, CallFails, TypeOK
<1> QED
  BY <1>1, <1>2, <1>3, <1>4, <1>5, <1>6 DEF Next, PassStep

\* Templates come past admission, and from the store to the cache.
LEMMA StepAdmitted ==
  ASSUME TypeOK, [Next]_vars, \A t \in {api.tpl, cache.tpl} : t # Absent => Admitted(t)
  PROVE  \A t \in {api'.tpl, cache'.tpl} : t # Absent => Admitted(t)
<1>1. Stored(api) /\ Stored(cache)
  BY DEF TypeOK
<1>2. api'.tpl = api.tpl \/ api'.tpl = Absent \/ Admitted(api'.tpl)
  <2>1. CASE PassStep
    <3>1. CASE UpdateService
      BY <1>1, <3>1, TurnType DEF UpdateService, Stored, Kinds
    <3>2. CASE CreateService
      BY <1>1, <3>2, TurnType DEF CreateService, Stored, Kinds
    <3>3. CASE ApplyDeployment \/ RefreshStatus
      BY <1>1, <3>3 DEF ApplyDeployment, RefreshStatus, Stored, Kinds
    <3>4. CASE Reconcile \/ NotAccepted \/ ConfigValid \/ WriteRefused
               \/ DeploymentNotCached
      BY <3>4 DEF Reconcile, NotAccepted, ConfigValid, WriteRefused, DeploymentNotCached
    <3> QED
      BY <2>1, <3>1, <3>2, <3>3, <3>4 DEF PassStep
  <2>2. CASE UserStep
    BY <1>1, <2>2 DEF UserStep, ApplyServer, ApplyTemplate, DeleteTemplate, DeleteService,
       ToggleIngress, Stored, Kinds
  <2>3. CASE SyncStep \/ CallFails \/ UNCHANGED vars
    BY <2>3 DEF SyncStep, Sync, CallFails, vars
  <2> QED
    BY <2>1, <2>2, <2>3 DEF Next
<1>3. cache'.tpl = cache.tpl \/ cache'.tpl = api.tpl
  <2>1. CASE CreateService
    BY <1>1, <2>1 DEF CreateService, Return, Stored, Kinds
  <2>2. CASE SyncStep
    BY <1>1, <2>2 DEF SyncStep, Sync, Stored, Kinds
  <2>3. CASE ~CreateService /\ ~SyncStep
    BY <2>3 DEF Next, PassStep, Reconcile, NotAccepted, ConfigValid, ApplyDeployment, UpdateService,
       WriteRefused, DeploymentNotCached, RefreshStatus, Return, UserStep, ApplyServer,
       ApplyTemplate, DeleteTemplate,
       DeleteService, ToggleIngress, Edit, CallFails, vars
  <2> QED
    BY <2>1, <2>2, <2>3
<1>4. \A t : Admitted(t)' <=> Admitted(t)
  BY DEF Admitted
<1> QED
  BY <1>2, <1>3

LEMMA IdlePc == Idle.pc = "Idle"
BY DEF Idle

\* The environment a pass has written is replaced by no other step.
LEMMA StepDeployed ==
  ASSUME TypeOK, [Next]_vars, pass'.pc = "ApplyServices",
         pass.pc = "ApplyServices" => api.dep = ResolveEnv(pass.gs.spec, pass.tpl)
  PROVE  api'.dep = ResolveEnv(pass'.gs.spec, pass'.tpl)
<1>1. Stored(api) /\ pass \in Passes
  BY DEF TypeOK, Passes
<1>2. CASE ApplyDeployment
  BY <1>1, <1>2 DEF ApplyDeployment, Stored, Kinds, Passes
<1>3. CASE UpdateService \/ CreateService
  <2>1. pass.pc = "ApplyServices"
    BY <1>3 DEF UpdateService, CreateService, ApplyingService
  <2>2. api'.dep = api.dep
    BY <1>1, <1>3 DEF UpdateService, CreateService, Stored, Kinds
  <2>3. pass'.gs = pass.gs /\ pass'.tpl = pass.tpl
    <3>1. \/ pass' = [pass EXCEPT !.todo = Tail(@), !.applied[Turn] = api'.svc[Turn]]
          \/ pass' = Idle
      BY <1>3 DEF UpdateService, CreateService, Return
    <3> QED
      BY <1>1, <3>1, IdlePc DEF Passes
  <2> QED
    BY <2>1, <2>2, <2>3
<1>4. CASE UserStep
  BY <1>1, <1>4 DEF UserStep, ApplyServer, ApplyTemplate, DeleteTemplate, DeleteService,
     ToggleIngress, Edit, Stored, Kinds
<1>5. CASE SyncStep \/ UNCHANGED vars
  BY <1>5 DEF SyncStep, Sync, vars
<1>6. ~(Reconcile \/ NotAccepted \/ ConfigValid \/ WriteRefused \/ DeploymentNotCached
          \/ RefreshStatus \/ CallFails)
  <2>1. ~(NotAccepted \/ WriteRefused \/ DeploymentNotCached \/ RefreshStatus \/ CallFails)
    BY IdlePc DEF NotAccepted, WriteRefused, DeploymentNotCached, RefreshStatus, CallFails, Return
  <2>2. ~Reconcile
    BY DEF Reconcile, Idle
  <2>3. ~ConfigValid
    BY <1>1 DEF ConfigValid, Passes
  <2> QED
    BY <2>1, <2>2, <2>3
<1> QED
  BY <1>2, <1>3, <1>4, <1>5, <1>6 DEF Next, PassStep

\* The inductive invariant: without a pass due, the one in flight works on what
\* is cached, and what the last one left serves that.
THEOREM ServedInvariant == Spec => []ServedInv
<1>1. Init => ServedInv
  <2> SUFFICES ASSUME Init PROVE ServedInv
    OBVIOUS
  <2> QED
    BY DEF Init, ServedInv, Idle
<1>2. TypeOK /\ AllocationInv /\ ServedInv /\ [Next]_vars => ServedInv'
  <2> SUFFICES ASSUME TypeOK, AllocationInv, ServedInv, [Next]_vars PROVE ServedInv'
    OBVIOUS
  <2>1. \A t \in {api'.tpl, cache'.tpl} : t # Absent => Admitted(t)
    BY StepAdmitted DEF ServedInv
  <2>2. (pass.pc = "ApplyServices" => api.dep = ResolveEnv(pass.gs.spec, pass.tpl))'
    BY StepDeployed DEF ServedInv
  <2>3. (~queued => PassCurrent /\ IdleServed)'
    BY StepServed
  <2> QED
    BY <2>1, <2>2, <2>3 DEF ServedInv, Admitted
<1> QED
  BY <1>1, <1>2, TypeCorrect, AllocationInvariant, PTL DEF Spec

LEMMA FitsMatches ==
  ASSUME NEW p \in TemplatePort, NEW q, NEW e, api.gs.spec \in ServerSpecs,
         ExposureOf(p).exposeAs = e, Fits(q, BuildPort(api.gs.spec, p), e)
  PROVE  Matches(q, p, e)
<1>1. BuildPort(api.gs.spec, p).name = p.name
      /\ BuildPort(api.gs.spec, p).port = p.containerPort
      /\ BuildPort(api.gs.spec, p).protocol = p.protocol
      /\ (e = "NodePort" => BuildPort(api.gs.spec, p).nodePort = ExposureOf(p).nodePort)
  BY PortBuilt DEF ExposureOf
<1> QED
  BY <1>1 DEF Fits, Matches

\* A Service that fits has a place for each port of its exposure, and no other.
LEMMA FitsServe ==
  ASSUME NEW e \in ExposureTypes, NEW ports, api.gs.spec \in ServerSpecs, api.tpl \in TemplateSpecs,
         PortsFit(ports, api.gs.spec, api.tpl, e)
  PROVE  /\ \A p \in ToSet(api.tpl.ports) : ExposureOf(p).exposeAs = e =>
              \E i \in DOMAIN ports : Matches(ports[i], p, e)
         /\ \A q \in ToSet(ports) : \E r \in ToSet(api.tpl.ports) : Matches(q, r, e)
<1> DEFINE s == api.gs.spec
           t == api.tpl
           built == BuildServices(s, t).groups[e]
<1>1. Collects(s, t.ports, Len(t.ports), BuildServices(s, t))
  BY ServicesBuilt
<1>2. DOMAIN t.ports = 1..Len(t.ports) /\ \A j \in 1..Len(t.ports) : t.ports[j] \in TemplatePort
  BY SpecsAssumption
<1>3. DOMAIN ports = DOMAIN built /\ \A i \in DOMAIN built : Fits(ports[i], built[i], e)
  BY DEF PortsFit
<1>4. ASSUME NEW p \in ToSet(t.ports), ExposureOf(p).exposeAs = e
      PROVE  \E i \in DOMAIN ports : Matches(ports[i], p, e)
  <2>1. PICK j \in 1..Len(t.ports) : p = t.ports[j]
    BY <1>2 DEF ToSet
  <2>2. PICK i \in DOMAIN built : built[i] = BuildPort(s, p)
    BY <1>1, <1>4, <2>1 DEF Collects, ExposureOf
  <2>3. p \in TemplatePort /\ Fits(ports[i], BuildPort(s, p), e)
    BY <1>2, <1>3, <2>1, <2>2
  <2>4. Matches(ports[i], p, e)
    BY <1>4, <2>3, FitsMatches
  <2> QED
    BY <1>3, <2>4
<1>5. ASSUME NEW q \in ToSet(ports)
      PROVE  \E r \in ToSet(t.ports) : Matches(q, r, e)
  <2>1. PICK i \in DOMAIN built : q = ports[i]
    BY <1>3 DEF ToSet
  <2>2. PICK j \in 1..Len(t.ports) : /\ built[i] = BuildPort(s, t.ports[j])
                                     /\ ResolveExposure(s, t.ports[j]).exposeAs = e
    BY <1>1 DEF Collects
  <2>3. t.ports[j] \in TemplatePort /\ Fits(q, BuildPort(s, t.ports[j]), e)
    BY <1>2, <1>3, <2>1, <2>2
  <2>4. Matches(q, t.ports[j], e)
    BY <2>2, <2>3, FitsMatches DEF ExposureOf
  <2> QED
    BY <1>2, <2>4 DEF ToSet
<1> QED
  BY <1>4, <1>5

\* The address read from Services that fit is that of the primary port's place.
LEMMA FitsAddress ==
  ASSUME TypeOK, DeployedInv, api.tpl \in TemplateSpecs,
         LET e == ExposureOf(PrimaryPort(api.tpl)).exposeAs
         IN  api.svc[e] # Absent /\ PortsFit(api.svc[e].ports, api.gs.spec, api.tpl, e),
         api.gs.address = PrimaryAddress(api.gs.spec, api.tpl, api.svc)
  PROVE  Addressed
<1> DEFINE p == PrimaryPort(api.tpl)
           e == ExposureOf(p).exposeAs
           svc == api.svc[e]
           pin == ExposureOf(p).nodePort
           n == FirstNamed(svc.ports, p.name)
           nodePort == IF pin # 0 THEN pin ELSE IF n # 0 THEN svc.ports[n].nodePort ELSE 0
<1>1. api.gs.spec \in ServerSpecs /\ p \in TemplatePort /\ p \in ToSet(api.tpl.ports)
  BY PrimaryIsPort DEF TypeOK, Stored, Server
<1>2. e \in ExposureTypes /\ svc # Absent /\ svc \in Service
  <2>1. ExposureOf(p) \in Exposures
    BY <1>1, ExposureResolved DEF ExposureOf
  <2> QED
    BY <2>1 DEF TypeOK, Stored, Maybe, Exposures
<1>3. PICK i \in DOMAIN svc.ports : Matches(svc.ports[i], p, e)
  BY <1>1, <1>2, FitsServe
<1> DEFINE q == svc.ports[i]
<1>4. n = i
  <2>1. svc.ports \in Seq(ServicePort) /\ NamesDiffer(svc.ports)
    BY <1>2 DEF Service, DeployedInv, Allocated
  <2>2. svc.ports[i].name = p.name
    BY <1>3 DEF Matches
  <2> HIDE DEF p, svc
  <2>3. n \in DOMAIN svc.ports /\ svc.ports[n].name = p.name
    BY <2>1, <2>2, NamedFound
  <2> QED
    BY <2>1, <2>2, <2>3 DEF NamesDiffer
<1>5. q \in ToSet(svc.ports)
  BY DEF ToSet
<1>6. q.port = p.containerPort /\ (e = "NodePort" => q.nodePort = nodePort /\ nodePort # 0)
  <2>1. /\ q.port = p.containerPort /\ (e = "NodePort" => q.nodePort # 0)
        /\ (e = "NodePort" /\ pin # 0) => q.nodePort = pin
    BY <1>3 DEF Matches
  <2>2. i # 0
    BY <1>2 DEF Service
  <2> HIDE DEF p, e, svc, pin
  <2> QED
    BY <1>4, <2>1, <2>2
<1>7. api.gs.address =
        CASE e = "ClusterIP" -> [via |-> "ClusterIP", port |-> p.containerPort]
          [] e = "NodePort" -> IF nodePort = 0 THEN NoAddress ELSE [via |-> "NodePort", port |-> nodePort]
          [] e = "LoadBalancer" -> IF svc.ingress THEN [via |-> "LoadBalancer", port |-> p.containerPort]
                                   ELSE NoAddress
  <2>1. \A x, name : SelectInSeq(x, LAMBDA sp : sp.name = name) = FirstNamed(x, name)
    BY DEF FirstNamed
  <2> QED
    BY <1>2, <2>1 DEF PrimaryAddress, ExposureOf
<1>8. api.gs.address = CASE e = "ClusterIP" -> [via |-> e, port |-> q.port]
                         [] e = "NodePort" -> [via |-> e, port |-> q.nodePort]
                         [] OTHER -> IF svc.ingress THEN [via |-> e, port |-> q.port] ELSE NoAddress
  <2> HIDE DEF e, p, svc, q, nodePort
  <2> QED
    BY <1>2, <1>6, <1>7 DEF ExposureTypes
<1> QED
  BY <1>2, <1>3, <1>5, <1>8 DEF Addressed

\* Whenever nothing is due, nothing in flight and nothing stale, the server's
\* children have what its spec and its template ask for, whatever was edited,
\* refused, deleted and lost on the way.
THEOREM ServedAtRest == Spec => []RestIsServed
<1>1. TypeOK /\ AllocationInv /\ ServedInv => RestIsServed
  <2> SUFFICES ASSUME TypeOK, AllocationInv, ServedInv, pass.pc = "Idle", ~queued, cache = api
               PROVE  /\ Accepted
                      /\ api.dep # Absent
                      /\ Webhooks =>
                           \A k \in ToSet(api.tpl.keys) :
                             Delivers(api.dep, api.gs.spec, api.tpl, k)
                      /\ \A p \in ToSet(api.tpl.ports) : Served(p)
                      /\ Addressed
    BY DEF RestIsServed
  <2> DEFINE s == api.gs.spec
             t == api.tpl
  <2>1. /\ t # Absent /\ ValidateConfig(s, t) /\ api.dep = ResolveEnv(s, t)
        /\ \A e \in Exposed(s, t) : ServiceFits(e, s, t)
        /\ PortsCached(ResolveExposure(s, PrimaryPort(t)).exposeAs) =>
             api.gs.address = PrimaryAddress(s, t, api.svc)
    BY DEF ServedInv, IdleServed
  <2>2. s \in ServerSpecs /\ t \in TemplateSpecs
    BY <2>1 DEF TypeOK, Stored, Server, Maybe
  <2>3. Exposed(s, t) \subseteq ExposureTypes
    BY <2>2, ExposedOrdered
  <2>4. \A e \in Exposed(s, t) : api.svc[e] # Absent /\ PortsFit(api.svc[e].ports, s, t, e)
    BY <2>1 DEF ServiceFits, PortsCached
  <2>5. ASSUME NEW p \in ToSet(t.ports) PROVE Served(p)
    <3> DEFINE e == ExposureOf(p).exposeAs
    <3>1. e \in Exposed(s, t)
      BY DEF Exposed, ExposureOf
    <3>2. e \in ExposureTypes /\ api.svc[e] # Absent /\ PortsFit(api.svc[e].ports, s, t, e)
      BY <2>3, <2>4, <3>1
    <3>3. \E i \in DOMAIN api.svc[e].ports : Matches(api.svc[e].ports[i], p, e)
      BY <2>2, <3>2, FitsServe
    <3>4. \A q \in ToSet(api.svc[e].ports) : \E r \in ToSet(t.ports) : Matches(q, r, e)
      BY <2>2, <3>2, FitsServe
    <3> QED
      BY <3>2, <3>3, <3>4 DEF Served, ToSet
  <2>6. Addressed
    <3> DEFINE e == ExposureOf(PrimaryPort(t)).exposeAs
    <3>1. e \in Exposed(s, t)
      BY <2>2, PrimaryIsPort DEF Exposed, ExposureOf
    <3>2. api.svc[e] # Absent /\ PortsFit(api.svc[e].ports, s, t, e)
      BY <2>4, <3>1
    <3>3. api.gs.address = PrimaryAddress(s, t, api.svc)
      BY <2>1, <3>2 DEF PortsCached, ExposureOf
    <3> QED
      BY <2>2, <3>2, <3>3, FitsAddress DEF AllocationInv
  <2>7. ASSUME Webhooks, NEW k \in ToSet(t.keys) PROVE Delivers(api.dep, s, t, k)
    <3>1. ValidateTemplate(t)
      BY <2>1, <2>7 DEF ServedInv, Admitted
    <3> QED
      BY <2>1, <2>2, <2>7, <3>1, EnvDelivers
  <2>8. api.dep # Absent
    BY <2>1, <2>2, AbsentAssumption
  <2> QED
    BY <2>1, <2>5, <2>6, <2>7, <2>8 DEF Accepted
<1> QED
  BY <1>1, TypeCorrect, AllocationInvariant, ServedInvariant, PTL

=============================================================================
