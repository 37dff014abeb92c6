-------------------------- MODULE GameTemplateProofs --------------------------
(* Theorems about the GameTemplate reconciler, for every set of templates and  *)
(* servers and every bound on edits and faults.                                *)
EXTENDS GameTemplateController, FiniteSetTheorems, TLAPS

(* Type correctness *)

LEMMA RegisteredType ==
  ASSUME NEW servers, NEW t
  PROVE  Registered(servers, t) \in Nat
<1>1. IsFiniteSet({s \in Servers : servers[s] = t})
  BY BoundsAssumption, FS_Subset
<1> QED
  BY <1>1, FS_CardinalityType DEF Registered

LEMMA PassType ==
  ASSUME TypeOK, pass # Idle
  PROVE  pass.name \in Templates /\ pass.tpl \in Template
BY DEF TypeOK, Passes, Idle

LEMMA PassStepType == TypeOK /\ PassStep => TypeOK'
<1> SUFFICES ASSUME TypeOK, PassStep PROVE TypeOK'
  OBVIOUS
<1> USE DEF TypeOK
<1>1. ASSUME NEW t \in Templates, Reconcile(t) PROVE TypeOK'
  <2>1. cache.tpl[t] \in Template \union {Absent}
    BY DEF Objects
  <2>2. pass' \in Passes
    BY <1>1, <2>1 DEF Reconcile, Passes, Idle
  <2> QED
    BY <1>1, <2>2 DEF Reconcile
<1>2. CASE Count
  <2>1. pass.name \in Templates /\ pass.tpl \in Template
    BY <1>2, PassType DEF Count
  <2>2. Registered(cache.servers, pass.name) \in Nat
    BY RegisteredType
  <2>3. [pass.tpl EXCEPT !.count = Registered(cache.servers, pass.name), !.available = TRUE]
          \in Template
    BY <2>1, <2>2 DEF Template
  <2>4. api' \in Objects
    BY <1>2, <2>3 DEF Count, Objects
  <2>5. queued' \subseteq Templates
    BY <1>2, <2>1 DEF Count
  <2>6. pass' \in Passes
    BY <1>2 DEF Count, Passes, Idle
  <2> QED
    BY <1>2, <2>4, <2>5, <2>6 DEF Count
<1> QED
  BY <1>1, <1>2 DEF PassStep

LEMMA WatchStepType == TypeOK /\ (SyncTemplates \/ SyncServers) => TypeOK'
<1> SUFFICES ASSUME TypeOK, SyncTemplates \/ SyncServers PROVE TypeOK'
  OBVIOUS
<1> USE DEF TypeOK
<1>1. CASE SyncTemplates
  BY <1>1 DEF SyncTemplates, Objects
<1>2. CASE SyncServers
  <2>1. cache' \in Objects
    BY <1>2 DEF SyncServers, Objects
  <2>2. ASSUME NEW s \in Servers
        PROVE  MapServerToTemplate(cache.servers[s], api.servers[s]) \subseteq Templates
    BY DEF MapServerToTemplate, Objects
  <2>3. queued' \subseteq Templates
    BY <1>2, <2>2 DEF SyncServers
  <2> QED
    BY <1>2, <2>1, <2>3 DEF SyncServers
<1> QED
  BY <1>1, <1>2

LEMMA UserStepType == TypeOK /\ UserStep => TypeOK'
<1> SUFFICES ASSUME TypeOK, UserStep PROVE TypeOK'
  OBVIOUS
<1>1. /\ edits' \in 0..MaxEdits /\ edits \in Nat
      /\ UNCHANGED <<cache, pass, queued, faults>>
  BY BoundsAssumption
  DEF UserStep, CreateTemplate, EditTemplate, DeleteTemplate, SetServer, Edit, TypeOK
<1>2. SUFFICES api' \in Objects
  BY <1>1 DEF TypeOK
<1>3. ASSUME NEW t \in Templates, CreateTemplate(t) PROVE api' \in Objects
  <2> DEFINE new == [uid |-> edits + 1, gen |-> 1, count |-> 0, available |-> FALSE]
  <2>1. new \in Template
    BY <1>1 DEF Template
  <2>2. api' = [api EXCEPT !.tpl[t] = new]
    BY <1>3 DEF CreateTemplate
  <2> HIDE DEF new
  <2> QED
    BY <2>1, <2>2 DEF TypeOK, Objects
<1>4. ASSUME NEW t \in Templates, EditTemplate(t) PROVE api' \in Objects
  <2>1. api.tpl[t] \in Template
    BY <1>4 DEF EditTemplate, TypeOK, Objects
  <2>2. [api.tpl[t] EXCEPT !.gen = @ + 1] \in Template
    BY <2>1 DEF Template
  <2> QED
    BY <1>4, <2>2 DEF EditTemplate, TypeOK, Objects
<1>5. ASSUME NEW t \in Templates, DeleteTemplate(t) PROVE api' \in Objects
  BY <1>5 DEF DeleteTemplate, TypeOK, Objects
<1>6. ASSUME NEW s \in Servers, NEW t \in Templates \union {Absent}, SetServer(s, t)
      PROVE  api' \in Objects
  BY <1>6 DEF SetServer, TypeOK, Objects
<1> QED
  BY <1>3, <1>4, <1>5, <1>6 DEF UserStep

LEMMA FaultStepType == TypeOK /\ (CallFails \/ Restart) => TypeOK'
<1> SUFFICES ASSUME TypeOK, CallFails \/ Restart PROVE TypeOK'
  OBVIOUS
<1>1. faults' \in 0..MaxFaults
  BY BoundsAssumption DEF CallFails, Restart, Fault, TypeOK
<1>2. Idle \in Passes
  BY DEF Idle, Passes
<1> QED
  BY <1>1, <1>2, PassType DEF CallFails, Restart, TypeOK

\* Every variable has its type in every reachable state.
THEOREM TypeCorrect == Spec => []TypeOK
<1>1. Init => TypeOK
  BY BoundsAssumption DEF Init, TypeOK, Objects, Passes, Idle
<1>2. TypeOK /\ [Next]_vars => TypeOK'
  <2> SUFFICES ASSUME TypeOK, [Next]_vars PROVE TypeOK'
    OBVIOUS
  <2>1. CASE UNCHANGED vars
    BY <2>1 DEF vars, TypeOK
  <2> QED
    BY <2>1, PassStepType, WatchStepType, UserStepType, FaultStepType DEF Next
<1> QED
  BY <1>1, <1>2, PTL DEF Spec

(* No wake-up is lost *)

\* A cached template is an earlier version of what is stored: no write brings
\* the stored one back to it.
Fresh ==
  \A t \in Templates :
    /\ api.tpl[t] # Absent => api.tpl[t].uid <= edits
    /\ cache.tpl[t] # Absent => cache.tpl[t].uid <= edits
    /\ (cache.tpl[t] # Absent /\ api.tpl[t] # Absent /\ cache.tpl[t].uid = api.tpl[t].uid)
         => cache.tpl[t].gen <= api.tpl[t].gen

\* A pass whose template is not queued again works on what is cached; and a
\* template that is neither queued, in work nor about to be heard of is counted.
Awake ==
  /\ pass # Idle => pass.name \in queued \/ pass.tpl = cache.tpl[pass.name]
  /\ \A t \in Templates :
       \/ t \in queued
       \/ pass.name = t
       \/ cache.tpl[t] # api.tpl[t]
       \/ Counted(cache.tpl, cache.servers, t)

WakeInv == Fresh /\ Awake

LEMMA IdleName == Idle.name = Absent /\ \A t \in Templates : Idle.name # t
BY AbsentAssumption DEF Idle

LEMMA ReconcileAwake ==
  ASSUME TypeOK, WakeInv, NEW t \in Templates, Reconcile(t) PROVE WakeInv'
<1>1. Fresh'
  BY DEF Reconcile, WakeInv, Fresh
<1>2. CASE cache.tpl[t] = Absent
  <2>1. pass' = Idle /\ UNCHANGED <<api, cache>> /\ queued' = queued \ {t}
    BY <1>2 DEF Reconcile
  <2>2. pass.name # t /\ \A u \in Templates : pass.name # u
    BY IdleName DEF Reconcile
  <2>3. Awake'
    BY <1>2, <2>1, <2>2 DEF WakeInv, Awake, Counted
  <2> QED
    BY <1>1, <2>3 DEF WakeInv
<1>3. CASE cache.tpl[t] # Absent
  <2>1. pass' = [name |-> t, tpl |-> cache.tpl[t]] /\ UNCHANGED <<api, cache>>
        /\ queued' = queued \ {t}
    BY <1>3 DEF Reconcile
  <2>2. \A u \in Templates : pass.name # u
    BY IdleName DEF Reconcile
  <2>3. Awake'
    BY <2>1, <2>2 DEF WakeInv, Awake, Counted
  <2> QED
    BY <1>1, <2>3 DEF WakeInv
<1> QED
  BY <1>2, <1>3

LEMMA CountAwake == ASSUME TypeOK, WakeInv, Count PROVE WakeInv'
<1> DEFINE n == pass.name
           count == Registered(cache.servers, n)
           counted == [pass.tpl EXCEPT !.count = count, !.available = TRUE]
<1>1. n \in Templates /\ pass.tpl \in Template /\ count \in Nat
  BY PassType, RegisteredType DEF Count
<1>2. pass' = Idle /\ UNCHANGED <<cache, edits>>
  BY DEF Count
<1>3. n \in queued \/ pass.tpl = cache.tpl[n]
  BY DEF Count, WakeInv, Awake
<1>4. \A t \in Templates : t # n =>
        t \in queued \/ cache.tpl[t] # api.tpl[t] \/ Counted(cache.tpl, cache.servers, t)
  BY DEF WakeInv, Awake
<1>5. CASE pass.tpl.count = count /\ pass.tpl.available
  <2>1. UNCHANGED <<api, queued>>
    BY <1>5 DEF Count
  <2>2. Fresh'
    BY <1>2, <2>1 DEF WakeInv, Fresh
  <2>3. n \in queued \/ Counted(cache.tpl, cache.servers, n)
    BY <1>3, <1>5 DEF Counted
  <2>4. Awake'
    BY <1>2, <1>4, <2>1, <2>3 DEF Awake, Counted
  <2> QED
    BY <2>2, <2>4 DEF WakeInv
<1>6. CASE ~(pass.tpl.count = count /\ pass.tpl.available) /\ api.tpl[n] = pass.tpl
  <2>1. api' = [api EXCEPT !.tpl[n] = counted] /\ UNCHANGED queued
    BY <1>6 DEF Count
  <2>2. /\ counted \in Template /\ counted # pass.tpl
        /\ counted.uid = pass.tpl.uid /\ counted.gen = pass.tpl.gen
    BY <1>1, <1>6 DEF Template
  <2> HIDE DEF counted, count
  <2>3. api'.tpl[n] = counted /\ \A t \in Templates : t # n => api'.tpl[t] = api.tpl[t]
    BY <1>1, <2>1 DEF TypeOK, Objects
  <2>4. Fresh'
    <3> SUFFICES ASSUME NEW t \in Templates
                 PROVE  /\ api'.tpl[t] # Absent => api'.tpl[t].uid <= edits
                        /\ cache.tpl[t] # Absent => cache.tpl[t].uid <= edits
                        /\ (/\ cache.tpl[t] # Absent /\ api'.tpl[t] # Absent
                            /\ cache.tpl[t].uid = api'.tpl[t].uid)
                             => cache.tpl[t].gen <= api'.tpl[t].gen
      BY <1>2 DEF Fresh
    <3>1. api.tpl[n] # Absent
      BY <1>1, <1>6, AbsentAssumption
    <3> QED
      BY <1>6, <2>2, <2>3, <3>1 DEF WakeInv, Fresh
  <2>5. n \in queued \/ cache.tpl[n] # api'.tpl[n]
    BY <1>3, <2>2, <2>3
  <2>6. Awake'
    BY <1>2, <1>4, <2>1, <2>3, <2>5 DEF Awake, Counted
  <2> QED
    BY <2>4, <2>6 DEF WakeInv
<1>7. CASE ~(pass.tpl.count = count /\ pass.tpl.available) /\ api.tpl[n] # pass.tpl
  <2>1. UNCHANGED api /\ queued' = queued \union {n}
    BY <1>7 DEF Count
  <2>2. Fresh'
    BY <1>2, <2>1 DEF WakeInv, Fresh
  <2>3. Awake'
    BY <1>2, <1>4, <2>1 DEF Awake, Counted
  <2> QED
    BY <2>2, <2>3 DEF WakeInv
<1> QED
  BY <1>5, <1>6, <1>7

LEMMA SyncTemplatesAwake == ASSUME TypeOK, WakeInv, SyncTemplates PROVE WakeInv'
<1>1. /\ cache'.tpl = api.tpl /\ cache'.servers = cache.servers
      /\ UNCHANGED <<api, pass, edits>>
      /\ queued' = queued \union {t \in Templates : cache.tpl[t] # api.tpl[t]}
  BY DEF SyncTemplates, Changed, TypeOK, Objects
<1>2. Fresh'
  BY <1>1 DEF WakeInv, Fresh, TypeOK, Objects, Template
<1>3. \A t \in Templates : t \notin queued' => t \notin queued /\ cache'.tpl[t] = cache.tpl[t]
  BY <1>1
<1>4. pass # Idle => pass.name \in Templates
  BY PassType
<1>5. Awake'
  BY <1>1, <1>3, <1>4 DEF WakeInv, Awake, Counted
<1> QED
  BY <1>2, <1>5 DEF WakeInv

\* A template whose servers change is queued: of a server that moves, both the
\* template it leaves and the one it comes to.
LEMMA SyncServersAwake == ASSUME TypeOK, WakeInv, SyncServers PROVE WakeInv'
<1>1. /\ cache'.servers = api.servers /\ cache'.tpl = cache.tpl
      /\ UNCHANGED <<api, pass, edits>>
  BY DEF SyncServers, TypeOK, Objects
<1>2. queued \subseteq queued'
  BY DEF SyncServers
<1>3. Fresh'
  BY <1>1 DEF WakeInv, Fresh
<1>4. ASSUME NEW t \in Templates, t \notin queued'
      PROVE  Registered(api.servers, t) = Registered(cache.servers, t)
  <2>1. ASSUME NEW s \in Servers, cache.servers[s] # api.servers[s]
        PROVE  cache.servers[s] # t /\ api.servers[s] # t
    <3>1. t \notin MapServerToTemplate(cache.servers[s], api.servers[s])
      BY <1>4, <2>1 DEF SyncServers
    <3>2. t # Absent
      BY AbsentAssumption
    <3> QED
      BY <3>1, <3>2 DEF MapServerToTemplate
  <2>2. {s \in Servers : api.servers[s] = t} = {s \in Servers : cache.servers[s] = t}
    BY <2>1
  <2> QED
    BY <2>2 DEF Registered
<1>5. Awake'
  BY <1>1, <1>2, <1>4 DEF WakeInv, Awake, Counted
<1> QED
  BY <1>3, <1>5 DEF WakeInv

\* What users do to a template makes it differ from every cached version.
LEMMA UserStepAwake == ASSUME TypeOK, WakeInv, UserStep PROVE WakeInv'
<1>1. UNCHANGED <<cache, pass, queued>> /\ edits' = edits + 1 /\ edits \in Nat
  BY BoundsAssumption
  DEF UserStep, CreateTemplate, EditTemplate, DeleteTemplate, SetServer, Edit, TypeOK
<1>2. \A t \in Templates : /\ api.tpl[t] \in Template \union {Absent}
                           /\ cache.tpl[t] \in Template \union {Absent}
  BY DEF TypeOK, Objects
<1>3. SUFFICES ASSUME NEW u \in Templates
               PROVE  /\ api'.tpl[u] # Absent => api'.tpl[u].uid <= edits'
                      /\ cache.tpl[u] # Absent => cache.tpl[u].uid <= edits'
                      /\ (/\ cache.tpl[u] # Absent /\ api'.tpl[u] # Absent
                          /\ cache.tpl[u].uid = api'.tpl[u].uid)
                           => cache.tpl[u].gen <= api'.tpl[u].gen
                      /\ api'.tpl[u] # api.tpl[u] =>
                           cache.tpl[u] # api'.tpl[u] \/ cache.tpl[u] = Absent
  <2>1. Fresh'
    BY <1>1, <1>3 DEF Fresh
  <2>2. Awake'
    BY <1>1, <1>3 DEF WakeInv, Awake, Counted
  <2> QED
    BY <2>1, <2>2 DEF WakeInv
<1>4. /\ api.tpl[u] # Absent => api.tpl[u].uid <= edits
      /\ cache.tpl[u] # Absent => cache.tpl[u].uid <= edits
      /\ (/\ cache.tpl[u] # Absent /\ api.tpl[u] # Absent
          /\ cache.tpl[u].uid = api.tpl[u].uid)
           => cache.tpl[u].gen <= api.tpl[u].gen
  BY DEF WakeInv, Fresh
<1>5. CASE api'.tpl[u] = api.tpl[u]
  BY <1>1, <1>2, <1>4, <1>5 DEF Template
<1>6. CASE CreateTemplate(u)
  <2>1. api'.tpl[u] = [uid |-> edits + 1, gen |-> 1, count |-> 0, available |-> FALSE]
    BY <1>6 DEF CreateTemplate, TypeOK, Objects
  <2> QED
    BY <1>1, <1>2, <1>4, <2>1 DEF Template
<1>7. CASE EditTemplate(u)
  <2>1. api.tpl[u] \in Template
    BY <1>2, <1>7 DEF EditTemplate
  <2>2. api'.tpl[u] = [api.tpl[u] EXCEPT !.gen = @ + 1]
    BY <1>7 DEF EditTemplate, TypeOK, Objects
  <2>3. api'.tpl[u].uid = api.tpl[u].uid /\ api'.tpl[u].gen = api.tpl[u].gen + 1
        /\ api.tpl[u] # Absent
    BY <2>1, <2>2, AbsentAssumption DEF Template
  <2>4. cache.tpl[u] = Absent \/ cache.tpl[u] \in Template
    BY <1>2
  <2> QED
    BY <1>1, <1>4, <2>1, <2>3, <2>4 DEF Template
<1>8. CASE DeleteTemplate(u)
  <2>1. api'.tpl[u] = Absent
    BY <1>8 DEF DeleteTemplate, TypeOK, Objects
  <2> QED
    BY <1>1, <1>2, <1>4, <2>1 DEF Template
<1>9. CASE \/ \E t \in Templates \ {u} :
                CreateTemplate(t) \/ EditTemplate(t) \/ DeleteTemplate(t)
           \/ \E s \in Servers, t \in Templates \union {Absent} : SetServer(s, t)
  <2>1. api'.tpl[u] = api.tpl[u]
    BY <1>9 DEF CreateTemplate, EditTemplate, DeleteTemplate, SetServer, TypeOK, Objects
  <2> QED
    BY <1>5, <2>1
<1> QED
  BY <1>6, <1>7, <1>8, <1>9 DEF UserStep

LEMMA FaultStepAwake == ASSUME TypeOK, WakeInv, CallFails \/ Restart PROVE WakeInv'
<1>1. CASE CallFails
  <2>1. UNCHANGED <<api, cache, edits>> /\ pass' = Idle /\ queued' = queued \union {pass.name}
    BY <1>1 DEF CallFails
  <2>2. Fresh'
    BY <2>1 DEF WakeInv, Fresh
  <2>3. Awake'
    BY <2>1 DEF WakeInv, Awake, Counted
  <2> QED
    BY <2>2, <2>3 DEF WakeInv
<1>2. CASE Restart
  <2>1. /\ UNCHANGED <<api, edits>> /\ pass' = Idle /\ cache' = api
        /\ queued' = {t \in Templates : api.tpl[t] # Absent}
    BY <1>2 DEF Restart
  <2>2. Fresh'
    BY <2>1 DEF WakeInv, Fresh, TypeOK, Objects, Template
  <2>3. Awake'
    BY <2>1 DEF Awake, Counted
  <2> QED
    BY <2>2, <2>3 DEF WakeInv
<1> QED
  BY <1>1, <1>2

\* No wake-up is lost: what is neither queued, in work nor about to be heard of
\* is counted.
THEOREM WakeInvariant == Spec => []WakeInv
<1>1. Init => WakeInv
  BY DEF Init, WakeInv, Fresh, Awake, Counted, Idle
<1>2. TypeOK /\ WakeInv /\ [Next]_vars => WakeInv'
  <2> SUFFICES ASSUME TypeOK, WakeInv, [Next]_vars PROVE WakeInv'
    OBVIOUS
  <2>1. CASE UNCHANGED vars
    BY <2>1 DEF vars, WakeInv, Fresh, Awake, Counted
  <2> QED
    BY <2>1, ReconcileAwake, CountAwake, SyncTemplatesAwake, SyncServersAwake,
       UserStepAwake, FaultStepAwake DEF Next, PassStep
<1> QED
  BY <1>1, <1>2, TypeCorrect, PTL DEF Spec

\* The count is right whenever the reconciler is at rest.
THEOREM CountsAtRest == Spec => []RestIsCounted
<1>1. TypeOK /\ WakeInv => RestIsCounted
  <2> SUFFICES ASSUME WakeInv, queued = {}, pass = Idle, cache = api, NEW t \in Templates
               PROVE  Counted(api.tpl, api.servers, t)
    BY DEF RestIsCounted
  <2> QED
    BY IdleName DEF WakeInv, Awake
<1> QED
  BY <1>1, TypeCorrect, WakeInvariant, PTL
=============================================================================
