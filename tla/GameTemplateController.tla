----------------------- MODULE GameTemplateController -----------------------
(***************************************************************************)
(* The GameTemplate reconciler (internal/controller/                       *)
(* gametemplate_controller.go): it counts the GameServers that refer to a  *)
(* template and saves the count in the template's status.  All templates   *)
(* share one worker; queued is the set of names in its workqueue.          *)
(*                                                                         *)
(* api is what the API server stores, cache what Get and List read.        *)
(***************************************************************************)
EXTENDS Naturals, FiniteSets

CONSTANTS
  Templates,   \* names of GameTemplates
  Servers,     \* names of GameServers
  Absent,      \* stands for an object that does not exist
  MaxEdits,    \* bound on what users do
  MaxFaults    \* bound on API errors and restarts

VARIABLES api, cache, pass, queued, edits, faults

vars == <<api, cache, pass, queued, edits, faults>>

\* gen stands for the spec, count for serversRegistered, available for an
\* Available condition that is True.
Template == [uid : Nat, gen : Nat, count : Nat, available : BOOLEAN]

ASSUME AbsentAssumption == Absent \notin Template /\ Absent \notin Templates

ASSUME BoundsAssumption ==
  IsFiniteSet(Servers) /\ MaxEdits \in Nat /\ MaxFaults \in Nat

\* A server is the template its templateRef names.
Objects == [tpl : [Templates -> Template \union {Absent}],
            servers : [Servers -> Templates \union {Absent}]]

Passes == [name : {Absent}, tpl : {Absent}] \union [name : Templates, tpl : Template]

TypeOK ==
  /\ api \in Objects
  /\ cache \in Objects
  /\ pass \in Passes
  /\ queued \subseteq Templates
  /\ edits \in 0..MaxEdits
  /\ faults \in 0..MaxFaults

Idle == [name |-> Absent, tpl |-> Absent]

Init ==
  /\ api = [tpl |-> [t \in Templates |-> Absent], servers |-> [s \in Servers |-> Absent]]
  /\ cache = api
  /\ pass = Idle
  /\ queued = {}
  /\ edits = 0
  /\ faults = 0

-----------------------------------------------------------------------------
(* The reconcile pass *)

\* Mutant: NotFound is not told apart.
ReconcileMissing(t) ==
  /\ pass = Idle
  /\ t \in queued
  /\ queued' = queued \ {t}
  /\ pass' = [name |-> t, tpl |-> cache.tpl[t]]
  /\ UNCHANGED <<api, cache, edits, faults>>

\* The worker takes a key and reads the template; a deleted one is done.
Reconcile(t) ==
  /\ pass = Idle
  /\ t \in queued
  /\ queued' = queued \ {t}
  /\ pass' = IF cache.tpl[t] = Absent THEN Idle ELSE [name |-> t, tpl |-> cache.tpl[t]]
  /\ UNCHANGED <<api, cache, edits, faults>>

Registered(servers, t) == Cardinality({s \in Servers : servers[s] = t})

\* The servers are listed and counted; nothing is written when the template
\* read says the same.  Status().Update is refused when that is not current.
Count ==
  /\ pass # Idle
  /\ LET t == pass.name
         count == Registered(cache.servers, t)
     IN IF pass.tpl.count = count /\ pass.tpl.available
          THEN UNCHANGED <<api, queued>>
        ELSE IF api.tpl[t] = pass.tpl
          THEN /\ api' = [api EXCEPT !.tpl[t] =
                            [pass.tpl EXCEPT !.count = count, !.available = TRUE]]
               /\ UNCHANGED queued
        ELSE /\ queued' = queued \union {t}
             /\ UNCHANGED api
  /\ pass' = Idle
  /\ UNCHANGED <<cache, edits, faults>>

PassStep == (\E t \in Templates : Reconcile(t)) \/ Count

-----------------------------------------------------------------------------
(* The watches *)

\* Mutant: only a change of the spec is an event (GenerationChangedPredicate).
SpecChanged(old, new) ==
  \/ Absent \in {old, new} /\ old # new
  \/ old # Absent /\ new # Absent /\ <<old.uid, old.gen>> # <<new.uid, new.gen>>

\* For: every change of a template is an event of it.
Changed(old, new) == old # new

SyncTemplates ==
  /\ cache.tpl # api.tpl
  /\ cache' = [cache EXCEPT !.tpl = api.tpl]
  /\ queued' = queued \union {t \in Templates : Changed(cache.tpl[t], api.tpl[t])}
  /\ UNCHANGED <<api, pass, edits, faults>>

\* Mutant: an update is mapped by the new object alone.
MapNewServerToTemplate(old, new) ==
  {IF new # Absent THEN new ELSE old} \ {Absent}

\* mapServerToTemplate, called with both objects of an update.
MapServerToTemplate(old, new) == {old, new} \ {Absent}

SyncServers ==
  /\ cache.servers # api.servers
  /\ cache' = [cache EXCEPT !.servers = api.servers]
  /\ queued' = queued \union
       UNION {MapServerToTemplate(cache.servers[s], api.servers[s]) :
                s \in {r \in Servers : cache.servers[r] # api.servers[r]}}
  /\ UNCHANGED <<api, pass, edits, faults>>

-----------------------------------------------------------------------------
(* The users *)

Edit ==
  /\ edits < MaxEdits
  /\ edits' = edits + 1
  /\ UNCHANGED <<cache, pass, queued, faults>>

\* Uids are never used again; edits numbers them.
CreateTemplate(t) ==
  /\ Edit
  /\ api.tpl[t] = Absent
  /\ api' = [api EXCEPT !.tpl[t] = [uid |-> edits + 1, gen |-> 1, count |-> 0,
                                    available |-> FALSE]]

EditTemplate(t) ==
  /\ Edit
  /\ api.tpl[t] # Absent
  /\ api' = [api EXCEPT !.tpl[t].gen = @ + 1]

DeleteTemplate(t) ==
  /\ Edit
  /\ api.tpl[t] # Absent
  /\ api' = [api EXCEPT !.tpl[t] = Absent]

\* A server is created, deleted, or moved to another template.
SetServer(s, t) ==
  /\ Edit
  /\ api.servers[s] # t
  /\ api' = [api EXCEPT !.servers[s] = t]

UserStep ==
  \/ \E t \in Templates : CreateTemplate(t) \/ EditTemplate(t) \/ DeleteTemplate(t)
  \/ \E s \in Servers, t \in Templates \union {Absent} : SetServer(s, t)

-----------------------------------------------------------------------------
(* Faults *)

Fault == faults < MaxFaults /\ faults' = faults + 1

\* Get, List or the update fails: logged and retried.
CallFails ==
  /\ Fault
  /\ pass # Idle
  /\ queued' = queued \union {pass.name}
  /\ pass' = Idle
  /\ UNCHANGED <<api, cache, edits>>

\* The pass is gone, the caches are listed afresh and every template queued.
Restart ==
  /\ Fault
  /\ pass' = Idle
  /\ queued' = {t \in Templates : api.tpl[t] # Absent}
  /\ cache' = api
  /\ UNCHANGED <<api, edits>>

-----------------------------------------------------------------------------

Next ==
  \/ PassStep
  \/ SyncTemplates
  \/ SyncServers
  \/ UserStep
  \/ CallFails
  \/ Restart

Spec == Init /\ [][Next]_vars

\* The worker takes every key in turn; the watches deliver.
FairSpec ==
  /\ Spec
  /\ \A t \in Templates : SF_vars(Reconcile(t))
  /\ WF_vars(Count)
  /\ WF_vars(SyncTemplates)
  /\ WF_vars(SyncServers)

-----------------------------------------------------------------------------
(* Properties *)

\* gametemplate_types.go: serversRegistered is the number of servers currently
\* referring to the template: it settles there, although it is taken from a
\* stale list, compared with a stale copy of the status, and moved servers
\* change two templates.
CountSettles ==
  <>[](\A t \in Templates :
         api.tpl[t] # Absent =>
           /\ api.tpl[t].available
           /\ api.tpl[t].count = Registered(api.servers, t))

Counted(tpl, servers, t) ==
  tpl[t] # Absent => tpl[t].available /\ tpl[t].count = Registered(servers, t)

\* The safety half of it: as soon as no template waits, no pass is in flight and
\* the caches are up to date, every count is right.  No wake-up is lost.
RestIsCounted ==
  (queued = {} /\ pass = Idle /\ cache = api)
    => \A t \in Templates : Counted(api.tpl, api.servers, t)
=============================================================================
