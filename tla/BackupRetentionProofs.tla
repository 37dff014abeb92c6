------------------------ MODULE BackupRetentionProofs ------------------------
(* Retention never takes the children of a schedule below keep as long as no  *)
(* two of them share a creation time, for every cron expression, window, set  *)
(* of specs and bound on time, edits and faults.                              *)
EXTENDS BackupScheduleProofs, FiniteSetTheorems, WellFoundedInduction

\* While creation times differ, they are ordered as the fires are: as last
\* recorded, in the store and in any list the cache may show.
CreatedInOrder ==
  /\ \A f \in Fires : made[f] <= now
  /\ \A f, g \in Made : f < g => made[f] < made[g]
  /\ \A f \in Existing : made[f] # 0 /\ api.backups[f].created = made[f]
  /\ \A f, g \in Fires :
       (cache.backups[f] # Absent /\ cache.backups[g] # Absent /\ f < g)
         => cache.backups[f].created < cache.backups[g].created
  /\ \A f \in Fires : cache.backups[f] # Absent => made[f] # 0

\* What a pass is about to delete has keep newer ones, so the newest ones are
\* missing only where users removed them.
RetentionInv ==
  ~tied =>
    /\ CreatedInOrder
    /\ \A f \in DOMAIN pass.todo : Cardinality(Newer(f)) >= LeastKeep
    /\ Cardinality(Top \ Existing) <= removed
(* Numbers and finite sets *)

LEMMA LeastExists ==
  ASSUME NEW T, T \subseteq Nat, T # {}
  PROVE  \E x \in T : \A y \in T : x <= y
<1> DEFINE R == {ss \in Nat \X Nat : ss[1] < ss[2]}
<1>1. IsWellFoundedOn(R, Nat)
  BY NatLessThanWellFounded DEF OpToRel
<1> HIDE DEF R
<1>2. \E x \in T : \A y \in T : ~(<<y, x>> \in R)
  BY <1>1, WFMin
<1>3. \A x, y \in Nat : y < x => <<y, x>> \in R
  BY DEF R
<1>4. \A x, y \in Nat : ~(y < x) => x <= y
  OBVIOUS
<1> QED
  BY <1>2, <1>3, <1>4

LEMMA LeastKeepType ==
  ASSUME NEW s \in ScheduleSpecs
  PROVE  /\ LeastKeep \in Nat
         /\ LeastKeep <= Keep(s)
         /\ \E r \in ScheduleSpecs : LeastKeep = Keep(r)
<1> DEFINE K == {Keep(r) : r \in ScheduleSpecs}
<1>1. K \subseteq Nat /\ K # {}
  BY LimitsAssumption DEF Keep
<1>2. \E k \in K : \A r \in ScheduleSpecs : k <= Keep(r)
  <2>1. PICK k \in K : \A j \in K : k <= j
    <3> HIDE DEF K
    <3> QED
      BY <1>1, LeastExists
  <2> QED
    BY <2>1
<1>3. LeastKeep \in K /\ \A r \in ScheduleSpecs : LeastKeep <= Keep(r)
  BY <1>2 DEF LeastKeep
<1> QED
  BY <1>1, <1>3

LEMMA FiresFinite == IsFiniteSet(Fires)
<1>1. IsFiniteSet(1..MaxTime)
  BY Numbers, FS_Interval
<1>2. Fires \subseteq 1..MaxTime
  BY Numbers
<1> QED
  BY <1>1, <1>2, FS_Subset

LEMMA Sizes ==
  ASSUME NEW B \in SUBSET Fires, NEW A \in SUBSET B
  PROVE  /\ IsFiniteSet(A) /\ IsFiniteSet(B)
         /\ Cardinality(A) \in Nat /\ Cardinality(B) \in Nat
         /\ Cardinality(A) <= Cardinality(B)
         /\ A # B => Cardinality(A) < Cardinality(B)
<1>1. IsFiniteSet(B)
  BY FiresFinite, FS_Subset
<1>2. IsFiniteSet(A) /\ Cardinality(A) <= Cardinality(B)
      /\ (Cardinality(B) = Cardinality(A) => A = B)
  BY <1>1, FS_Subset
<1> QED
  BY <1>1, <1>2, FS_CardinalityType

(* The newest fires *)

LEMMA NewerType ==
  /\ Made \subseteq Fires /\ Existing \subseteq Fires /\ Top \subseteq Made
  /\ \A f \in Fires : Newer(f) \subseteq Made
BY DEF Made, Existing, Top, Newer

(* How the steps keep the invariant *)

LEMMA TodoInFires == ASSUME TypeOK PROVE DOMAIN pass.todo \subseteq Fires
BY DEF TypeOK, Passes, Todos

\* A step that makes no Backup and deletes none.
LEMMA QuietRetention ==
  ASSUME TypeOK, RetentionInv, UNCHANGED history,
         now <= now', now' \in Nat,
         Existing' = Existing,
         \A f \in Existing : api'.backups[f].created = api.backups[f].created,
         cache'.backups \in {cache.backups, api.backups},
         DOMAIN pass'.todo \subseteq DOMAIN pass.todo
  PROVE  RetentionInv'
<1> SUFFICES ASSUME ~tied PROVE RetentionInv'
  BY DEF RetentionInv, history
<1>1. UNCHANGED <<made, removed, tied>> /\ Made' = Made /\ Top' = Top
      /\ \A f : Newer(f)' = Newer(f)
  BY DEF history, Made, Top, Newer
<1>2. CreatedInOrder
  BY DEF RetentionInv
<1>3. \A f \in Fires : made'[f] <= now'
  <2>1. \A f \in Fires : made[f] \in Nat /\ made[f] <= now
    BY <1>2, Numbers DEF CreatedInOrder, TypeOK
  <2>2. now \in Nat
    BY Numbers DEF TypeOK
  <2> QED
    BY <1>1, <2>1, <2>2
<1>4. CASE cache'.backups = cache.backups
  <2>1. CreatedInOrder'
    BY <1>1, <1>2, <1>3, <1>4 DEF CreatedInOrder
  <2> QED
    BY <1>1, <2>1 DEF RetentionInv
<1>5. CASE cache'.backups = api.backups
  <2>1. \A f \in Fires : api.backups[f] # Absent =>
          f \in Made /\ api.backups[f].created = made[f]
    BY <1>2 DEF CreatedInOrder, Existing, Made
  <2>2. CreatedInOrder'
    BY <1>1, <1>2, <1>3, <1>5, <2>1 DEF CreatedInOrder, Made
  <2> QED
    BY <1>1, <2>2 DEF RetentionInv
<1> QED
  BY <1>4, <1>5

\* A new Backup is the newest: it adds to what is newer than the others, and
\* can only come to the top itself.
LEMMA CreateRetention ==
  ASSUME TypeOK, OrderInv, RetentionInv, pass.pc = "Spawn", Fire \in Fires,
         CreateBackup, UNCHANGED <<now, cache, removed>>,
         DOMAIN pass'.todo \subseteq DOMAIN pass.todo
  PROVE  RetentionInv'
<1>1. CASE api.backups[Fire] # Absent
  <2>1. UNCHANGED <<api, made, tied>>
    BY <1>1 DEF CreateBackup
  <2> QED
    BY <2>1 DEF RetentionInv, CreatedInOrder, Top, Made, Newer, Existing
<1>2. CASE api.backups[Fire] = Absent
  <2> SUFFICES ASSUME ~tied' PROVE RetentionInv'
    BY DEF RetentionInv
  <2>n. now \in Nat /\ now # 0
    BY Numbers DEF TypeOK
  <2>1. ~tied /\ \A f \in Fires : made[f] # now
    BY <1>2 DEF CreateBackup, TypeOK
  <2>2. made' = [made EXCEPT ![Fire] = now]
        /\ api' = [api EXCEPT !.backups[Fire] = NewBackup]
    BY <1>2 DEF CreateBackup
  <2>3. made'[Fire] = now /\ \A f \in Fires : f # Fire => made'[f] = made[f]
    BY <2>2 DEF TypeOK
  <2>4. /\ api'.backups[Fire] = NewBackup
        /\ \A f \in Fires : f # Fire => api'.backups[f] = api.backups[f]
    BY <2>2 DEF TypeOK, Objects, Backups
  <2>5. NewBackup # Absent /\ NewBackup.created = now
    <3>1. NewBackup \in Backup
      BY Numbers DEF TypeOK, NewBackup, Backup
    <3> QED
      BY <3>1, AbsentAssumption DEF NewBackup
  <2>6. CreatedInOrder /\ \A f \in Fires : made[f] \in Nat
    BY <2>1, Numbers DEF RetentionInv, TypeOK
  <2>7. \A g \in Made : g <= Fire
    BY FireIsNewest DEF Made
  <2>8. Made' = Made \union {Fire} /\ Existing' = Existing \union {Fire}
    BY <2>n, <2>3, <2>4, <2>5 DEF Made, Existing
  <2>9. CreatedInOrder'
    <3>1. \A f \in Fires : made'[f] <= now
      BY <2>n, <2>3, <2>6 DEF CreatedInOrder
    <3>2. ASSUME NEW f \in Made', NEW g \in Made', f < g PROVE made'[f] < made'[g]
      <4>1. f \in Fires /\ g \in Fires /\ f # g
        BY <3>2, Numbers DEF Made
      <4>2. CASE g = Fire
        BY <2>n, <2>1, <2>3, <2>6, <4>1, <4>2 DEF CreatedInOrder
      <4>3. CASE f = Fire
        <5>1. g \in Made
          BY <2>8, <4>1, <4>3
        <5> QED
          BY <2>7, <3>2, <4>1, <4>3, <5>1, Numbers
      <4>4. CASE f # Fire /\ g # Fire
        <5>1. f \in Made /\ g \in Made
          BY <2>8, <4>4
        <5> QED
          BY <2>3, <2>6, <3>2, <4>1, <4>4, <5>1 DEF CreatedInOrder
      <4> QED
        BY <4>2, <4>3, <4>4
    <3>3. ASSUME NEW f \in Existing'
          PROVE  made'[f] # 0 /\ api'.backups[f].created = made'[f]
      <4>1. CASE f = Fire
        BY <2>n, <2>3, <2>4, <2>5, <4>1
      <4>2. CASE f # Fire
        <5>1. f \in Existing /\ f \in Fires
          BY <2>8, <4>2 DEF Existing
        <5> QED
          BY <2>3, <2>4, <2>6, <4>2, <5>1 DEF CreatedInOrder
      <4> QED
        BY <4>1, <4>2
    <3>4. \A f \in Fires : cache.backups[f] # Absent => made'[f] # 0
      BY <2>n, <2>3, <2>6 DEF CreatedInOrder
    <3>5. (\A f, g \in Made : f < g => made[f] < made[g])'
      BY <3>2
    <3>6. (\A f \in Existing : made[f] # 0 /\ api.backups[f].created = made[f])'
      BY <3>3
    <3> QED
      BY <3>1, <3>4, <3>5, <3>6, <2>6 DEF CreatedInOrder
  <2>10. ASSUME NEW f \in Fires
         PROVE  /\ Cardinality(Newer(f)) \in Nat /\ Cardinality(Newer(f)') \in Nat
                /\ Cardinality(Newer(f)) <= Cardinality(Newer(f)')
    <3>1. Newer(f) \in SUBSET Newer(f)' /\ Newer(f)' \in SUBSET Fires
      <4>1. Newer(f)' = {g \in Made' : f < g}
        BY DEF Newer
      <4>2. Made' \subseteq Fires
        BY DEF Made
      <4> QED
        BY <2>8, <4>1, <4>2 DEF Newer
    <3> QED
      BY <3>1, Sizes
  <2>11. LeastKeep \in Nat
    BY PassSpec, LeastKeepType
  <2>12. Top' \ Existing' \subseteq Top \ Existing
    <3> SUFFICES ASSUME NEW f \in Top', f \notin Existing'
                 PROVE  f \in Top /\ f \notin Existing
      OBVIOUS
    <3>1. f \in Made' /\ Cardinality(Newer(f)') < LeastKeep
      BY DEF Top
    <3>2. f # Fire /\ f \notin Existing
      BY <2>8
    <3>3. f \in Made /\ f \in Fires
      BY <2>8, <3>1, <3>2 DEF Made
    <3>4. Cardinality(Newer(f)) < LeastKeep
      BY <2>10, <2>11, <3>1, <3>3
    <3> QED
      BY <3>2, <3>3, <3>4 DEF Top
  <2>13. Cardinality(Top' \ Existing') <= removed
    <3>1. Top \ Existing \in SUBSET Fires
      BY NewerType
    <3>2. /\ Cardinality(Top' \ Existing') <= Cardinality(Top \ Existing)
          /\ Cardinality(Top \ Existing) \in Nat /\ Cardinality(Top' \ Existing') \in Nat
      BY <2>12, <3>1, Sizes
    <3>3. Cardinality(Top \ Existing) <= removed /\ removed \in Nat
      BY <2>1 DEF RetentionInv, TypeOK
    <3> QED
      BY <3>2, <3>3
  <2>14. ASSUME NEW f \in DOMAIN pass'.todo PROVE Cardinality(Newer(f)') >= LeastKeep
    <3>1. f \in DOMAIN pass.todo /\ f \in Fires
      BY TodoInFires
    <3>2. Cardinality(Newer(f)) >= LeastKeep
      BY <2>1, <3>1 DEF RetentionInv
    <3> QED
      BY <2>10, <2>11, <3>1, <3>2
  <2>15. (\A f \in DOMAIN pass.todo : Cardinality(Newer(f)) >= LeastKeep)'
    BY <2>14
  <2> QED
    BY <2>9, <2>13, <2>15 DEF RetentionInv
<1> QED
  BY <1>1, <1>2

\* What comes after the first keep of the list has keep newer ones: the times of
\* creation are in the order of the fires.
LEMMA ListRetention == ASSUME TypeOK, RetentionInv, ListExcess PROVE RetentionInv'
<1>1. UNCHANGED <<now, api, cache, history>> /\ pass.pc # "Idle"
  BY DEF ListExcess
<1> DEFINE list == cache.backups
           candidates == Candidates(list)
           keep == Keep(pass.read.spec)
<1>2. PICK kept \in SUBSET candidates :
        /\ Cardinality(kept) = Min2(keep, Cardinality(candidates))
        /\ \A k \in kept, d \in candidates \ kept : list[k].created >= list[d].created
        /\ pass' = [pass EXCEPT !.pc = "Retain",
                        !.todo = [f \in candidates \ kept |-> list[f].created]]
  BY DEF ListExcess, Excess
<1>3. pass'.todo = [f \in candidates \ kept |-> list[f].created]
  BY <1>2 DEF TypeOK, Passes
<1>4. UNCHANGED <<made, removed, tied, Made, Top, Existing>> /\ \A f : Newer(f)' = Newer(f)
  BY <1>1 DEF history, Made, Top, Existing, Newer
<1> SUFFICES ASSUME ~tied PROVE RetentionInv'
  BY <1>4 DEF RetentionInv
<1>5. CreatedInOrder
  BY DEF RetentionInv
<1>6. CreatedInOrder'
  BY <1>1, <1>4, <1>5 DEF CreatedInOrder
<1>7. ASSUME NEW f \in candidates, f \notin kept PROVE Cardinality(Newer(f)) >= LeastKeep
  <2>1. candidates \in SUBSET Fires /\ f \in Fires /\ list[f] # Absent
    BY DEF Candidates
  <2>2. kept \subseteq Newer(f)
    <3> SUFFICES ASSUME NEW k \in kept PROVE k \in Newer(f)
      OBVIOUS
    <3>1. k \in Fires /\ list[k] # Absent /\ k # f /\ k \in Made
      BY <1>5, <1>7 DEF Candidates, CreatedInOrder, Made
    <3>2. list[k].created >= list[f].created
      BY <1>2, <1>7
    <3>3. list[k].created \in Nat /\ list[f].created \in Nat
      <4>1. list[k] \in Backup /\ list[f] \in Backup
        BY <2>1, <3>1 DEF TypeOK, Objects, Backups
      <4>2. list[k].created \in 0..MaxTime /\ list[f].created \in 0..MaxTime
        BY <4>1 DEF Backup
      <4> QED
        BY <4>2
    <3>4. ~(k < f)
      BY <1>5, <2>1, <3>1, <3>2, <3>3 DEF CreatedInOrder
    <3>5. f < k
      BY <2>1, <3>1, <3>4, Numbers
    <3> QED
      BY <3>1, <3>5 DEF Newer
  <2>3. Cardinality(kept) < Cardinality(candidates) /\ Cardinality(kept) \in Nat
        /\ Cardinality(candidates) \in Nat
    <3> HIDE DEF candidates
    <3> QED
      BY <1>7, <2>1, Sizes
  <2>4. LeastKeep \in Nat /\ LeastKeep <= keep /\ keep \in Nat
    BY <1>1, PassSpec, LeastKeepType, LimitsAssumption DEF Keep
  <2>5. Cardinality(kept) = keep
    <3> HIDE DEF candidates, keep
    <3> QED
      BY <1>2, <2>3, <2>4 DEF Min2
  <2>6. Newer(f) \in SUBSET Fires
    BY <2>1, NewerType
  <2>7. Cardinality(kept) <= Cardinality(Newer(f)) /\ Cardinality(Newer(f)) \in Nat
    BY <2>2, <2>6, Sizes
  <2> HIDE DEF keep
  <2> QED
    BY <2>3, <2>4, <2>5, <2>7
<1>8. ASSUME NEW f \in DOMAIN pass'.todo PROVE Cardinality(Newer(f)') >= LeastKeep
  BY <1>3, <1>4, <1>7
<1>9. (\A f \in DOMAIN pass.todo : Cardinality(Newer(f)) >= LeastKeep)'
  BY <1>8
<1> QED
  BY <1>4, <1>6, <1>9 DEF RetentionInv

\* A deletion reaches none of the newest.
LEMMA DeleteRetention ==
  ASSUME TypeOK, RetentionInv, DeleteExcess, ~tied
  PROVE  /\ RetentionInv'
         /\ Top \ Existing' = Top \ Existing
         /\ \A f \in Existing \ Existing' : Cardinality(Newer(f)) >= LeastKeep
<1>1. PICK f \in DOMAIN pass.todo :
        /\ api' = [api EXCEPT !.backups[f] = Absent]
        /\ pass' = [pass EXCEPT !.todo = [g \in DOMAIN @ \ {f} |-> @[g]]]
  BY DEF DeleteExcess
<1>2. f \in Fires
  BY TodoInFires
<1>3. Cardinality(Newer(f)) >= LeastKeep
  BY DEF RetentionInv
<1>4. LeastKeep \in Nat
  BY PassSpec, LeastKeepType DEF DeleteExcess
<1>5. f \notin Top
  <2>1. Cardinality(Newer(f)) \in Nat
    BY <1>2, NewerType, Sizes
  <2> QED
    BY <1>3, <1>4, <2>1 DEF Top
<1>6. api'.backups[f] = Absent /\ \A g \in Fires : g # f => api'.backups[g] = api.backups[g]
  BY <1>1, <1>2 DEF TypeOK, Objects, Backups
<1>7. Existing' = Existing \ {f}
  BY <1>6 DEF Existing
<1>8. Top \ Existing' = Top \ Existing
  BY <1>5, <1>7
<1>9. UNCHANGED <<now, cache, made, removed, tied, Made, Top>> /\ \A g : Newer(g)' = Newer(g)
  BY DEF DeleteExcess, history, Made, Top, Newer
<1>10. DOMAIN pass'.todo \subseteq DOMAIN pass.todo
  BY <1>1 DEF TypeOK, Passes
<1>11. CreatedInOrder'
  <2>1. \A g \in Existing' : api'.backups[g] = api.backups[g] /\ g \in Existing
    BY <1>6, <1>7 DEF Existing
  <2>2. CreatedInOrder
    BY DEF RetentionInv
  <2> QED
    BY <1>9, <2>1, <2>2 DEF CreatedInOrder
<1>12. RetentionInv'
  BY <1>8, <1>9, <1>10, <1>11 DEF RetentionInv
<1> QED
  BY <1>3, <1>7, <1>8, <1>12

\* What users remove may be missing at the top.
LEMMA RemoveRetention ==
  ASSUME TypeOK, RetentionInv, NEW f \in Fires, RemoveBackup(f)
  PROVE  RetentionInv'
<1>1. /\ UNCHANGED <<now, cache, pass, made, tied, Made, Top>>
      /\ removed' = removed + 1 /\ \A g : Newer(g)' = Newer(g)
  BY DEF RemoveBackup, Edit, Made, Top, Newer
<1> SUFFICES ASSUME ~tied PROVE RetentionInv'
  BY <1>1 DEF RetentionInv
<1>2. api'.backups[f] = Absent /\ \A g \in Fires : g # f => api'.backups[g] = api.backups[g]
  BY DEF RemoveBackup, TypeOK, Objects, Backups
<1>3. Existing' = Existing \ {f}
  BY <1>2 DEF Existing
<1>4. CreatedInOrder'
  <2>1. \A g \in Existing' : api'.backups[g] = api.backups[g] /\ g \in Existing
    BY <1>2, <1>3 DEF Existing
  <2>2. CreatedInOrder
    BY DEF RetentionInv
  <2> QED
    BY <1>1, <2>1, <2>2 DEF CreatedInOrder
<1>5. Cardinality(Top' \ Existing') <= removed'
  <2>1. Top \ Existing' \subseteq (Top \ Existing) \union {f}
    BY <1>3
  <2>2. Top \ Existing \in SUBSET Fires /\ (Top \ Existing) \union {f} \in SUBSET Fires
    BY NewerType
  <2>3. IsFiniteSet(Top \ Existing) /\ Cardinality(Top \ Existing) \in Nat
    BY <2>2, Sizes
  <2>4. Cardinality((Top \ Existing) \union {f}) <= Cardinality(Top \ Existing) + 1
    BY <2>3, FS_AddElement
  <2>5. /\ Cardinality(Top \ Existing') <= Cardinality((Top \ Existing) \union {f})
        /\ Cardinality(Top \ Existing') \in Nat
        /\ Cardinality((Top \ Existing) \union {f}) \in Nat
    BY <2>1, <2>2, Sizes
  <2>6. Cardinality(Top \ Existing) <= removed /\ removed \in Nat
    BY DEF RetentionInv, TypeOK
  <2> QED
    BY <1>1, <2>3, <2>4, <2>5, <2>6
<1> QED
  BY <1>1, <1>4, <1>5 DEF RetentionInv

\* A Backup that moves on or is retained stays the Backup it was.
LEMMA BackupChanged ==
  ASSUME TypeOK, NEW f \in Fires, Progress(f) \/ SetRetainForever(f)
  PROVE  /\ api.backups[f] \in Backup /\ api'.backups[f] \in Backup
         /\ api'.backups[f].created = api.backups[f].created
         /\ \A g \in Fires : g # f => api'.backups[g] = api.backups[g]
<1>1. api.backups[f] \in Backup
  BY DEF Progress, SetRetainForever, TypeOK, Objects, Backups
<1>2. PICK b \in Backup : b.created = api.backups[f].created /\ api' = [api EXCEPT !.backups[f] = b]
  <2>1. CASE Progress(f)
    <3>1. PICK p \in Phases : api' = [api EXCEPT !.backups[f].phase = p]
      BY <2>1 DEF Progress
    <3>2. p \in {"InProgress", "Ready", "Failed"}
      BY LimitsAssumption
    <3>3. [api.backups[f] EXCEPT !.phase = p] \in Backup
      BY <1>1, <3>2 DEF Backup
    <3>4. [api.backups[f] EXCEPT !.phase = p].created = api.backups[f].created
      BY <1>1 DEF Backup
    <3> QED
      BY <3>1, <3>3, <3>4
  <2>2. CASE SetRetainForever(f)
    <3>1. [api.backups[f] EXCEPT !.retain = ~@] \in Backup
      BY <1>1 DEF Backup
    <3>2. [api.backups[f] EXCEPT !.retain = ~@].created = api.backups[f].created
      BY <1>1 DEF Backup
    <3>3. api' = [api EXCEPT !.backups[f] = [api.backups[f] EXCEPT !.retain = ~@]]
      BY <2>2 DEF SetRetainForever
    <3> QED
      BY <3>1, <3>2, <3>3
  <2> QED
    BY <2>1, <2>2
<1> QED
  BY <1>1, <1>2 DEF TypeOK, Objects, Backups

LEMMA PassStepRetention ==
  ASSUME TypeOK, TypeOK', OrderInv, RetentionInv, PassStep PROVE RetentionInv'
<1>n. now \in Nat
  BY Numbers DEF TypeOK
<1>1. CASE Begin \/ InvalidSchedule \/ NotDue \/ RefreshStatus
  <2>1. UNCHANGED <<now, cache, history>> /\ api'.backups = api.backups
    BY <1>1 DEF Begin, InvalidSchedule, NotDue, RefreshStatus, TypeOK, Objects
  <2>2. pass'.todo = Nothing \/ pass'.todo = pass.todo
    <3>1. Idle.todo = Nothing
      BY DEF Idle
    <3>2. CASE Begin
      BY <3>1, <3>2 DEF Begin, Idle
    <3>3. CASE InvalidSchedule \/ RefreshStatus
      BY <3>1, <3>3 DEF InvalidSchedule, RefreshStatus, RequeueAfter, Retry
    <3>4. CASE NotDue
      BY <3>4 DEF NotDue, TypeOK, Passes
    <3> QED
      BY <1>1, <3>2, <3>3, <3>4
  <2>3. DOMAIN pass'.todo \subseteq DOMAIN pass.todo
    BY <2>2 DEF Nothing
  <2>4. Existing' = Existing
    BY <2>1 DEF Existing
  <2> QED
    BY <1>n, <2>1, <2>3, <2>4, QuietRetention
<1>2. CASE Spawn
  <2>1. /\ pass.pc = "Spawn" /\ Fire \in Fires /\ CreateBackup
        /\ UNCHANGED <<now, cache, removed>> /\ pass'.todo = pass.todo
    BY <1>2, FireType DEF Spawn, Due, TypeOK, Passes
  <2> QED
    BY <2>1, CreateRetention
<1>3. CASE ListExcess
  BY <1>3, ListRetention
<1>4. CASE DeleteExcess
  <2>1. tied' = tied
    BY <1>4 DEF DeleteExcess, history
  <2> QED
    BY <1>4, <2>1, DeleteRetention DEF RetentionInv
<1> QED
  BY <1>1, <1>2, <1>3, <1>4 DEF PassStep

LEMMA OtherStepRetention ==
  ASSUME TypeOK, TypeOK', OrderInv, RetentionInv, Next, ~PassStep PROVE RetentionInv'
<1>n. now \in Nat /\ now' \in Nat
  BY Numbers DEF TypeOK
<1>1. CASE Tick \/ TimerFires \/ SyncSchedule \/ SyncBackups
  <2>1. UNCHANGED <<pass, api, history>> /\ cache'.backups \in {cache.backups, api.backups}
        /\ now <= now'
    BY <1>n, <1>1 DEF Tick, TimerFires, SyncSchedule, SyncBackups, TypeOK, Objects
  <2>2. Existing' = Existing
    BY <2>1 DEF Existing
  <2> QED
    BY <1>n, <2>1, <2>2, QuietRetention
<1>2. ASSUME NEW f \in Fires, Progress(f) \/ SetRetainForever(f) PROVE RetentionInv'
  <2>1. UNCHANGED <<pass, cache, now, history>>
    BY <1>2 DEF Progress, SetRetainForever, Edit, history
  <2>2. /\ api.backups[f] # Absent /\ api'.backups[f] # Absent
        /\ api'.backups[f].created = api.backups[f].created
        /\ \A g \in Fires : g # f => api'.backups[g] = api.backups[g]
    BY <1>2, BackupChanged, AbsentAssumption
  <2>3. Existing' = Existing
    BY <2>2 DEF Existing
  <2>4. \A g \in Existing : api'.backups[g].created = api.backups[g].created
    BY <2>2 DEF Existing
  <2> QED
    BY <1>n, <2>1, <2>3, <2>4, QuietRetention
<1>3. ASSUME NEW s \in ScheduleSpecs, CreateSchedule(s) \/ EditSchedule(s)
      PROVE  RetentionInv'
  <2>1. UNCHANGED <<pass, cache, now, history>> /\ api'.backups = api.backups
    BY <1>3 DEF CreateSchedule, EditSchedule, Edit, history, TypeOK, Objects
  <2>2. Existing' = Existing
    BY <2>1 DEF Existing
  <2> QED
    BY <1>n, <2>1, <2>2, QuietRetention
<1>4. ASSUME NEW f \in Fires, RemoveBackup(f) PROVE RetentionInv'
  BY <1>4, RemoveRetention
<1>5. CASE SpawnFails
  <2>1. /\ pass.pc = "Spawn" /\ Fire \in Fires /\ pass'.todo = Nothing
        /\ UNCHANGED <<now, cache, removed>>
        /\ CreateBackup \/ UNCHANGED <<api, made, tied>>
    BY <1>5, FireType DEF SpawnFails, Due, RequeueAfter, Idle
  <2>2. DOMAIN pass'.todo \subseteq DOMAIN pass.todo
    BY <2>1 DEF Nothing
  <2>3. CASE CreateBackup
    BY <2>1, <2>2, <2>3, CreateRetention
  <2>4. CASE UNCHANGED <<api, made, tied>>
    <3>1. UNCHANGED history /\ Existing' = Existing
      BY <2>1, <2>4 DEF history, Existing
    <3> QED
      BY <1>n, <2>1, <2>2, <2>4, <3>1, QuietRetention
  <2> QED
    BY <2>1, <2>3, <2>4
<1>6. CASE DeleteFails \/ StatusUpdateFails \/ Restart
  <2>1. UNCHANGED <<now, api, history>> /\ cache'.backups \in {cache.backups, api.backups}
    BY <1>6 DEF DeleteFails, StatusUpdateFails, Restart
  <2>2. pass'.todo = Nothing
    BY <1>6 DEF DeleteFails, StatusUpdateFails, Restart, Retry, Idle, TypeOK, Passes
  <2>3. DOMAIN pass'.todo \subseteq DOMAIN pass.todo /\ Existing' = Existing
    BY <2>1, <2>2 DEF Nothing, Existing
  <2> QED
    BY <1>n, <2>1, <2>3, QuietRetention
<1> QED
  BY <1>1, <1>2, <1>3, <1>4, <1>5, <1>6 DEF Next, UserStep, FaultStep

\* While creation times differ, the newest fires are missing only where users
\* removed them, however stale the lists retention worked on.
THEOREM RetentionInvariant == Spec => []RetentionInv
<1>1. Init => RetentionInv
  <2> SUFFICES ASSUME Init PROVE RetentionInv
    OBVIOUS
  <2>1. Made = {} /\ Existing = {} /\ Top = {} /\ DOMAIN pass.todo = {} /\ removed = 0
    BY DEF Init, Made, Existing, Top, NoBackups, Idle, Nothing
  <2>2. CreatedInOrder
    BY <2>1, Numbers DEF Init, CreatedInOrder, NoBackups
  <2> QED
    BY <2>1, <2>2, FS_EmptySet DEF RetentionInv
<1>2. TypeOK /\ TypeOK' /\ OrderInv /\ RetentionInv /\ [Next]_vars => RetentionInv'
  <2> SUFFICES ASSUME TypeOK, TypeOK', OrderInv, RetentionInv, [Next]_vars
               PROVE  RetentionInv'
    OBVIOUS
  <2>1. CASE UNCHANGED vars
    BY <2>1 DEF vars, history, RetentionInv, CreatedInOrder, Top, Made, Newer, Existing
  <2> QED
    BY <2>1, PassStepRetention, OtherStepRetention
<1> QED
  BY <1>1, <1>2, TypeCorrect, OrderInvariant, PTL DEF Spec

\* Only retention deletes without a user's doing.
LEMMA OnlyDeleteExcessDeletes ==
  ASSUME TypeOK, [Next]_vars, NEW f \in Fires, Deletes(f)
  PROVE  DeleteExcess
<1>1. f \in Existing /\ f \notin Existing' /\ pass'.pc = "Retain" /\ pass.pc = "Retain"
  BY DEF Deletes
<1>2. api'.backups[f] = Absent /\ api.backups[f] # Absent
  BY <1>1 DEF Existing
<1>3. ~(UNCHANGED vars \/ Begin \/ NotDue \/ ListExcess \/ InvalidSchedule \/ RefreshStatus)
  BY <1>1, <1>2 DEF vars, Begin, NotDue, ListExcess, InvalidSchedule, RefreshStatus, TypeOK, Objects
<1>4. ~(Tick \/ TimerFires \/ SyncSchedule \/ SyncBackups \/ Spawn \/ FaultStep)
  BY <1>1, <1>2 DEF Tick, TimerFires, SyncSchedule, SyncBackups, Spawn, FaultStep, SpawnFails,
                    DeleteFails, StatusUpdateFails, Restart
<1>5. ASSUME NEW g \in Fires PROVE ~(Progress(g) \/ SetRetainForever(g))
  <2> SUFFICES ASSUME Progress(g) \/ SetRetainForever(g) PROVE FALSE
    OBVIOUS
  <2>1. api'.backups[f] = api.backups[f] \/ api'.backups[f] \in Backup
    BY BackupChanged
  <2> QED
    BY <1>2, <2>1, AbsentAssumption
<1>6. ASSUME NEW s \in ScheduleSpecs PROVE ~(CreateSchedule(s) \/ EditSchedule(s))
  BY <1>2 DEF CreateSchedule, EditSchedule, TypeOK, Objects
<1>7. ASSUME NEW g \in Fires PROVE ~RemoveBackup(g)
  BY DEF RemoveBackup, Deletes, TypeOK
<1> QED
  BY <1>3, <1>4, <1>5, <1>6, <1>7 DEF Next, PassStep, UserStep

\* Retention deletes none of the newest Backups, as many as the least keep of any
\* spec, and of these only those are missing that users deleted, as long as no two
\* Backups share a creation time.
THEOREM KeepIsRetained == Spec => RetainsKeepUntied
<1>1. ASSUME TypeOK, RetentionInv, [Next]_vars, NEW f \in Fires, Deletes(f), ~tied
      PROVE  /\ Cardinality(Newer(f)) >= LeastKeep
             /\ Cardinality(Top \ Existing') <= removed
  <2>1. DeleteExcess
    BY <1>1, OnlyDeleteExcessDeletes
  <2>2. /\ Top \ Existing' = Top \ Existing
        /\ \A g \in Existing \ Existing' : Cardinality(Newer(g)) >= LeastKeep
    BY <1>1, <2>1, DeleteRetention
  <2>3. f \in Existing \ Existing'
    BY <1>1 DEF Deletes
  <2>4. Cardinality(Top \ Existing) <= removed
    BY <1>1 DEF RetentionInv
  <2> QED
    BY <2>2, <2>3, <2>4
<1>2. TypeOK /\ RetentionInv /\ [Next]_vars =>
        [\A f \in Fires : (Deletes(f) /\ ~tied) =>
           /\ Cardinality(Newer(f)) >= LeastKeep
           /\ Cardinality(Top \ Existing') <= removed]_vars
  BY <1>1
<1> QED
  BY <1>2, TypeCorrect, RetentionInvariant, PTL DEF Spec, RetainsKeepUntied
=============================================================================
