------------------------- MODULE AirflowClusterProofs ------------------------
(***************************************************************************)
(* Theorems about AirflowCluster and their proofs, for any number of role  *)
(* groups, versions, authentication classes and faults.                    *)
(***************************************************************************)
EXTENDS AirflowCluster, ResourcesProofs

-----------------------------------------------------------------------------
(* The invariant every other proof rests on.                               *)

\* What the fields of a pass mean in each of its phases.
PassInv ==
    /\ queue \/ delayed => seen >= 1
    /\ next >= 1
    /\ pass = "idle" => snap = 0 /\ plan = <<>>
    /\ pass # "idle" => /\ snap \in 1..seen
                        /\ history[snap] # None
                        /\ todo \subseteq RoleGroupsOf(history[snap])
    /\ pass = "register" => next = 1
    /\ pass = "run" => AllRegistered
    /\ \A i \in 1..Len(plan) :
          /\ <<plan[i].role, plan[i].group>> \in RoleGroupsOf(history[snap])
          /\ history[snap].clusterConfig # None

\* Nothing newer than the cache has been applied, and nothing newer than the
\* version of the pass that runs.
AppliedInv ==
    \A k \in Key : /\ applied[k] <= seen
                   /\ pass # "idle" => applied[k] <= snap

\* A deletion is the last version.
HistoryInv ==
    /\ Len(history) >= 1
    /\ \A v \in Versions : history[v] = None => v = Len(history)

BaseInv == TypeOK /\ PassInv /\ AppliedInv /\ HistoryInv

\* Appending a version leaves the versions before it as they are.
LEMMA AppendVersion ==
    ASSUME NEW h \in Seq(Specs \cup {None}), NEW x \in Specs \cup {None}
    PROVE  /\ Append(h, x) \in Seq(Specs \cup {None})
           /\ Len(h) \in Nat
           /\ Len(Append(h, x)) = Len(h) + 1
           /\ \A v \in 1..Len(h) : Append(h, x)[v] = h[v]
BY AppendProperties, LenProperties

\* A version in the history that is not a deletion is a specification.
LEMMA InstanceType ==
    ASSUME BaseInv, pass # "idle"
    PROVE  /\ Instance \in AirflowClusterSpec
           /\ snap \in 1..Len(history)
<1>1. snap \in 1..Len(history) /\ history[snap] # None
  BY DEF BaseInv, TypeOK, PassInv
<1>2. history[snap] \in Specs \cup {None}
  BY <1>1, ElementOfSeq DEF BaseInv, TypeOK
<1> QED
  BY <1>1, <1>2, SpecsAssumption DEF Instance

\* The initial states.
LEMMA BaseInit == Init => BaseInv
<1> SUFFICES ASSUME Init PROVE BaseInv
  OBVIOUS
<1>1. PICK s \in Specs : history = <<s>>
  BY DEF Init
<1>2. history \in Seq(Specs \cup {None}) /\ Len(history) = 1
  BY <1>1
<1>3. classes \in [Classes -> ClassState]
  BY ClassesAssumption DEF Init
<1>4. plan \in Seq(Item) /\ Len(plan) = 0
  BY DEF Init
<1>5. TypeOK
  <2>1. /\ objects \in [Key -> Object \cup {Absent}]
        /\ copies \in [Key -> Object \cup {Absent}]
    BY DEF Init
  <2>2. /\ applied \in [Key -> 0..Len(history)]
        /\ previous \in [Key -> 0..Len(history)]
    BY <1>2 DEF Init
  <2>3. /\ seen \in 0..Len(history) /\ snap \in 0..Len(history)
        /\ next \in Nat /\ faults \in 0..MaxFaults
    BY <1>2, BoundsAssumption DEF Init
  <2>4. /\ queue \in BOOLEAN /\ delayed \in BOOLEAN /\ aggregator \in BOOLEAN
        /\ hasty \in BOOLEAN
    BY DEF Init
  <2>5. pass \in {"idle", "register", "run"} /\ todo \subseteq RoleGroup
    BY DEF Init
  <2> QED
    BY <1>2, <1>3, <1>4, <2>1, <2>2, <2>3, <2>4, <2>5 DEF TypeOK
<1>6. PassInv
  BY <1>4 DEF Init, PassInv
<1>7. AppliedInv
  BY DEF Init, AppliedInv
<1>8. HistoryInv
  BY <1>2 DEF HistoryInv, Versions
<1> QED
  BY <1>5, <1>6, <1>7, <1>8 DEF BaseInv

\* A pass that ends leaves the invariant in place, whatever it has written.
LEMMA BaseEndPass ==
    ASSUME BaseInv, EndPass, pass # "idle",
           UNCHANGED <<cluster, seen, copies, hasty>>,
           queue' \in BOOLEAN, delayed' \in BOOLEAN,
           faults' \in 0..MaxFaults,
           objects' \in [Key -> Object \cup {Absent}],
           applied' \in [Key -> 0..Len(history)],
           previous' \in [Key -> 0..Len(history)],
           \A k \in Key : applied'[k] <= snap
    PROVE  BaseInv'
<1>1. snap \in 1..seen /\ seen \in 0..Len(history) /\ Len(history) \in Nat
  BY LenProperties DEF BaseInv, TypeOK, PassInv
<1>2. /\ pass' = "idle" /\ snap' = 0 /\ todo' = {} /\ plan' = <<>>
      /\ next' = 1
  BY DEF EndPass
<1>3. plan' \in Seq(Item) /\ Len(plan') = 0 /\ plan' = <<>>
  BY <1>2
<1>4. TypeOK'
  BY <1>1, <1>2, <1>3 DEF BaseInv, TypeOK, cluster
<1>5. PassInv'
  BY <1>1, <1>2, <1>3 DEF PassInv, cluster
<1>6. AppliedInv'
  BY <1>1, <1>2 DEF AppliedInv, cluster, BaseInv, TypeOK
<1>7. HistoryInv'
  BY DEF BaseInv, HistoryInv, Versions, cluster
<1> QED
  BY <1>4, <1>5, <1>6, <1>7 DEF BaseInv

\* A step that leaves the history and the pass alone, and the cache of the
\* resource.
LEMMA BaseUnchangedPass ==
    ASSUME BaseInv, UNCHANGED <<history, local, seen, applied, previous>>,
           queue' \/ delayed' => queue \/ delayed,
           queue' \in BOOLEAN, delayed' \in BOOLEAN, hasty' \in BOOLEAN,
           classes' \in [Classes -> ClassState], aggregator' \in BOOLEAN,
           faults' \in 0..MaxFaults,
           objects' \in [Key -> Object \cup {Absent}],
           copies' \in [Key -> Object \cup {Absent}]
    PROVE  BaseInv'
<1>1. TypeOK'
  BY DEF BaseInv, TypeOK, local
<1>2. PassInv'
  BY DEF BaseInv, PassInv, AllRegistered, Instance, local
<1>3. AppliedInv' /\ HistoryInv'
  BY DEF BaseInv, AppliedInv, HistoryInv, Versions, local
<1> QED
  BY <1>1, <1>2, <1>3 DEF BaseInv

\* A new version at the end of the history.
LEMMA BaseNewVersion ==
    ASSUME BaseInv, NEW x \in Specs \cup {None}, history' = Append(history, x),
           ~Deleted,
           UNCHANGED <<seen, classes, aggregator, stored, copies, requests,
                       local, faults, hasty>>
    PROVE  BaseInv'
<1>1. /\ history' \in Seq(Specs \cup {None})
      /\ Len(history) \in Nat
      /\ Len(history') = Len(history) + 1
      /\ \A v \in 1..Len(history) : history'[v] = history[v]
  BY AppendVersion DEF BaseInv, TypeOK
<1>2. TypeOK'
  BY <1>1 DEF BaseInv, TypeOK, local, stored, requests
<1>3. pass # "idle" => history'[snap] = history[snap]
  BY <1>1 DEF BaseInv, TypeOK, PassInv
<1>4. plan # <<>> => history'[snap] = history[snap]
  BY <1>3 DEF BaseInv, PassInv
<1>5. PassInv'
  <2>1. \A i \in 1..Len(plan) : plan # <<>>
    BY DEF BaseInv, TypeOK
  <2> QED
    BY <1>3, <1>4, <2>1
       DEF BaseInv, PassInv, local, requests, AllRegistered, Instance
<1>6. AppliedInv'
  BY DEF BaseInv, AppliedInv, local, stored
<1>7. HistoryInv'
  <2>1. \A v \in 1..Len(history) : history[v] # None
    BY <1>1 DEF BaseInv, HistoryInv, Versions, Deleted, Last
  <2> QED
    BY <1>1, <2>1 DEF BaseInv, HistoryInv, Versions
<1> QED
  BY <1>2, <1>5, <1>6, <1>7 DEF BaseInv

\* StartReconcile takes up the version in the cache.
LEMMA BaseStart == BaseInv /\ StartReconcile => BaseInv'
<1> SUFFICES ASSUME BaseInv, StartReconcile PROVE BaseInv'
  OBVIOUS
<1>1. /\ pass = "idle" /\ queue /\ queue' = FALSE
      /\ UNCHANGED <<cluster, seen, stored, copies, delayed, faults>>
  BY DEF StartReconcile
<1>2. seen \in 1..Len(history) /\ Len(history) \in Nat
  BY <1>1, LenProperties DEF BaseInv, TypeOK, PassInv
<1>3. CASE history[seen] = None
  <2>1. UNCHANGED <<local, hasty>>
    BY <1>3 DEF StartReconcile
  <2> QED
    BY <1>1, <2>1, BaseUnchangedPass DEF BaseInv, TypeOK, cluster, stored
<1>4. CASE history[seen] # None
  <2>1. Begin(seen)
    BY <1>4 DEF StartReconcile
  <2>2. plan' \in Seq(Item) /\ Len(plan') = 0 /\ hasty' \in BOOLEAN
    BY <2>1 DEF Begin
  <2>3. TypeOK'
    BY <1>1, <1>2, <2>1, <2>2
       DEF BaseInv, TypeOK, Begin, cluster, stored, RoleGroupsOf
  <2>4. PassInv'
    BY <1>1, <1>2, <1>4, <2>1, <2>2 DEF PassInv, Begin, cluster
  <2>5. AppliedInv' /\ HistoryInv'
    BY <1>1, <2>1
       DEF BaseInv, AppliedInv, HistoryInv, Versions, Begin, cluster, stored
  <2> QED
    BY <2>3, <2>4, <2>5 DEF BaseInv
<1> QED
  BY <1>3, <1>4

\* What a role group is registered with.
LEMMA GroupAuthType ==
    ASSUME BaseInv, pass # "idle", GroupRegisters
    PROVE  GroupAuth \in AuthValue
<1>1. Instance.clusterConfig \in ClusterConfigSpec
  BY InstanceType DEF GroupRegisters, AirflowClusterSpec
<1>2. Instance.clusterConfig.authentication \in Seq(Entry)
  BY <1>1 DEF ClusterConfigSpec
<1>3. classes \in [Classes -> ClassState]
  BY DEF BaseInv, TypeOK
<1>4. NewAuthenticators(Instance.clusterConfig.authentication, classes)
        \in Seq(Authenticator)
  BY <1>2, <1>3, NewAuthenticatorsType DEF GroupRegisters
<1> QED
  BY <1>4 DEF GroupAuth, AuthValue

\* The plan after a group has been registered.
LEMMA RegisteredPlan ==
    ASSUME BaseInv, NEW r \in Role, NEW g \in Groups, RegisterGroup(r, g)
    PROVE  LET p == Reconcilers(r, g, GroupAuth)
           IN  /\ p \in Seq(Item) /\ plan \in Seq(Item) /\ plan' \in Seq(Item)
               /\ Len(plan) \in Nat /\ Len(p) \in Nat
               /\ Len(plan') = Len(plan) + Len(p)
               /\ \A i \in 1..Len(plan) : plan'[i] = plan[i]
               /\ \A i \in 1..Len(p) : plan'[Len(plan) + i] = p[i]
               /\ \A i \in Len(plan) + 1..Len(plan') :
                     plan'[i] = p[i - Len(plan)] /\ i - Len(plan) \in 1..Len(p)
<1> DEFINE p == Reconcilers(r, g, GroupAuth)
<1>1. p \in Seq(Item)
  BY GroupAuthType, ReconcilersProperties DEF RegisterGroup
<1>2. plan \in Seq(Item) /\ plan' = plan \o p
  BY DEF BaseInv, TypeOK, RegisterGroup
<1>3. Len(plan) \in Nat /\ Len(p) \in Nat
  BY <1>1, <1>2, LenProperties
<1> HIDE DEF p
<1>4. /\ plan' \in Seq(Item)
      /\ Len(plan') = Len(plan) + Len(p)
      /\ \A i \in 1..Len(plan) + Len(p) :
            plan'[i] = IF i <= Len(plan) THEN plan[i] ELSE p[i - Len(plan)]
  BY <1>1, <1>2, ConcatProperties
<1>5. \A i \in 1..Len(plan) : plan'[i] = plan[i]
  BY <1>3, <1>4
<1>6. \A i \in 1..Len(p) : plan'[Len(plan) + i] = p[i]
  BY <1>3, <1>4
<1>7. \A i \in Len(plan) + 1..Len(plan') :
        plan'[i] = p[i - Len(plan)] /\ i - Len(plan) \in 1..Len(p)
  BY <1>3, <1>4
<1> QED
  BY <1>1, <1>2, <1>3, <1>4, <1>5, <1>6, <1>7 DEF p

\* RegisterGroup adds the reconcilers of a declared role group.
LEMMA BaseRegister ==
    ASSUME BaseInv, NEW r \in Role, NEW g \in Groups, RegisterGroup(r, g)
    PROVE  BaseInv'
<1> DEFINE p == Reconcilers(r, g, GroupAuth)
<1>1. /\ pass = "register" /\ <<r, g>> \in todo /\ todo' = todo \ {<<r, g>>}
      /\ Instance.clusterConfig # None
      /\ UNCHANGED <<cluster, seen, stored, copies, requests, pass, snap, next,
                     faults, hasty>>
  BY DEF RegisterGroup, GroupRegisters
<1>2. \A i \in 1..Len(p) : p[i].role = r /\ p[i].group = g
  BY <1>1, GroupAuthType, ReconcilersProperties DEF RegisterGroup
<1>3. TypeOK'
  BY <1>1, RegisteredPlan DEF BaseInv, TypeOK, cluster, stored, requests
<1>4. \A i \in 1..Len(plan') :
         <<plan'[i].role, plan'[i].group>> \in RoleGroupsOf(history[snap])
  <2> SUFFICES ASSUME NEW i \in 1..Len(plan')
               PROVE  <<plan'[i].role, plan'[i].group>>
                        \in RoleGroupsOf(history[snap])
    OBVIOUS
  <2>1. CASE i \in 1..Len(plan)
    BY <2>1, RegisteredPlan DEF BaseInv, PassInv
  <2>2. CASE i \notin 1..Len(plan)
    <3>1. i \in Len(plan) + 1..Len(plan')
      BY <2>2, RegisteredPlan
    <3>2. plan'[i].role = r /\ plan'[i].group = g
      BY <1>2, <3>1, RegisteredPlan
    <3>3. <<r, g>> \in RoleGroupsOf(history[snap])
      BY <1>1 DEF BaseInv, PassInv
    <3> QED
      BY <3>2, <3>3
  <2> QED
    BY <2>1, <2>2
<1>5. PassInv'
  BY <1>1, <1>4 DEF BaseInv, PassInv, cluster, requests, Instance
<1>6. AppliedInv' /\ HistoryInv'
  BY <1>1 DEF BaseInv, AppliedInv, HistoryInv, Versions, cluster, stored
<1> QED
  BY <1>3, <1>5, <1>6 DEF BaseInv

\* The reconciler whose turn it is, while the pass walks over its plan.
LEMMA WalkingItem ==
    ASSUME BaseInv, Walking
    PROVE  /\ plan[next] \in Item
           /\ At \in Key
           /\ next \in 1..Len(plan) /\ Len(plan) \in Nat
           /\ snap \in 1..Len(history) /\ snap \in 1..seen
           /\ Wanted \in Object
<1>1. next \in 1..Len(plan) /\ Len(plan) \in Nat
  BY LenProperties DEF BaseInv, TypeOK, PassInv, Walking
<1>2. plan[next] \in Item
  BY <1>1, ElementOfSeq DEF BaseInv, TypeOK
<1>3. pass # "idle" /\ snap \in 1..seen
  BY DEF Walking, BaseInv, PassInv
<1>4. /\ <<plan[next].role, plan[next].group>> \in RoleGroupsOf(Instance)
      /\ Instance.clusterConfig # None
  BY <1>1 DEF BaseInv, PassInv, Instance
<1> QED
  BY <1>1, <1>2, <1>3, <1>4, InstanceType, ItemKeyType, BuildType DEF At, Wanted

\* Keeping an object moves on to the next reconciler.
LEMMA BaseKeep == BaseInv /\ KeepResource => BaseInv'
<1> SUFFICES ASSUME BaseInv, KeepResource PROVE BaseInv'
  OBVIOUS
<1>1. /\ next' = next + 1
      /\ UNCHANGED <<cluster, seen, stored, copies, requests, pass, snap, todo,
                     plan, faults, hasty>>
      /\ pass = "run"
  BY DEF KeepResource, Walking
<1>2. TypeOK'
  BY <1>1 DEF BaseInv, TypeOK, cluster, stored, requests
<1>3. PassInv'
  BY <1>1 DEF BaseInv, TypeOK, PassInv, cluster, requests, AllRegistered,
              Instance
<1>4. AppliedInv' /\ HistoryInv'
  BY <1>1 DEF BaseInv, AppliedInv, HistoryInv, Versions, cluster, stored
<1> QED
  BY <1>2, <1>3, <1>4 DEF BaseInv

\* Writing an object ends the pass.
LEMMA BaseWrite ==
    ASSUME BaseInv, Put, ComeBackLater \/ Retry, faults' \in 0..MaxFaults
    PROVE  BaseInv'
<1>1. /\ applied' = [applied EXCEPT ![At] = snap]
      /\ previous' = [previous EXCEPT ![At] = applied[At]]
      /\ objects' = [objects EXCEPT ![At] = Wanted]
      /\ EndPass /\ pass # "idle"
      /\ UNCHANGED <<cluster, seen, copies, hasty>>
  BY DEF Put, Differs, Walking, ComeBackLater, Retry
<1>2. At \in Key /\ Wanted \in Object /\ snap \in 1..Len(history)
  BY WalkingItem DEF Put, Differs
<1>3. /\ applied' \in [Key -> 0..Len(history)]
      /\ previous' \in [Key -> 0..Len(history)]
  BY <1>1, <1>2 DEF BaseInv, TypeOK
<1>4. objects' \in [Key -> Object \cup {Absent}]
  BY <1>1, <1>2 DEF BaseInv, TypeOK
<1>5. \A c \in Key : applied'[c] <= snap
  BY <1>1, <1>2 DEF BaseInv, TypeOK, AppliedInv
<1>6. queue' \in BOOLEAN /\ delayed' \in BOOLEAN
  BY DEF ComeBackLater, Retry, BaseInv, TypeOK
<1> QED
  BY <1>1, <1>3, <1>4, <1>5, <1>6, BaseEndPass

\* A pass that ends without having written anything.
LEMMA BaseQuietEnd ==
    ASSUME BaseInv, EndPass, pass # "idle",
           UNCHANGED <<cluster, seen, stored, copies, hasty>>,
           queue' \in BOOLEAN, delayed' \in BOOLEAN, faults' \in 0..MaxFaults
    PROVE  BaseInv'
<1>1. /\ objects' \in [Key -> Object \cup {Absent}]
      /\ applied' \in [Key -> 0..Len(history)]
      /\ previous' \in [Key -> 0..Len(history)]
      /\ \A k \in Key : applied'[k] <= snap
  BY DEF BaseInv, TypeOK, AppliedInv, stored
<1> QED
  BY <1>1, BaseEndPass

\* A restart loses the pass and keeps the cache at least as new.
LEMMA BaseRestart == BaseInv /\ Restart => BaseInv'
<1> SUFFICES ASSUME BaseInv, Restart PROVE BaseInv'
  OBVIOUS
<1>1. /\ faults < MaxFaults /\ faults' = faults + 1
      /\ seen' \in Versions /\ seen' >= seen
      /\ queue' \in BOOLEAN /\ delayed' = FALSE /\ copies' = objects
      /\ pass' = "idle" /\ snap' = 0 /\ todo' = {} /\ plan' = <<>> /\ next' = 1
      /\ UNCHANGED <<cluster, stored, hasty>>
  BY DEF Restart, EndPass
<1>2. plan' \in Seq(Item) /\ Len(plan') = 0 /\ Len(history) \in Nat
  BY <1>1, LenProperties DEF BaseInv, TypeOK
<1>3. seen' \in 1..Len(history)
  BY <1>1 DEF Versions
<1>4. faults' \in 0..MaxFaults
  BY <1>1, BoundsAssumption DEF BaseInv, TypeOK
<1>5. TypeOK'
  <2>1. /\ history' = history /\ classes' = classes /\ aggregator' = aggregator
        /\ objects' = objects /\ applied' = applied /\ previous' = previous
        /\ hasty' = hasty
    BY <1>1 DEF cluster, stored
  <2>2. queue' \in BOOLEAN /\ delayed' \in BOOLEAN
    BY <1>1
  <2> QED
    BY <1>1, <1>2, <1>3, <1>4, <2>1, <2>2 DEF BaseInv, TypeOK
<1>6. PassInv'
  BY <1>1, <1>2, <1>3 DEF PassInv
<1>7. AppliedInv'
  BY <1>1, <1>2, <1>3 DEF BaseInv, TypeOK, AppliedInv, stored
<1>8. HistoryInv'
  BY <1>1 DEF BaseInv, HistoryInv, Versions, cluster
<1> QED
  BY <1>5, <1>6, <1>7, <1>8 DEF BaseInv

\* The watch moves the cache forward.
LEMMA BaseDeliver == BaseInv /\ Deliver => BaseInv'
<1> SUFFICES ASSUME BaseInv, Deliver PROVE BaseInv'
  OBVIOUS
<1>1. /\ seen' \in seen + 1..Len(history) /\ queue' = TRUE
      /\ UNCHANGED <<cluster, stored, copies, delayed, local, faults, hasty>>
  BY DEF Deliver
<1>2. seen \in Nat /\ Len(history) \in Nat
  BY LenProperties DEF BaseInv, TypeOK
<1>3. TypeOK'
  BY <1>1, <1>2 DEF BaseInv, TypeOK, cluster, local, stored
<1>4. PassInv'
  BY <1>1, <1>2
     DEF BaseInv, TypeOK, PassInv, cluster, local, AllRegistered, Instance
<1>5. AppliedInv'
  BY <1>1, <1>2 DEF BaseInv, TypeOK, AppliedInv, local, stored
<1>6. HistoryInv'
  BY <1>1 DEF BaseInv, HistoryInv, Versions, cluster
<1> QED
  BY <1>3, <1>4, <1>5, <1>6 DEF BaseInv

\* Every step preserves the base invariant.
LEMMA BaseStep == BaseInv /\ [Next]_vars => BaseInv'
<1> SUFFICES ASSUME BaseInv, [Next]_vars PROVE BaseInv'
  OBVIOUS
<1>0. /\ faults < MaxFaults /\ faults' = faults + 1 => faults' \in 0..MaxFaults
      /\ faults \in 0..MaxFaults /\ queue \in BOOLEAN /\ delayed \in BOOLEAN
      /\ hasty \in BOOLEAN /\ aggregator \in BOOLEAN
      /\ classes \in [Classes -> ClassState]
      /\ objects \in [Key -> Object \cup {Absent}]
      /\ copies \in [Key -> Object \cup {Absent}]
  BY BoundsAssumption DEF BaseInv, TypeOK
<1>1. CASE UserEdit
  <2>1. PICK s \in Specs : history' = Append(history, s)
    BY <1>1 DEF UserEdit
  <2> QED
    BY <1>1, <2>1, BaseNewVersion DEF UserEdit
<1>2. CASE UserDelete
  BY <1>2, BaseNewVersion DEF UserDelete
<1>3. CASE EditClass
  <2>1. classes' \in [Classes -> ClassState]
    BY <1>0, <1>3, ClassesAssumption DEF EditClass, ClassState
  <2> QED
    BY <1>0, <1>3, <2>1, BaseUnchangedPass DEF EditClass, stored, requests
<1>4. CASE EditAggregator
  BY <1>0, <1>4, BaseUnchangedPass DEF EditAggregator, stored, requests
<1>5. CASE Deliver
  BY <1>5, BaseDeliver
<1>6. ASSUME NEW k \in Key, Sync(k) PROVE BaseInv'
  <2>1. copies' \in [Key -> Object \cup {Absent}]
    BY <1>0, <1>6 DEF Sync
  <2> QED
    BY <1>0, <1>6, <2>1, BaseUnchangedPass DEF Sync, cluster, stored, requests
<1>7. CASE GarbageCollect
  <2>1. PICK k \in Key : objects' = [objects EXCEPT ![k] = Absent]
    BY <1>7 DEF GarbageCollect
  <2>2. objects' \in [Key -> Object \cup {Absent}]
    BY <1>0, <2>1
  <2> QED
    BY <1>0, <1>7, <2>2, BaseUnchangedPass DEF GarbageCollect, cluster, requests
<1>8. CASE DelayOver \/ DelayTooShort
  BY <1>0, <1>8, BaseUnchangedPass
     DEF DelayOver, DelayTooShort, RequestComes, cluster, stored
<1>9. CASE Restart
  BY <1>9, BaseRestart
<1>10. CASE ApiError
  BY <1>0, <1>10, BaseQuietEnd DEF ApiError, Retry
<1>11. CASE StartReconcile
  BY <1>11, BaseStart
<1>12. ASSUME NEW r \in Role, NEW g \in Groups, RegisterGroup(r, g)
       PROVE  BaseInv'
  BY <1>12, BaseRegister
<1>13. CASE RegistrationFails \/ BuildFails \/ Conflict
  BY <1>0, <1>13, BaseQuietEnd
     DEF RegistrationFails, BuildFails, Conflict, Differs, Walking, Retry
<1>14. CASE RegistrationDone
  BY <1>14
     DEF RegistrationDone, BaseInv, TypeOK, PassInv, AppliedInv, HistoryInv,
         Versions, cluster, stored, requests, AllRegistered, Instance
<1>15. CASE KeepResource
  BY <1>15, BaseKeep
<1>16. CASE WriteResource \/ WriteAnswerLost
  BY <1>0, <1>16, BaseWrite DEF WriteResource, WriteAnswerLost
<1>17. CASE Finish \/ FinishNotReady
  BY <1>0, <1>17, BaseQuietEnd
     DEF Finish, FinishNotReady, WalkDone, ComeBackLater, requests
<1>18. CASE UNCHANGED vars
  BY <1>18
     DEF vars, BaseInv, TypeOK, PassInv, AppliedInv, HistoryInv, Versions,
         AllRegistered, Instance
<1> QED
  BY <1>1, <1>2, <1>3, <1>4, <1>5, <1>6, <1>7, <1>8, <1>9, <1>10, <1>11,
     <1>12, <1>13, <1>14, <1>15, <1>16, <1>17, <1>18
     DEF Next, Environment, PassStep, Fault

\* The base invariant holds in every reachable state.
THEOREM BaseInvariant == Spec => []BaseInv
BY BaseInit, BaseStep, PTL DEF Spec

\* Every variable keeps its type: what the four builders make is an object of
\* its kind and every reconciler of a plan belongs to the specification read.
THEOREM TypeCorrect == Spec => []TypeOK
<1>1. BaseInv => TypeOK
  BY DEF BaseInv
<1> QED
  BY <1>1, BaseInvariant, PTL

-----------------------------------------------------------------------------
(* What a step does to each part of the state.                             *)

\* The resource, the objects and the copies: a new version, a collected
\* object, a copy or all of them brought up to date, an object written.
LEMMA StoreStep ==
    ASSUME [Next]_vars
    PROVE  \/ UNCHANGED <<history, stored, copies>>
           \/ /\ ~Deleted
              /\ \E x \in Specs \cup {None} : history' = Append(history, x)
              /\ UNCHANGED <<stored, copies>>
           \/ GarbageCollect
           \/ \E k \in Key : Sync(k)
           \/ copies' = objects /\ UNCHANGED <<history, stored>>
           \/ Put
BY DEF Next, Environment, PassStep, Fault, vars, cluster, stored, UserEdit,
       UserDelete, EditClass, EditAggregator, Deliver, DelayOver, DelayTooShort,
       RequestComes, Restart, ApiError, StartReconcile, RegisterGroup,
       RegistrationFails, RegistrationDone, BuildFails, KeepResource,
       WriteResource, WriteAnswerLost, Conflict, Finish, FinishNotReady

\* What has been put: nothing, or the object whose turn it is.
LEMMA AppliedStep ==
    ASSUME [Next]_vars
    PROVE  UNCHANGED <<applied, previous>> \/ Put
BY StoreStep DEF stored, GarbageCollect, Sync

\* No step takes an object back to an older version.
LEMMA RollbackStep ==
    BaseInv /\ [Next]_vars => \A k \in Key : applied'[k] >= applied[k]
<1> SUFFICES ASSUME BaseInv, [Next]_vars, NEW k \in Key
             PROVE  applied'[k] >= applied[k]
  OBVIOUS
<1>1. applied \in [Key -> Nat] /\ snap \in Nat
  BY DEF BaseInv, TypeOK
<1>2. CASE applied' = applied
  BY <1>1, <1>2
<1>3. CASE Put
  <2>1. applied[k] <= snap /\ applied' = [applied EXCEPT ![At] = snap]
    BY <1>3 DEF BaseInv, AppliedInv, Put, Differs, Walking
  <2> QED
    BY <1>1, <2>1
<1> QED
  BY <1>2, <1>3, AppliedStep

\* Whatever restarts, errors and delays of the cache do, the version an object
\* has been put at never decreases.
THEOREM NoRollbackHolds == Spec => NoRollback
<1>1. BaseInv /\ [Next]_vars => [\A k \in Key : applied'[k] >= applied[k]]_applied
  BY RollbackStep
<1> QED
  BY <1>1, BaseInvariant, PTL DEF Spec, NoRollback

\* The history only grows, and not after a deletion.
LEMMA HistoryStep ==
    ASSUME BaseInv, [Next]_vars
    PROVE  /\ \A v \in 1..Len(history) : history'[v] = history[v]
           /\ Len(history) \in Nat
           /\ Len(history') >= Len(history)
           /\ Deleted => history' = history
<1>1. Len(history) \in Nat
  BY LenProperties DEF BaseInv, TypeOK
<1>2. ASSUME NEW x \in Specs \cup {None}, history' = Append(history, x)
      PROVE  /\ \A v \in 1..Len(history) : history'[v] = history[v]
             /\ Len(history') >= Len(history)
  BY <1>1, <1>2, AppendVersion DEF BaseInv, TypeOK
<1>3. \/ history' = history
      \/ ~Deleted /\ \E x \in Specs \cup {None} : history' = Append(history, x)
  BY StoreStep DEF GarbageCollect, Sync, Put, cluster
<1> QED
  BY <1>1, <1>2, <1>3

\* What a step does to the plan.
LEMMA PlanStep ==
    ASSUME BaseInv, [Next]_vars
    PROVE  \/ pass' = "idle" /\ plan' = <<>>
           \/ /\ pass' = "register" /\ plan' = <<>>
              /\ todo' = RoleGroupsOf(Instance')
           \/ /\ UNCHANGED <<plan, todo, snap>>
              /\ pass' = "idle" <=> pass = "idle"
           \/ \E r \in Role, g \in Groups : RegisterGroup(r, g)
BY DEF Next, Environment, PassStep, Fault, vars, cluster, local, UserEdit,
       UserDelete, EditClass, EditAggregator, Deliver, Sync, GarbageCollect,
       DelayOver, DelayTooShort, RequestComes, Restart, ApiError,
       StartReconcile, Begin, Instance, RegistrationFails, RegistrationDone,
       BuildFails, KeepResource, WriteResource, WriteAnswerLost, Conflict, Put,
       Finish, FinishNotReady, Retry, ComeBackLater, EndPass

\* What a step does to the walk over the plan.
LEMMA WalkStep ==
    ASSUME BaseInv, [Next]_vars
    PROVE  \/ next' = 1
           \/ UNCHANGED <<plan, next, snap, applied, previous>>
           \/ KeepResource
BY DEF BaseInv, PassInv, Next, Environment, PassStep, Fault, vars, cluster,
       local, stored, UserEdit, UserDelete, EditClass, EditAggregator, Deliver,
       Sync, GarbageCollect, DelayOver, DelayTooShort, RequestComes, Restart,
       ApiError, StartReconcile, Begin, RegisterGroup, RegistrationFails,
       RegistrationDone, BuildFails, WriteResource, WriteAnswerLost, Conflict,
       Put, Finish, FinishNotReady, Retry, ComeBackLater, EndPass

-----------------------------------------------------------------------------
(* What the plan of a pass looks like, and how far the pass has come.      *)

\* The ConfigMap of a role group comes before its StatefulSet.
ConfigFirst ==
    \A i \in 1..Len(plan) : plan[i].kind = "statefulset" =>
        \E j \in 1..i - 1 :
            ItemKey(plan[j]) = KeyOf("ConfigMap", plan[i].role, plan[i].group)

\* Every object of a registered role group has a reconciler.
PlanComplete ==
    pass # "idle" =>
        \A rg \in RoleGroupsOf(Instance) \ todo, kind \in ObjectKind :
            \E i \in 1..Len(plan) : ItemKey(plan[i]) = KeyOf(kind, rg[1], rg[2])

\* The objects of a role come after those of the roles before it.
RolesRanked ==
    \A i \in 1..Len(plan), q \in Role, g \in Groups, kind \in ObjectKind :
        /\ Rank[q] < Rank[plan[i].role]
        /\ <<q, g>> \in RoleGroupsOf(Instance)
        => \E j \in 1..i - 1 : ItemKey(plan[j]) = KeyOf(kind, q, g)

FlappingItem(i) == plan[i].kind = "metrics" /\ plan[i].role = "webservers"

\* The metrics service of a webserver group follows the service of that group.
ServicesTwinned ==
    \A i \in 1..Len(plan) : FlappingItem(i) =>
        /\ i > 1
        /\ plan[i - 1].kind = "service"
        /\ ItemKey(plan[i - 1]) = ItemKey(plan[i])

\* A registered webserver group has a metrics service.
WebserversFlap ==
    pass # "idle" =>
        \A g \in Groups :
            <<"webservers", g>> \in RoleGroupsOf(Instance) \ todo
            => \E i \in 1..Len(plan) : FlappingItem(i)

PlanInv == /\ ConfigFirst
           /\ PlanComplete
           /\ RolesRanked
           /\ ServicesTwinned
           /\ WebserversFlap

\* The instance of a pass does not change under it.
LEMMA InstanceStep ==
    ASSUME BaseInv, [Next]_vars, snap' = snap, pass # "idle"
    PROVE  Instance' = Instance
BY HistoryStep, InstanceType DEF Instance

\* Registering a group keeps the shape of the plan.
LEMMA PlanRegister ==
    ASSUME BaseInv, PlanInv, NEW r \in Role, NEW g \in Groups,
           RegisterGroup(r, g)
    PROVE  PlanInv'
<1> DEFINE p == Reconcilers(r, g, GroupAuth)
<1>1. /\ pass = "register" /\ pass' = pass /\ <<r, g>> \in todo
      /\ todo' = todo \ {<<r, g>>} /\ Turn(r) /\ Instance' = Instance
  BY DEF RegisterGroup, cluster, Instance
<1>2. /\ Len(p) = IF r = "webservers" THEN 4 ELSE 3
      /\ \A i \in 1..Len(p) : p[i].role = r /\ p[i].group = g
      /\ p[1].kind = "configmap" /\ p[2].kind = "statefulset"
      /\ r # "webservers" => p[3].kind = "metrics"
      /\ r = "webservers" => p[3].kind = "service" /\ p[4].kind = "metrics"
  BY <1>1, GroupAuthType, ReconcilersProperties DEF RegisterGroup
<1>3. /\ Len(plan) \in Nat /\ Len(p) \in Nat
      /\ Len(plan') = Len(plan) + Len(p)
      /\ \A i \in 1..Len(plan) : plan'[i] = plan[i]
      /\ \A i \in 1..Len(p) : plan'[Len(plan) + i] = p[i]
      /\ \A i \in Len(plan) + 1..Len(plan') :
            plan'[i] = p[i - Len(plan)] /\ i - Len(plan) \in 1..Len(p)
  BY RegisteredPlan
<1> HIDE DEF p
<1>4. \A kind \in ObjectKind : \E i \in 1..Len(p) :
         ItemKey(p[i]) = KeyOf(kind, r, g)
  <2>1. ItemKey(p[1]) = KeyOf("ConfigMap", r, g)
    BY <1>2 DEF ItemKey, ObjectKindOf
  <2>2. ItemKey(p[2]) = KeyOf("StatefulSet", r, g)
    BY <1>2 DEF ItemKey, ObjectKindOf
  <2>3. ItemKey(p[3]) = KeyOf("Service", r, g)
    BY <1>2 DEF ItemKey, ObjectKindOf
  <2> QED
    BY <1>2, <2>1, <2>2, <2>3 DEF ObjectKind
<1>5. ConfigFirst'
  <2> SUFFICES ASSUME NEW i \in 1..Len(plan'), plan'[i].kind = "statefulset"
               PROVE  \E j \in 1..i - 1 : ItemKey(plan'[j]) =
                         KeyOf("ConfigMap", plan'[i].role, plan'[i].group)
    BY DEF ConfigFirst, ItemKey
  <2>1. CASE i \in 1..Len(plan)
    <3>1. PICK j \in 1..i - 1 :
             ItemKey(plan[j]) = KeyOf("ConfigMap", plan[i].role, plan[i].group)
      BY <1>3, <2>1 DEF PlanInv, ConfigFirst
    <3> QED
      BY <1>3, <2>1, <3>1
  <2>2. CASE i \notin 1..Len(plan)
    <3>1. i \in Len(plan) + 1..Len(plan')
      BY <1>3, <2>2
    <3>2. plan'[i] = p[i - Len(plan)] /\ i - Len(plan) \in 1..Len(p)
      BY <1>3, <3>1
    <3>3. i - Len(plan) # 1
      BY <1>2, <3>2
    <3>4. plan'[Len(plan) + 1] = p[1] /\ Len(plan) + 1 \in 1..i - 1
      BY <1>2, <1>3, <3>1, <3>3
    <3> QED
      BY <1>2, <3>2, <3>4 DEF ItemKey, ObjectKindOf
  <2> QED
    BY <2>1, <2>2
<1>6. PlanComplete'
  <2> SUFFICES ASSUME NEW rg \in RoleGroupsOf(Instance) \ todo',
                      NEW kind \in ObjectKind
               PROVE  \E i \in 1..Len(plan') :
                         ItemKey(plan'[i]) = KeyOf(kind, rg[1], rg[2])
    BY <1>1 DEF PlanComplete, ItemKey
  <2>1. CASE rg = <<r, g>>
    <3>1. PICK i \in 1..Len(p) : ItemKey(p[i]) = KeyOf(kind, r, g)
      BY <1>4
    <3> QED
      BY <1>3, <2>1, <3>1
  <2>2. CASE rg # <<r, g>>
    <3>1. PICK i \in 1..Len(plan) :
             ItemKey(plan[i]) = KeyOf(kind, rg[1], rg[2])
      BY <1>1, <2>2 DEF PlanInv, PlanComplete
    <3> QED
      BY <1>3, <3>1
  <2> QED
    BY <2>1, <2>2
<1>7. RolesRanked'
  <2> SUFFICES ASSUME NEW i \in 1..Len(plan'), NEW q \in Role,
                      NEW h \in Groups, NEW kind \in ObjectKind,
                      Rank[q] < Rank[plan'[i].role],
                      <<q, h>> \in RoleGroupsOf(Instance)
               PROVE  \E j \in 1..i - 1 : ItemKey(plan'[j]) = KeyOf(kind, q, h)
    BY <1>1 DEF RolesRanked, ItemKey
  <2>1. CASE i \in 1..Len(plan)
    <3>1. PICK j \in 1..i - 1 : ItemKey(plan[j]) = KeyOf(kind, q, h)
      BY <1>3, <2>1 DEF PlanInv, RolesRanked
    <3> QED
      BY <1>3, <2>1, <3>1
  <2>2. CASE i \notin 1..Len(plan)
    <3>1. i \in Len(plan) + 1..Len(plan') /\ plan'[i].role = r
      BY <1>2, <1>3, <2>2
    <3>2. <<q, h>> \notin todo
      BY <1>1, <3>1 DEF Turn
    <3>3. PICK j \in 1..Len(plan) : ItemKey(plan[j]) = KeyOf(kind, q, h)
      BY <1>1, <3>2 DEF PlanInv, PlanComplete
    <3> QED
      BY <1>3, <3>1, <3>3
  <2> QED
    BY <2>1, <2>2
<1>8. ServicesTwinned'
  <2> SUFFICES ASSUME NEW i \in 1..Len(plan'), plan'[i].kind = "metrics",
                      plan'[i].role = "webservers"
               PROVE  /\ i > 1
                      /\ plan'[i - 1].kind = "service"
                      /\ ItemKey(plan'[i - 1]) = ItemKey(plan'[i])
    BY DEF ServicesTwinned, FlappingItem, ItemKey
  <2>1. CASE i \in 1..Len(plan)
    <3>1. plan'[i] = plan[i]
      BY <1>3, <2>1
    <3>2. /\ i > 1 /\ plan[i - 1].kind = "service"
          /\ ItemKey(plan[i - 1]) = ItemKey(plan[i])
      BY <2>1, <3>1 DEF PlanInv, ServicesTwinned, FlappingItem
    <3>3. plan'[i - 1] = plan[i - 1]
      BY <1>3, <2>1, <3>2
    <3> QED
      BY <3>1, <3>2, <3>3
  <2>2. CASE i \notin 1..Len(plan)
    <3>1. i \in Len(plan) + 1..Len(plan')
      BY <1>3, <2>2
    <3>2. r = "webservers" /\ i - Len(plan) = 4
      BY <1>2, <1>3, <3>1
    <3>3. i - 1 = Len(plan) + 3 /\ plan'[i - 1] = p[3] /\ plan'[i] = p[4]
      BY <1>2, <1>3, <3>1, <3>2
    <3>4. p[3].kind = "service" /\ p[4].kind = "metrics"
          /\ p[3].role = p[4].role /\ p[3].group = p[4].group
      BY <1>2, <3>2
    <3> QED
      BY <1>3, <3>1, <3>3, <3>4 DEF ItemKey, ObjectKindOf
  <2> QED
    BY <2>1, <2>2
<1>9. WebserversFlap'
  <2> SUFFICES ASSUME NEW h \in Groups,
                      <<"webservers", h>> \in RoleGroupsOf(Instance) \ todo'
               PROVE  \E i \in 1..Len(plan') : /\ plan'[i].kind = "metrics"
                                              /\ plan'[i].role = "webservers"
    BY <1>1 DEF WebserversFlap, FlappingItem
  <2>1. CASE <<"webservers", h>> = <<r, g>>
    <3>1. plan'[Len(plan) + 4] = p[4] /\ Len(plan) + 4 \in 1..Len(plan')
      BY <1>2, <1>3, <2>1
    <3> QED
      BY <1>2, <2>1, <3>1
  <2>2. CASE <<"webservers", h>> # <<r, g>>
    <3>1. PICK i \in 1..Len(plan) : FlappingItem(i)
      BY <1>1, <2>2 DEF PlanInv, WebserversFlap
    <3> QED
      BY <1>3, <3>1 DEF FlappingItem
  <2> QED
    BY <2>1, <2>2
<1> QED
  BY <1>5, <1>6, <1>7, <1>8, <1>9 DEF PlanInv

\* Every step keeps the shape of the plan.
LEMMA PlanInvStep == BaseInv /\ PlanInv /\ [Next]_vars => PlanInv'
<1> SUFFICES ASSUME BaseInv, PlanInv, [Next]_vars PROVE PlanInv'
  OBVIOUS
<1>1. CASE plan' = <<>> /\ pass' = "idle"
  <2>1. Len(plan') = 0
    BY <1>1
  <2> QED
    BY <1>1, <2>1
       DEF PlanInv, ConfigFirst, PlanComplete, RolesRanked, ServicesTwinned,
           WebserversFlap
<1>2. CASE /\ pass' = "register" /\ plan' = <<>>
           /\ todo' = RoleGroupsOf(Instance')
  <2>1. Len(plan') = 0
    BY <1>2
  <2> QED
    BY <1>2, <2>1
       DEF PlanInv, ConfigFirst, PlanComplete, RolesRanked, ServicesTwinned,
           WebserversFlap
<1>3. CASE /\ UNCHANGED <<plan, todo, snap>>
           /\ pass' = "idle" <=> pass = "idle"
  <2>1. CASE pass = "idle"
    <3>1. plan = <<>> /\ plan' = <<>> /\ Len(plan') = 0 /\ pass' = "idle"
      BY <1>3, <2>1 DEF BaseInv, PassInv
    <3> QED
      BY <3>1
         DEF PlanInv, ConfigFirst, PlanComplete, RolesRanked, ServicesTwinned,
             WebserversFlap
  <2>2. CASE pass # "idle"
    <3>1. Instance' = Instance
      BY <1>3, <2>2, InstanceStep
    <3> QED
      BY <1>3, <2>2, <3>1
         DEF PlanInv, ConfigFirst, PlanComplete, RolesRanked, ServicesTwinned,
             WebserversFlap, FlappingItem, ItemKey
  <2> QED
    BY <2>1, <2>2
<1>4. CASE \E r \in Role, g \in Groups : RegisterGroup(r, g)
  BY <1>4, PlanRegister
<1> QED
  BY <1>1, <1>2, <1>3, <1>4, PlanStep

-----------------------------------------------------------------------------
(* What the objects and their copies show.                                 *)

\* What x shows under key k is what version v asks for.
Showing(k, x, v) == v > 0 /\ Shows(k, x) = Asks(history[v], k)

\* An object shows the version it was last put at, a copy that one or the one
\* before, and only the deletion of the resource takes objects away.
CopyInv ==
    \A k \in Key :
        /\ objects[k] # Absent => Showing(k, objects[k], applied[k])
        /\ copies[k] # Absent => \/ Showing(k, copies[k], applied[k])
                                 \/ Showing(k, copies[k], previous[k])
        /\ ~Deleted /\ applied[k] > 0 => objects[k] # Absent

\* Specification s can be rolled out, and asks for object k.
SoundFor(k, s) ==
    /\ s \in Specs
    /\ s # None
    /\ s.clusterConfig # None
    /\ \A r \in Role : s.roles[r] # None
    /\ k \in DesiredKeys(s)

\* So do the versions an object has been put at.
SoundInv ==
    \A k \in Key : /\ applied[k] > 0 => SoundFor(k, history[applied[k]])
                   /\ previous[k] > 0 => SoundFor(k, history[previous[k]])

\* What the pass has gone past is as its version asks, or was until its last
\* write.
Walked ==
    \A j \in 1..next - 1 : j <= Len(plan) => Met(ItemKey(plan[j]), snap)

\* What the reconcilers build is what they are asked for.
LEMMA ShowsBuilt ==
    ASSUME NEW item \in Item, NEW s
    PROVE  Shows(ItemKey(item), Build(item, s)) = Asks(s, ItemKey(item))
<1>1. ItemKey(item).role = item.role /\ ItemKey(item).group = item.group
  BY DEF ItemKey, KeyOf
<1>2. CASE item.kind = "configmap"
  <2>1. ItemKey(item).kind = "ConfigMap"
    BY <1>2 DEF ItemKey, KeyOf, ObjectKindOf
  <2> QED
    BY <1>1, <1>2, <2>1 DEF Build, BuildConfigMap, Shows, Asks
<1>3. CASE item.kind = "statefulset"
  <2>1. ItemKey(item).kind = "StatefulSet"
    BY <1>3 DEF ItemKey, KeyOf, ObjectKindOf
  <2> QED
    BY <1>1, <1>3, <2>1 DEF Build, Shows, Asks
<1>4. CASE item.kind \in {"service", "metrics"}
  <2>1. ItemKey(item).kind = "Service"
    BY <1>4 DEF ItemKey, KeyOf, ObjectKindOf
  <2> QED
    BY <2>1 DEF Shows, Asks
<1> QED
  BY <1>2, <1>3, <1>4 DEF Item, ItemKind

\* The object whose turn it is: what it is to be is an object and shows the
\* version of the pass.
LEMMA WantedShows ==
    ASSUME BaseInv, Walking
    PROVE  /\ At \in Key /\ Wanted # Absent /\ Wanted \in Object
           /\ snap > 0 /\ snap \in 1..Len(history)
           /\ Showing(At, Wanted, snap)
<1>1. /\ plan[next] \in Item /\ At \in Key /\ Wanted \in Object
      /\ snap \in 1..Len(history)
  BY WalkingItem
<1>2. Shows(At, Wanted) = Asks(history[snap], At)
  BY <1>1, ShowsBuilt DEF At, Wanted, Instance
<1> QED
  BY <1>1, <1>2, AbsentAssumption DEF Showing

\* A write leaves in the API server what the version of the pass asks for, and
\* in the cache what was there before.
LEMMA CopyPut == BaseInv /\ CopyInv /\ Put => CopyInv'
<1> SUFFICES ASSUME BaseInv, CopyInv, Put, NEW k \in Key
             PROVE  /\ objects'[k] # Absent => Showing(k, objects[k], applied[k])'
                    /\ copies'[k] # Absent =>
                          \/ Showing(k, copies[k], applied[k])'
                          \/ Showing(k, copies[k], previous[k])'
                    /\ ~Deleted' /\ applied'[k] > 0 => objects'[k] # Absent
  BY DEF CopyInv
<1>1. /\ At \in Key /\ Wanted # Absent /\ Showing(At, Wanted, snap)
  BY WantedShows DEF Put, Differs
<1>2. /\ objects' = [objects EXCEPT ![At] = Wanted]
      /\ applied' = [applied EXCEPT ![At] = snap]
      /\ previous' = [previous EXCEPT ![At] = applied[At]]
      /\ copies[At] = objects[At]
      /\ copies' = copies /\ history' = history
  BY DEF Put, cluster
<1>3. /\ objects \in [Key -> Object \cup {Absent}]
      /\ applied \in [Key -> 0..Len(history)]
      /\ previous \in [Key -> 0..Len(history)]
  BY DEF BaseInv, TypeOK
<1>4. CASE k = At
  <2>1. objects'[k] = Wanted /\ applied'[k] = snap /\ previous'[k] = applied[k]
    BY <1>1, <1>2, <1>3, <1>4
  <2> QED
    BY <1>1, <1>2, <1>4, <2>1 DEF CopyInv, Showing
<1>5. CASE k # At
  <2>1. /\ objects'[k] = objects[k] /\ applied'[k] = applied[k]
        /\ previous'[k] = previous[k]
    BY <1>1, <1>2, <1>3, <1>5
  <2> QED
    BY <1>2, <2>1 DEF CopyInv, Showing, Deleted, Last
<1> QED
  BY <1>4, <1>5

\* Every step keeps objects and copies at the versions recorded for them.
LEMMA CopyInvStep == BaseInv /\ CopyInv /\ [Next]_vars => CopyInv'
<1> SUFFICES ASSUME BaseInv, CopyInv, [Next]_vars PROVE CopyInv'
  OBVIOUS
<1>1. /\ \A v \in 1..Len(history) : history'[v] = history[v]
      /\ applied \in [Key -> 0..Len(history)]
      /\ previous \in [Key -> 0..Len(history)]
      /\ Len(history) \in Nat
      /\ Deleted => Deleted'
  BY HistoryStep DEF BaseInv, TypeOK, Deleted, Last
<1>2. ASSUME NEW k \in Key, NEW x, NEW v \in 0..Len(history), Showing(k, x, v)
      PROVE  v > 0 /\ Shows(k, x) = Asks(history'[v], k)
  BY <1>1, <1>2 DEF Showing
<1>3. ASSUME UNCHANGED <<applied, previous>>,
             \A k \in Key : /\ objects'[k] \in {objects[k], Absent}
                            /\ objects'[k] # objects[k] => Deleted
                            /\ copies'[k] \in {copies[k], objects[k]}
      PROVE  CopyInv'
  <2> SUFFICES ASSUME NEW k \in Key
               PROVE  /\ objects'[k] # Absent =>
                            Showing(k, objects[k], applied[k])'
                      /\ copies'[k] # Absent =>
                            \/ Showing(k, copies[k], applied[k])'
                            \/ Showing(k, copies[k], previous[k])'
                      /\ ~Deleted' /\ applied'[k] > 0 => objects'[k] # Absent
    BY DEF CopyInv
  <2>1. applied[k] \in 0..Len(history) /\ previous[k] \in 0..Len(history)
    BY <1>1
  <2>2. objects'[k] # Absent => Showing(k, objects[k], applied[k])'
    BY <1>2, <1>3, <2>1 DEF CopyInv, Showing
  <2>3. copies'[k] # Absent => \/ Showing(k, copies'[k], applied[k])
                               \/ Showing(k, copies'[k], previous[k])
    BY <1>3 DEF CopyInv
  <2>4. copies'[k] # Absent => \/ Showing(k, copies[k], applied[k])'
                               \/ Showing(k, copies[k], previous[k])'
    BY <1>2, <1>3, <2>1, <2>3 DEF Showing
  <2>5. ~Deleted' /\ applied'[k] > 0 => objects'[k] # Absent
    BY <1>1, <1>3 DEF CopyInv
  <2> QED
    BY <2>2, <2>4, <2>5
<1>4. CASE UNCHANGED <<history, stored, copies>>
  BY <1>3, <1>4 DEF stored
<1>5. CASE UNCHANGED <<stored, copies>>
  BY <1>3, <1>5 DEF stored
<1>6. CASE GarbageCollect
  <2>1. PICK c \in Key : objects' = [objects EXCEPT ![c] = Absent]
    BY <1>6 DEF GarbageCollect
  <2>2. \A k \in Key : objects'[k] \in {objects[k], Absent}
    BY <2>1 DEF BaseInv, TypeOK
  <2> QED
    BY <1>3, <1>6, <2>2 DEF GarbageCollect
<1>7. ASSUME NEW c \in Key, Sync(c) PROVE CopyInv'
  <2>1. \A k \in Key : copies'[k] \in {copies[k], objects[k]}
    BY <1>7 DEF Sync, BaseInv, TypeOK
  <2> QED
    BY <1>3, <1>7, <2>1 DEF Sync, stored
<1>8. CASE copies' = objects /\ UNCHANGED <<history, stored>>
  BY <1>3, <1>8 DEF stored
<1>9. CASE Put
  BY <1>9, CopyPut
<1> QED
  BY <1>4, <1>5, <1>6, <1>7, <1>8, <1>9, StoreStep

\* Every step puts objects only at versions that can be rolled out.
LEMMA SoundInvStep == BaseInv /\ SoundInv /\ [Next]_vars => SoundInv'
<1> SUFFICES ASSUME BaseInv, SoundInv, [Next]_vars, NEW k \in Key
             PROVE  /\ applied'[k] > 0 => SoundFor(k, history'[applied'[k]])
                    /\ previous'[k] > 0 => SoundFor(k, history'[previous'[k]])
  BY DEF SoundInv, SoundFor
<1>1. /\ \A v \in 1..Len(history) : history'[v] = history[v]
      /\ applied \in [Key -> 0..Len(history)]
      /\ previous \in [Key -> 0..Len(history)]
      /\ Len(history) \in Nat
  BY HistoryStep DEF BaseInv, TypeOK
<1>2. /\ applied[k] > 0 => SoundFor(k, history'[applied[k]])
      /\ previous[k] > 0 => SoundFor(k, history'[previous[k]])
  BY <1>1 DEF SoundInv
<1>3. CASE UNCHANGED <<applied, previous>>
  BY <1>2, <1>3
<1>4. CASE Put
  <2>1. /\ applied' = [applied EXCEPT ![At] = snap]
        /\ previous' = [previous EXCEPT ![At] = applied[At]]
        /\ Walking /\ pass = "run"
    BY <1>4 DEF Put, Differs, Walking
  <2>2. /\ At \in Key /\ snap \in 1..Len(history) /\ next \in 1..Len(plan)
    BY <2>1, WalkingItem
  <2>3. history[snap] \in Specs /\ history[snap] # None
    <3>1. history[snap] \in Specs \cup {None}
      BY <2>2, ElementOfSeq DEF BaseInv, TypeOK
    <3> QED
      BY <2>1, <3>1 DEF BaseInv, PassInv
  <2>4. At \in DesiredKeys(history[snap])
    <3>1. /\ <<plan[next].role, plan[next].group>> \in RoleGroupsOf(history[snap])
          /\ At.role = plan[next].role /\ At.group = plan[next].group
      BY <2>2 DEF BaseInv, PassInv, At, ItemKey, KeyOf
    <3> QED
      BY <2>2, <3>1 DEF DesiredKeys
  <2>5. SoundFor(At, history'[snap])
    BY <1>1, <2>1, <2>2, <2>3, <2>4
       DEF SoundFor, BaseInv, PassInv, AllRegistered, Instance
  <2>6. CASE k = At
    BY <1>1, <1>2, <2>1, <2>2, <2>5, <2>6
  <2>7. CASE k # At
    BY <1>1, <1>2, <2>1, <2>2, <2>7
  <2> QED
    BY <2>6, <2>7
<1> QED
  BY <1>3, <1>4, AppliedStep

\* An object whose copy is kept is as the version of the pass asks, or was
\* until its last write.
LEMMA KeptIsMet ==
    ASSUME BaseInv, CopyInv, KeepResource
    PROVE  Met(At, snap)
<1>1. Walking /\ copies[At] = Wanted
  BY DEF KeepResource
<1>2. /\ At \in Key /\ Wanted # Absent /\ Showing(At, Wanted, snap)
  BY <1>1, WantedShows
<1>3. \/ Showing(At, Wanted, applied[At])
      \/ Showing(At, Wanted, previous[At])
  BY <1>1, <1>2 DEF CopyInv
<1> QED
  BY <1>2, <1>3 DEF Met, Fits, Showing

\* Every step keeps what is known of the objects the pass has gone past.
LEMMA WalkedStep == BaseInv /\ CopyInv /\ Walked /\ [Next]_vars => Walked'
<1> SUFFICES ASSUME BaseInv, CopyInv, Walked, [Next]_vars PROVE Walked'
  OBVIOUS
<1>1. CASE next' = 1
  BY <1>1 DEF Walked
<1>2. /\ \A v \in 1..Len(history) : history'[v] = history[v]
      /\ applied \in [Key -> 0..Len(history)]
      /\ previous \in [Key -> 0..Len(history)]
      /\ Len(history) \in Nat
      /\ \A j \in 1..Len(plan) : ItemKey(plan[j]) \in Key
      /\ Len(plan) > 0 => snap \in 1..Len(history)
  BY HistoryStep, ItemKeyType, ElementOfSeq DEF BaseInv, TypeOK, PassInv
<1>3. ASSUME NEW k \in Key, Met(k, snap), Len(plan) > 0,
             UNCHANGED <<snap, applied, previous>>
      PROVE  Met(k, snap)'
  BY <1>2, <1>3 DEF Met, Fits
<1>4. CASE UNCHANGED <<plan, next, snap, applied, previous>>
  <2> SUFFICES ASSUME NEW j \in 1..next - 1, j <= Len(plan)
               PROVE  Met(ItemKey(plan[j]), snap)'
    BY <1>4 DEF Walked, ItemKey
  <2>1. j \in 1..Len(plan) /\ Len(plan) > 0
    BY LenProperties DEF BaseInv, TypeOK
  <2>2. Met(ItemKey(plan[j]), snap)
    BY DEF Walked
  <2> QED
    BY <1>2, <1>3, <1>4, <2>1, <2>2 DEF ItemKey, Met, Fits
<1>5. CASE KeepResource
  <2>1. /\ next' = next + 1 /\ UNCHANGED <<plan, snap, applied, previous>>
        /\ next \in 1..Len(plan) /\ Len(plan) \in Nat
    BY <1>5, WalkingItem DEF KeepResource, stored
  <2> SUFFICES ASSUME NEW j \in 1..next
               PROVE  Met(ItemKey(plan[j]), snap)'
    BY <2>1 DEF Walked, ItemKey
  <2>2. Met(ItemKey(plan[j]), snap)
    BY <1>5, <2>1, KeptIsMet DEF Walked, At
  <2>3. ItemKey(plan[j]) \in Key /\ Len(plan) > 0
    BY <1>2, <2>1
  <2>4. ItemKey(plan[j])' = ItemKey(plan[j])
    BY <2>1 DEF ItemKey
  <2> QED
    BY <1>2, <2>1, <2>2, <2>3, <2>4 DEF Met, Fits
<1> QED
  BY <1>1, <1>4, <1>5, WalkStep

\* The invariants together.
PassInvariant == BaseInv /\ PlanInv /\ CopyInv /\ SoundInv /\ Walked

\* They hold in every reachable state.
THEOREM PassInvariantHolds == Spec => []PassInvariant
<1>1. Init => PlanInv /\ CopyInv /\ SoundInv /\ Walked
  <2> SUFFICES ASSUME Init PROVE PlanInv /\ CopyInv /\ SoundInv /\ Walked
    OBVIOUS
  <2>1. Len(plan) = 0 /\ pass = "idle" /\ next = 1
    BY DEF Init
  <2>2. \A k \in Key : /\ objects[k] = Absent /\ copies[k] = Absent
                       /\ applied[k] = 0 /\ previous[k] = 0
    BY DEF Init
  <2> QED
    BY <2>1, <2>2
       DEF PlanInv, ConfigFirst, PlanComplete, RolesRanked, ServicesTwinned,
           WebserversFlap, CopyInv, SoundInv, Walked
<1>2. Init => PassInvariant
  BY <1>1, BaseInit DEF PassInvariant
<1>3. PassInvariant /\ [Next]_vars => PassInvariant'
  BY BaseStep, PlanInvStep, CopyInvStep, SoundInvStep, WalkedStep
     DEF PassInvariant
<1> QED
  BY <1>2, <1>3, PTL DEF Spec

-----------------------------------------------------------------------------
(* The safety properties of the objects.                                   *)

\* What precedes the next reconciler in the plan is as the version of the pass
\* asks, or was until its last write.
LEMMA AlreadyWalked ==
    ASSUME PassInvariant, Walking, NEW j \in 1..next - 1
    PROVE  Met(ItemKey(plan[j]), snap)
<1>1. next \in 1..Len(plan) /\ Len(plan) \in Nat
  BY WalkingItem DEF PassInvariant
<1> QED
  BY <1>1 DEF PassInvariant, Walked

\* Only a write puts an object there anew, the one whose turn it is.
LEMMA PutAnewStep ==
    ASSUME PassInvariant, [Next]_vars, NEW k \in Key, PutAnew(k)
    PROVE  Put /\ k = At /\ applied'[k] = snap
<1>1. /\ objects \in [Key -> Object \cup {Absent}]
      /\ applied \in [Key -> 0..Len(history)]
  BY DEF PassInvariant, BaseInv, TypeOK
<1>2. Put
  BY <1>1, StoreStep DEF PutAnew, stored, GarbageCollect, Sync
<1>3. /\ objects' = [objects EXCEPT ![At] = Wanted]
      /\ applied' = [applied EXCEPT ![At] = snap]
  BY <1>2 DEF Put
<1> QED
  BY <1>1, <1>2, <1>3 DEF PutAnew

\* The step that writes a StatefulSet finds its ConfigMap as asked.
LEMMA ConfigBeforeWorkloadStep ==
    ASSUME PassInvariant, [Next]_vars, NEW r \in Role, NEW g \in Groups,
           PutAnew(KeyOf("StatefulSet", r, g))
    PROVE  Met(KeyOf("ConfigMap", r, g), applied'[KeyOf("StatefulSet", r, g)])
<1> DEFINE w == KeyOf("StatefulSet", r, g)
           c == KeyOf("ConfigMap", r, g)
<1>1. w \in Key
  BY DEF KeyOf, Key, ObjectKind
<1>2. Put /\ w = At /\ applied'[w] = snap
  BY <1>1, PutAnewStep
<1>3. Walking
  BY <1>2 DEF Put, Differs
<1>4. plan[next] \in Item /\ next \in 1..Len(plan)
  BY <1>3, WalkingItem DEF PassInvariant
<1>5. /\ plan[next].kind = "statefulset"
      /\ plan[next].role = r /\ plan[next].group = g
  BY <1>2, <1>4 DEF At, ItemKey, KeyOf, ObjectKindOf, Item, ItemKind
<1>6. PICK j \in 1..next - 1 : ItemKey(plan[j]) = c
  BY <1>4, <1>5 DEF PassInvariant, PlanInv, ConfigFirst
<1> QED
  BY <1>2, <1>3, <1>6, AlreadyWalked

\* Pods never start on a version of the resource before its configuration is
\* in place, the one write apart that the cache may be behind.
THEOREM ConfigBeforeWorkloadHolds == Spec => ConfigBeforeWorkload
<1>1. PassInvariant /\ [Next]_vars =>
        [\A r \in Role, g \in Groups :
            LET k == KeyOf("StatefulSet", r, g)
            IN  PutAnew(k) => Met(KeyOf("ConfigMap", r, g), applied'[k])]_vars
  BY ConfigBeforeWorkloadStep
<1> QED
  BY <1>1, PassInvariantHolds, PTL DEF Spec, ConfigBeforeWorkload

\* The step that writes an object of a role finds the roles before it as asked.
LEMMA RolloutOrderStep ==
    ASSUME PassInvariant, [Next]_vars, NEW k \in Key, NEW q \in Role,
           NEW g \in Groups, PutAnew(k), Rank[q] < Rank[k.role],
           <<q, g>> \in RoleGroupsOf(history[applied'[k]]),
           NEW kind \in ObjectKind
    PROVE  Met(KeyOf(kind, q, g), applied'[k])
<1>1. Put /\ k = At /\ applied'[k] = snap
  BY PutAnewStep
<1>2. Walking
  BY <1>1 DEF Put, Differs
<1>3. next \in 1..Len(plan) /\ plan[next] \in Item
  BY <1>2, WalkingItem DEF PassInvariant
<1>4. Rank[q] < Rank[plan[next].role]
  BY <1>1 DEF At, ItemKey, KeyOf
<1>5. PICK j \in 1..next - 1 : ItemKey(plan[j]) = KeyOf(kind, q, g)
  BY <1>1, <1>3, <1>4 DEF PassInvariant, PlanInv, RolesRanked, Instance
<1> QED
  BY <1>1, <1>2, <1>5, AlreadyWalked

\* Workers, then schedulers, then webservers, in whatever order the groups of
\* a role are visited.
THEOREM RolloutOrderHolds == Spec => RolloutOrder
<1>1. PassInvariant /\ [Next]_vars =>
        [\A k \in Key, q \in Role, g \in Groups :
            /\ PutAnew(k)
            /\ Rank[q] < Rank[k.role]
            /\ <<q, g>> \in RoleGroupsOf(history[applied'[k]])
            => \A kind \in ObjectKind : Met(KeyOf(kind, q, g), applied'[k])]_vars
  BY RolloutOrderStep
<1> QED
  BY <1>1, PassInvariantHolds, PTL DEF Spec, RolloutOrder

\* Nothing of an incomplete specification is ever applied.
THEOREM OnlyCompleteSpecsAppliedHolds == Spec => []OnlyCompleteSpecsApplied
<1>1. PassInvariant => OnlyCompleteSpecsApplied
  BY DEF PassInvariant, SoundInv, SoundFor, OnlyCompleteSpecsApplied
<1> QED
  BY <1>1, PassInvariantHolds, PTL

\* No object is made from two versions of the resource.
THEOREM NoMixedVersionsHolds == Spec => []NoMixedVersions
<1>1. PassInvariant => NoMixedVersions
  BY DEF PassInvariant, CopyInv, Showing, NoMixedVersions, InPlace
<1> QED
  BY <1>1, PassInvariantHolds, PTL

-----------------------------------------------------------------------------
(* What it means for a pass to complete and for the manager to rest.       *)

\* A pass is to come whatever the one that runs does.
Due == queue \/ delayed

\* Otherwise the pass that runs reads what the API server holds,
CacheCurrent == Due \/ pass = "idle" \/ copies = objects

\* has left in place whatever it has gone past,
WalkedInPlace ==
    \/ Due
    \/ \A j \in 1..next - 1 : j <= Len(plan) => InPlace(ItemKey(plan[j]), snap)

\* and is not past the metrics service of a webserver group: when it comes to
\* it, the Service is what the reconciler just before it wants.
FlapInv ==
    \/ Due
    \/ \A i \in 1..Len(plan) : FlappingItem(i) =>
          /\ next <= i
          /\ next = i => objects[ItemKey(plan[i])] = BuildService("service")

\* And if no pass works on the version in the cache, all it asks for is there.
\* It is that version, not the one of the pass, that matters: a later one
\* queues a request when it arrives.
Satisfied(v) ==
    /\ \A k \in DesiredKeys(history[v]) : InPlace(k, v)
    /\ ~HasWebservers(history[v])

NothingForgotten ==
    \/ Due
    \/ seen = 0
    \/ pass # "idle" /\ snap = seen
    \/ Satisfied(seen)

RestInv ==
    ~hasty /\ ~Deleted =>
        CacheCurrent /\ WalkedInPlace /\ FlapInv /\ NothingForgotten

\* What a step does that leaves no pass to come.
LEMMA RestStep ==
    ASSUME BaseInv, [Next]_vars, ~Due', ~Deleted'
    PROVE  \/ /\ UNCHANGED <<seen, objects, requests, local, hasty>>
              /\ UNCHANGED copies \/ copies # objects
           \/ \E r \in Role, g \in Groups : RegisterGroup(r, g)
           \/ RegistrationDone
           \/ StartReconcile
           \/ KeepResource
           \/ Finish
<1> USE DEF Due
<1>1. CASE Environment
  BY <1>1 DEF Environment, UserEdit, UserDelete, EditClass, EditAggregator,
              stored
<1>2. ASSUME NEW k \in Key, Sync(k)
      PROVE  /\ UNCHANGED <<seen, objects, requests, local, hasty>>
             /\ copies # objects
  BY <1>2 DEF Sync, stored
<1>3. ~GarbageCollect
  BY HistoryStep DEF GarbageCollect, Deleted, Last
<1>4. ~Deliver /\ ~DelayOver
  BY DEF Deliver, DelayOver, RequestComes
<1>5. ~Fault
  <2>1. ~ApiError /\ ~WriteAnswerLost /\ ~DelayTooShort
    BY DEF ApiError, WriteAnswerLost, Retry, DelayTooShort, RequestComes
  <2>2. ~Restart
    <3> SUFFICES ASSUME Restart PROVE FALSE
      OBVIOUS
    <3>1. /\ seen' \in 1..Len(history) /\ history' = history
          /\ queue' = (history[seen'] # None)
      BY DEF Restart, Versions, cluster
    <3>2. history[seen'] = None
      BY <3>1, Zenon
    <3>3. history[Len(history)] = None
      BY <3>1, <3>2 DEF BaseInv, HistoryInv, Versions
    <3> QED
      BY <3>1, <3>3 DEF Deleted, Last
  <2> QED
    BY <2>1, <2>2 DEF Fault
<1>6. CASE PassStep
  <2>1. ~RegistrationFails /\ ~BuildFails /\ ~Conflict /\ ~WriteResource
        /\ ~FinishNotReady
    BY DEF RegistrationFails, BuildFails, Conflict, WriteResource,
           FinishNotReady, Retry, ComeBackLater
  <2> QED
    BY <1>6, <2>1 DEF PassStep
<1>7. CASE UNCHANGED vars
  BY <1>7 DEF vars, requests, local
<1> QED
  BY <1>1, <1>2, <1>3, <1>4, <1>5, <1>6, <1>7 DEF Next

\* An object that a step leaves alone stays in place.
LEMMA InPlaceStep ==
    ASSUME BaseInv, [Next]_vars, UNCHANGED objects,
           NEW k, NEW v \in 1..Len(history), InPlace(k, v)
    PROVE  InPlace(k, v)'
BY HistoryStep DEF InPlace

\* So does what was asked of all of them.
LEMMA SatisfiedStep ==
    ASSUME BaseInv, [Next]_vars, UNCHANGED <<objects, seen>>, seen > 0,
           Satisfied(seen)
    PROVE  Satisfied(seen)'
<1>1. seen \in 1..Len(history)
  BY DEF BaseInv, TypeOK
<1>2. history'[seen] = history[seen]
  BY <1>1, HistoryStep
<1>3. /\ \A k \in DesiredKeys(history'[seen]) : InPlace(k, seen)'
      /\ ~HasWebservers(history'[seen])
  BY <1>1, <1>2, InPlaceStep DEF Satisfied
<1> QED
  BY <1>3 DEF Satisfied

\* A pass that ends with none to come has walked over all its version asks for,
\* which holds no webserver group.
LEMMA WalkDoneSatisfied ==
    ASSUME PassInvariant, RestInv, WalkDone, ~hasty, ~Deleted, ~Due
    PROVE  /\ \A k \in DesiredKeys(Instance) : InPlace(k, snap)
           /\ ~HasWebservers(Instance)
<1>1. /\ pass = "run" /\ next \in Nat /\ Len(plan) \in Nat /\ todo = {}
      /\ \A i \in 1..Len(plan) : i \in 1..next - 1 /\ i <= Len(plan)
  BY LenProperties
     DEF WalkDone, PassInvariant, BaseInv, TypeOK, PassInv, AllRegistered
<1>2. ASSUME NEW k \in DesiredKeys(Instance) PROVE InPlace(k, snap)
  <2>1. /\ k \in Key /\ <<k.role, k.group>> \in RoleGroupsOf(Instance)
        /\ k.kind \in ObjectKind /\ k = KeyOf(k.kind, k.role, k.group)
    BY DEF DesiredKeys, Key, KeyOf
  <2>2. PICK i \in 1..Len(plan) : ItemKey(plan[i]) = k
    BY <1>1, <2>1 DEF PassInvariant, PlanInv, PlanComplete
  <2> QED
    BY <1>1, <2>2 DEF RestInv, WalkedInPlace
<1>3. ASSUME HasWebservers(Instance) PROVE FALSE
  <2>1. PICK i \in 1..Len(plan) : FlappingItem(i)
    BY <1>1, <1>3 DEF HasWebservers, PassInvariant, PlanInv, WebserversFlap
  <2>2. next <= i
    BY <2>1 DEF RestInv, FlapInv
  <2> QED
    BY <1>1, <2>2
<1> QED
  BY <1>2, <1>3

\* The two services of a webserver group differ.
LEMMA ServicesDiffer == BuildService("metrics") # BuildService("service")
<1>1. "http" \in Port /\ "http" \notin {"metrics"}
  BY DEF Port
<1>2. [ports |-> {"metrics"}].ports # [ports |-> Port].ports
  BY <1>1
<1> QED
  BY <1>2 DEF BuildService

\* Keeping a current copy takes the walk one step further over objects in
\* place, but never past the second service of a webserver group.
LEMMA RestKeep ==
    ASSUME PassInvariant, RestInv, KeepResource, ~hasty, ~Deleted, ~Due
    PROVE  WalkedInPlace' /\ FlapInv'
<1>1. /\ copies[At] = Wanted /\ Walking /\ next' = next + 1
      /\ UNCHANGED <<history, objects, snap, plan, queue, delayed>>
  BY DEF KeepResource, cluster, stored, requests
<1>2. /\ objects[At] = Wanted /\ Wanted # Absent
      /\ Shows(At, Wanted) = Asks(history[snap], At)
      /\ next \in 1..Len(plan) /\ Len(plan) \in Nat /\ next \in Nat
  BY <1>1, WantedShows, WalkingItem
     DEF RestInv, CacheCurrent, Walking, PassInvariant, Showing
<1>3. InPlace(At, snap)
  BY <1>2 DEF InPlace
<1>4. WalkedInPlace'
  <2> SUFFICES ASSUME NEW j \in 1..next PROVE InPlace(ItemKey(plan[j]), snap)'
    BY <1>1, <1>2 DEF WalkedInPlace
  <2>1. InPlace(ItemKey(plan[j]), snap)
    BY <1>2, <1>3 DEF RestInv, WalkedInPlace, At
  <2> QED
    BY <1>1, <2>1 DEF InPlace, ItemKey
<1>5. ~FlappingItem(next)
  <2> SUFFICES ASSUME FlappingItem(next) PROVE FALSE
    OBVIOUS
  <2>1. objects[At] = BuildService("metrics")
    BY <1>2 DEF FlappingItem, Wanted, Build
  <2>2. objects[At] = BuildService("service")
    BY <1>2 DEF RestInv, FlapInv, At
  <2> QED
    BY <2>1, <2>2, ServicesDiffer
<1>6. FlapInv'
  <2> SUFFICES ASSUME NEW i \in 1..Len(plan), FlappingItem(i)
               PROVE  /\ next + 1 <= i
                      /\ next + 1 = i =>
                            objects[ItemKey(plan[i])] = BuildService("service")
    BY <1>1 DEF FlapInv, FlappingItem, ItemKey
  <2>1. next <= i /\ next # i
    BY <1>5 DEF RestInv, FlapInv
  <2>2. ASSUME next + 1 = i
        PROVE  objects[ItemKey(plan[i])] = BuildService("service")
    <3>1. next = i - 1
      BY <1>2, <2>2
    <3>2. plan[next].kind = "service" /\ ItemKey(plan[i]) = At
      BY <3>1 DEF PassInvariant, PlanInv, ServicesTwinned, At
    <3> QED
      BY <1>2, <3>2 DEF Wanted, Build
  <2> QED
    BY <1>2, <2>1, <2>2
<1> QED
  BY <1>4, <1>6

\* Every step leaves something to come or what the latest version asks for.
LEMMA RestInvStep ==
    PassInvariant /\ PassInvariant' /\ RestInv /\ [Next]_vars => RestInv'
<1> SUFFICES ASSUME PassInvariant, PassInvariant', RestInv, [Next]_vars,
                    ~hasty', ~Deleted'
             PROVE  /\ CacheCurrent' /\ WalkedInPlace'
                    /\ FlapInv' /\ NothingForgotten'
  BY DEF RestInv
<1>1. CASE Due'
  BY <1>1 DEF CacheCurrent, WalkedInPlace, FlapInv, NothingForgotten
<1> SUFFICES ASSUME ~Due'
             PROVE  /\ CacheCurrent' /\ WalkedInPlace'
                    /\ FlapInv' /\ NothingForgotten'
  BY <1>1
<1>2. ~Deleted /\ BaseInv /\ PlanInv'
  BY HistoryStep DEF PassInvariant, Deleted, Last
<1>3. /\ Len(plan) > 0 \/ pass # "idle" => snap \in 1..Len(history)
      /\ \A v \in 1..Len(history) : history'[v] = history[v]
      /\ Len(plan) \in Nat /\ next \in Nat /\ seen \in Nat
  BY <1>2, HistoryStep, LenProperties DEF BaseInv, TypeOK, PassInv
<1>4. ASSUME UNCHANGED <<seen, objects, requests, local, hasty>>,
             UNCHANGED copies \/ copies # objects
      PROVE  /\ CacheCurrent' /\ WalkedInPlace'
             /\ FlapInv' /\ NothingForgotten'
  <2>1. ~Due /\ ~hasty
    BY <1>4 DEF Due, requests
  <2>2. CacheCurrent /\ WalkedInPlace /\ FlapInv /\ NothingForgotten
    BY <1>2, <2>1 DEF RestInv
  <2>3. CacheCurrent'
    BY <1>4, <2>1, <2>2 DEF CacheCurrent, local
  <2>4. WalkedInPlace'
    <3> SUFFICES ASSUME NEW j \in 1..next - 1, j <= Len(plan)
                 PROVE  InPlace(ItemKey(plan[j]), snap)'
      BY <1>4 DEF WalkedInPlace, local
    <3>1. InPlace(ItemKey(plan[j]), snap) /\ snap \in 1..Len(history)
      BY <1>3, <2>1, <2>2 DEF WalkedInPlace
    <3> QED
      BY <1>3, <1>4, <3>1 DEF InPlace, ItemKey, local
  <2>5. FlapInv'
    BY <1>4, <2>1, <2>2 DEF FlapInv, FlappingItem, ItemKey, local
  <2>6. NothingForgotten'
    BY <1>2, <1>3, <1>4, <2>1, <2>2, SatisfiedStep DEF NothingForgotten, local
  <2> QED
    BY <2>3, <2>4, <2>5, <2>6
<1>5. ASSUME UNCHANGED <<seen, objects, copies, requests, snap, next, hasty>>,
             pass # "idle", pass' # "idle", next = 1
      PROVE  /\ CacheCurrent' /\ WalkedInPlace'
             /\ FlapInv' /\ NothingForgotten'
  <2>1. ~Due /\ ~hasty
    BY <1>5 DEF Due, requests
  <2>2. CacheCurrent /\ NothingForgotten
    BY <1>2, <2>1 DEF RestInv
  <2>3. CacheCurrent'
    BY <1>5, <2>1, <2>2 DEF CacheCurrent
  <2>4. WalkedInPlace'
    BY <1>5 DEF WalkedInPlace
  <2>5. FlapInv'
    BY <1>2, <1>5 DEF FlapInv, PlanInv, ServicesTwinned
  <2>6. NothingForgotten'
    BY <1>2, <1>3, <1>5, <2>1, <2>2, SatisfiedStep DEF NothingForgotten
  <2> QED
    BY <2>3, <2>4, <2>5, <2>6
<1>6. ASSUME NEW r \in Role, NEW g \in Groups, RegisterGroup(r, g)
      PROVE  /\ CacheCurrent' /\ WalkedInPlace'
             /\ FlapInv' /\ NothingForgotten'
  BY <1>2, <1>5, <1>6 DEF RegisterGroup, stored, BaseInv, PassInv
<1>7. CASE RegistrationDone
  BY <1>2, <1>5, <1>7 DEF RegistrationDone, stored, BaseInv, PassInv
<1>8. CASE StartReconcile
  <2>1. /\ history[seen] # None
        /\ UNCHANGED <<cluster, seen, stored, copies, delayed>>
    <3>1. queue /\ UNCHANGED <<cluster, seen, stored, copies, delayed>>
      BY <1>8 DEF StartReconcile
    <3>2. seen \in 1..Len(history)
      BY <1>2, <3>1 DEF BaseInv, TypeOK, PassInv
    <3> QED
      BY <1>2, <3>1, <3>2 DEF BaseInv, HistoryInv, Versions, Deleted, Last
  <2>2. Begin(seen)
    BY <1>8, <2>1 DEF StartReconcile
  <2>3. ~delayed /\ copies = objects
    BY <2>1, <2>2 DEF Due, Begin
  <2>4. Len(plan') = 0 /\ snap' = seen' /\ pass' # "idle" /\ next' = 1
    BY <2>1, <2>2 DEF Begin
  <2>5. CacheCurrent'
    BY <2>1, <2>3 DEF CacheCurrent, stored
  <2> QED
    BY <2>4, <2>5 DEF WalkedInPlace, FlapInv, NothingForgotten
<1>9. CASE KeepResource
  <2>1. UNCHANGED <<seen, objects, copies, queue, delayed, pass, snap, hasty>>
    BY <1>9 DEF KeepResource, stored, requests
  <2>2. ~Due /\ ~hasty
    BY <2>1 DEF Due
  <2>3. CacheCurrent /\ NothingForgotten
    BY <1>2, <2>2 DEF RestInv
  <2>4. CacheCurrent'
    BY <2>1, <2>2, <2>3 DEF CacheCurrent
  <2>5. NothingForgotten'
    BY <1>2, <1>3, <2>1, <2>2, <2>3, SatisfiedStep DEF NothingForgotten
  <2> QED
    BY <1>2, <1>9, <2>2, <2>4, <2>5, RestKeep
<1>10. CASE Finish
  <2>1. /\ WalkDone /\ pass' = "idle" /\ Len(plan') = 0
        /\ UNCHANGED <<seen, objects, queue, delayed, hasty>>
    BY <1>10 DEF Finish, EndPass, stored, requests
  <2>2. ~Due /\ ~hasty
    BY <2>1 DEF Due
  <2>3. NothingForgotten /\ pass # "idle"
    BY <1>2, <2>1, <2>2 DEF RestInv, WalkDone
  <2>4. snap = seen => Satisfied(seen)
    BY <1>2, <2>1, <2>2, WalkDoneSatisfied DEF Satisfied, Instance
  <2>5. seen > 0 => Satisfied(seen)
    BY <1>3, <2>2, <2>3, <2>4 DEF NothingForgotten
  <2>6. NothingForgotten'
    BY <1>2, <1>3, <2>1, <2>5, SatisfiedStep DEF NothingForgotten
  <2> QED
    BY <2>1, <2>6 DEF CacheCurrent, WalkedInPlace, FlapInv
<1> QED
  BY <1>2, <1>4, <1>6, <1>7, <1>8, <1>9, <1>10, RestStep

\* It holds in every reachable state.
LEMMA RestInvHolds == Spec => []RestInv
<1>1. Init => RestInv
  <2> SUFFICES ASSUME Init PROVE RestInv
    OBVIOUS
  <2>1. Len(plan) = 0 /\ pass = "idle" /\ seen = 0
    BY DEF Init
  <2> QED
    BY <2>1
       DEF RestInv, CacheCurrent, WalkedInPlace, FlapInv, NothingForgotten
<1> QED
  BY <1>1, RestInvStep, PassInvariantHolds, PTL DEF Spec

\* A pass that ends with none to come has found all of its version in place.
LEMMA CompletedStep ==
    ASSUME PassInvariant, RestInv, [Next]_vars, pass = "run", pass' = "idle",
           ~queue', ~delayed', ~Deleted, ~hasty
    PROVE  /\ \A k \in DesiredKeys(Instance) : InPlace(k, snap)
           /\ ~HasWebservers(Instance)
<1>1. history' = history
  <2>1. CASE UserEdit \/ UserDelete
    BY <2>1 DEF UserEdit, UserDelete, local
  <2> QED
    BY <2>1 DEF Next, Environment, PassStep, Fault, vars, cluster, EditClass,
       EditAggregator, Deliver, Sync, GarbageCollect, DelayOver, DelayTooShort,
       RequestComes, Restart, ApiError, StartReconcile, RegisterGroup,
       RegistrationFails, RegistrationDone, BuildFails, KeepResource, Put,
       WriteResource, WriteAnswerLost, Conflict, Finish, FinishNotReady
<1>2. ~Deleted' /\ ~Due'
  BY <1>1 DEF Deleted, Last, Due
<1>3. Finish
  <2>1. /\ ~(pass' = pass)
        /\ ~StartReconcile
    BY DEF StartReconcile
  <2> QED
    BY <1>2, <2>1, RestStep
       DEF PassInvariant, local, RegisterGroup, RegistrationDone, KeepResource
<1>4. WalkDone /\ ~Due
  BY <1>2, <1>3 DEF Finish, Due, requests
<1> QED
  BY <1>4, WalkDoneSatisfied

\* A pass that ends quietly has left nothing behind, unless it began in a
\* window that a lost answer or a delay too short had left open.
THEOREM CompletedMeansInPlaceHolds == Spec => CompletedMeansInPlace
<1>1. PassInvariant /\ RestInv /\ [Next]_vars =>
        [/\ pass = "run"
         /\ pass' = "idle"
         /\ ~queue'
         /\ ~delayed'
         /\ ~Deleted
         /\ ~hasty
         => /\ \A k \in DesiredKeys(Instance) : InPlace(k, snap)
            /\ ~HasWebservers(Instance)]_vars
  BY CompletedStep
<1> QED
  BY <1>1, PassInvariantHolds, RestInvHolds, PTL DEF Spec, CompletedMeansInPlace

\* At rest nothing is to come, and the version in the cache is the latest one.
LEMMA RestSatisfied ==
    ASSUME BaseInv, RestInv, AtRest, ~Deleted, ~hasty
    PROVE  Satisfied(Len(history))
<1>1. ~Due /\ seen = Len(history) /\ seen # 0
  BY LenProperties DEF AtRest, Due, BaseInv, TypeOK, HistoryInv
<1> QED
  BY <1>1 DEF RestInv, NothingForgotten, AtRest

\* No write, error, conflict or lag of a cache is ever forgotten, with the same
\* exception.
THEOREM RestMeansDoneHolds == Spec => []RestMeansDone
<1>1. BaseInv /\ RestInv => RestMeansDone
  BY RestSatisfied DEF RestMeansDone, Satisfied, AllInPlace, Last
<1> QED
  BY <1>1, RestInvHolds, BaseInvariant, PTL

\* The passes of a specification with webservers never cease, with the same
\* exception.
THEOREM WebserversNeverRestHolds == Spec => []WebserversNeverRest
<1>1. BaseInv /\ RestInv => WebserversNeverRest
  BY RestSatisfied DEF WebserversNeverRest, Satisfied, Last
<1> QED
  BY <1>1, RestInvHolds, BaseInvariant, PTL

\* What is left to do once the deletion has been seen: nothing starts a pass
\* again, and only a pass writes.
LEMMA NoResurrectionStep ==
    ASSUME BaseInv, [Next]_vars, Drained
    PROVE  Drained' /\ \A k \in Key : objects'[k] \in {objects[k], Absent}
<1>1. /\ Len(history) \in Nat \ {0} /\ seen = Len(history) /\ pass = "idle"
      /\ history[seen] = None /\ seen \in 1..Len(history)
  BY LenProperties DEF Drained, Deleted, Last, BaseInv, TypeOK, HistoryInv
<1>2. history' = history
  BY HistoryStep DEF Drained
<1>3. ~PassStep /\ ~ApiError /\ ~WriteAnswerLost /\ ~Deliver
  BY <1>1 DEF PassStep, RegisterGroup, RegistrationFails, RegistrationDone,
              BuildFails, KeepResource, WriteResource, WriteAnswerLost, Put,
              Conflict, Differs, Walking, WalkDone, Finish, FinishNotReady,
              ApiError, Deliver
<1>4. \A k \in Key : objects'[k] \in {objects[k], Absent}
  <2>1. ~Put
    BY <1>1 DEF Put, Differs, Walking
  <2>2. CASE UNCHANGED objects
    BY <2>2
  <2>3. CASE GarbageCollect
    BY <2>3 DEF GarbageCollect, BaseInv, TypeOK
  <2> QED
    BY <2>1, <2>2, <2>3, StoreStep DEF stored, Sync
<1>5. UNCHANGED <<seen, pass>>
  <2>1. CASE Environment
    BY <2>1 DEF Environment, UserEdit, UserDelete, EditClass, EditAggregator,
                local
  <2>2. ASSUME NEW k \in Key, Sync(k) PROVE UNCHANGED <<seen, pass>>
    BY <2>2 DEF Sync, local
  <2>3. CASE DelayOver \/ DelayTooShort
    BY <2>3 DEF DelayOver, DelayTooShort, RequestComes, local
  <2>4. CASE GarbageCollect
    BY <2>4 DEF GarbageCollect, local
  <2>5. CASE Restart
    BY <1>1, <2>5 DEF Restart, EndPass, Versions
  <2>6. CASE StartReconcile
    BY <1>1, <2>6 DEF StartReconcile, local
  <2>7. CASE UNCHANGED vars
    BY <2>7 DEF vars
  <2> QED
    BY <1>3, <2>1, <2>2, <2>3, <2>4, <2>5, <2>6, <2>7 DEF Next, Fault
<1> QED
  BY <1>2, <1>4, <1>5 DEF Drained, Deleted, Last

\* After a deletion has been seen and the pass of that time is over, objects
\* only go.
THEOREM NoResurrectionHolds == Spec => NoResurrection
<1>1. BaseInv /\ [Next]_vars =>
        [Drained => /\ Drained'
                    /\ \A k \in Key : objects'[k] \in {objects[k], Absent}]_vars
  BY NoResurrectionStep
<1> QED
  BY <1>1, BaseInvariant, PTL DEF Spec, NoResurrection
=============================================================================
