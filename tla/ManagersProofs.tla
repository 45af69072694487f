--------------------------- MODULE ManagersProofs ---------------------------
(***************************************************************************)
(* Proofs about Managers.                                                  *)
(***************************************************************************)
EXTENDS Managers, ResourcesProofs

\* The walk of a pass is a sequence of reconcilers of declared role groups.
LEMMA PlanType ==
    ASSUME NEW s \in Specs
    PROVE  /\ Plan(s) \in Seq(Item)
           /\ \A i \in 1..Len(Plan(s)) :
                 <<Plan(s)[i].role, Plan(s)[i].group>> \in RoleGroupsOf(s)
<1> DEFINE Declared == {x \in Item : <<x.role, x.group>> \in RoleGroupsOf(s)}
           of(r) == IF \E g \in Groups : <<r, g>> \in RoleGroupsOf(s)
                    THEN Reconcilers(r, CHOOSE g \in Groups :
                                           <<r, g>> \in RoleGroupsOf(s), None)
                    ELSE <<>>
<1>1. ASSUME NEW r \in Role PROVE of(r) \in Seq(Declared)
  <2>1. CASE \E g \in Groups : <<r, g>> \in RoleGroupsOf(s)
    <3> DEFINE g == CHOOSE h \in Groups : <<r, h>> \in RoleGroupsOf(s)
               p == Reconcilers(r, g, None)
    <3>1. g \in Groups /\ <<r, g>> \in RoleGroupsOf(s)
      BY <2>1
    <3>2. None \in AuthValue
      BY DEF AuthValue
    <3> HIDE DEF g
    <3>3. p \in Seq(Item) /\ \A i \in 1..Len(p) : p[i].role = r /\ p[i].group = g
      BY <3>1, <3>2, ReconcilersProperties
    <3> HIDE DEF p
    <3>4. \A i \in 1..Len(p) : p[i] \in Declared
      BY <3>1, <3>3
    <3>5. p = [i \in 1..Len(p) |-> p[i]] /\ Len(p) \in Nat
      BY <3>3
    <3> HIDE DEF Declared
    <3>6. p \in Seq(Declared)
      BY <3>4, <3>5
    <3> QED
      BY <2>1, <3>6 DEF p, g
  <2>2. CASE ~\E g \in Groups : <<r, g>> \in RoleGroupsOf(s)
    BY <2>2
  <2> QED
    BY <2>1, <2>2
<1>2. Plan(s) = of("celeryexecutors") \o of("schedulers") \o of("webservers")
  BY DEF Plan
<1> HIDE DEF of
<1>3. Plan(s) \in Seq(Declared)
  BY <1>1, <1>2 DEF Role
<1> DEFINE q == Plan(s)
<1>4. /\ q = [i \in 1..Len(q) |-> q[i]]
      /\ Len(q) \in Nat
      /\ \A i \in 1..Len(q) : q[i] \in Declared
  <2> HIDE DEF q, Declared
  <2>1. q \in Seq(Declared)
    BY <1>3 DEF q
  <2> QED
    BY <2>1
<1>5. \A i \in 1..Len(q) : q[i] \in Item
  BY <1>4
<1>6. q \in Seq(Item)
  <2> HIDE DEF q, Declared
  <2> QED
    BY <1>4, <1>5
<1> QED
  BY <1>4, <1>6

\* What a manager builds from a version is an object, whatever build stamps
\* the image.
LEMMA ValueType ==
    ASSUME NEW s \in Specs, NEW m \in Manager, NEW item \in Item,
           <<item.role, item.group>> \in RoleGroupsOf(s)
    PROVE  Value(item, s, m) \in Object
<1>1. s \in AirflowClusterSpec /\ s.clusterConfig # None
  BY SoundAssumption
<1>2. Build(item, s) \in Object
  BY <1>1, BuildType
<1>3. CASE item.kind # "statefulset"
  BY <1>2, <1>3 DEF Value
<1>4. CASE item.kind = "statefulset"
  <2>1. s.image \in ImageSpec
    BY <1>1, ImagesAssumption DEF AirflowClusterSpec
  <2>2. BuildVersion[m] \in Tags /\ DefaultProductVersion \in Tags
    BY ManagersAssumption, ImagesAssumption DEF DefaultProductVersion
  <2>3. GetImage(s.image, m) \in Images
    BY <2>1, <2>2, ImagesAssumption DEF GetImage, ImageSpec
  <2>4. s.roles[item.role] \in RoleSpec
    BY <1>1 DEF AirflowClusterSpec, Item, RoleGroupsOf
  <2>5. s.roles[item.role].groups[item.group] \in GroupSpec
    BY <2>4 DEF RoleSpec, Item, RoleGroupsOf
  <2>6. GroupConfig(s, item.role, item.group) \in OptionalConfig
    BY <2>4, <2>5 DEF GroupConfig, MergeObject, RoleSpec, GroupSpec
  <2>7. Build(item, s) \in StatefulSet
    <3>1. s.image \in Images
      BY <1>1 DEF AirflowClusterSpec
    <3> QED
      BY <1>4, <2>5, <2>6, <3>1
         DEF Build, BuildStatefulSet, StatefulSet, GroupSpec
  <2>8. [Build(item, s) EXCEPT !.image = GetImage(s.image, m)] \in StatefulSet
    BY <2>3, <2>7 DEF StatefulSet
  <2> QED
    BY <1>4, <2>8 DEF Value, Object
<1> QED
  BY <1>3, <1>4

-----------------------------------------------------------------------------
(* The invariant.                                                          *)

\* Only an active manager has work, and a pass works on a version that exists
\* and that the manager has seen.
ManagerInv(m) ==
    /\ queue[m] \/ delayed[m] \/ Running(m) => status[m] = "active"
    /\ Running(m) => history[snap[m]] # None /\ snap[m] <= seen[m]

IInv ==
    /\ TypeOK
    /\ history # <<>>
    /\ \A m \in Manager : ManagerInv(m)

\* The invariant holds at first: no manager has seen or done anything.
LEMMA InitIInv == Init => IInv
<1> SUFFICES ASSUME Init PROVE IInv
  OBVIOUS
<1>1. PICK s \in Specs : history = <<s>>
  BY DEF Init
<1>2. history \in Seq(Specs \cup {None}) /\ Len(history) = 1 /\ history # <<>>
  BY <1>1
<1>3. objects \in [Key -> ManagedObject \cup {Absent}]
  BY DEF Init, NoObjects
<1>4. cached \in [Manager -> [Key -> ManagedObject \cup {Absent}]]
  BY DEF Init, NoObjects
<1>5. /\ status \in [Manager -> {"absent", "starting", "active", "gone"}]
      /\ fresh \in [Manager -> SUBSET Key]
      /\ queue \in [Manager -> BOOLEAN]
      /\ delayed \in [Manager -> BOOLEAN]
  BY DEF Init
<1>6. /\ seen \in [Manager -> 0..Len(history)]
      /\ snap \in [Manager -> 0..Len(history)]
      /\ next \in [Manager -> Nat \ {0}]
      /\ applied \in [Key -> 0..Len(history)]
      /\ faults \in 0..MaxFaults
  BY <1>2, BoundsAssumption DEF Init
<1>7. TypeOK
  BY <1>2, <1>3, <1>4, <1>5, <1>6 DEF TypeOK, Init, Disturbance
<1>8. \A m \in Manager : ManagerInv(m)
  BY DEF Init, ManagerInv, Running
<1> QED
  BY <1>2, <1>7, <1>8 DEF IInv

\* What a manager writes next is an object under one of the keys.
LEMMA WantedType ==
    ASSUME IInv, NEW m \in Manager, Walking(m)
    PROVE  /\ KeyAt(m) \in Key
           /\ Wanted(m) \in ManagedObject
           /\ snap[m] \in 1..Len(history)
<1>1. snap[m] \in 1..Len(history)
  BY DEF IInv, TypeOK, Walking, Running
<1> DEFINE s == history[snap[m]]
<1>2. s \in Specs
  BY <1>1 DEF IInv, TypeOK, ManagerInv, Walking
<1>3. next[m] \in 1..Len(Plan(s))
  <2>1. next[m] \in Nat \ {0} /\ next[m] <= Len(Plan(s))
    BY DEF IInv, TypeOK, Walking
  <2>2. Len(Plan(s)) \in Nat
    BY <1>2, PlanType
  <2> HIDE DEF s
  <2> QED
    BY <2>1, <2>2
<1>4. /\ ItemOf(m) \in Item
      /\ <<ItemOf(m).role, ItemOf(m).group>> \in RoleGroupsOf(s)
  <2> HIDE DEF s
  <2>1. /\ Plan(s)[next[m]] \in Item
        /\ <<Plan(s)[next[m]].role, Plan(s)[next[m]].group>> \in RoleGroupsOf(s)
    BY <1>2, <1>3, PlanType
  <2> QED
    BY <2>1 DEF ItemOf, s
<1>5. Value(ItemOf(m), s, m) \in Object
  BY <1>2, <1>4, ValueType
<1>6. Incarnation(snap[m]) \in SUBSET Nat
  BY <1>1 DEF Incarnation
<1> QED
  BY <1>1, <1>4, <1>5, <1>6, ItemKeyType
     DEF KeyAt, Wanted, Desired, ManagedObject

\* The API server and its other users keep the invariant.
LEMMA EnvironmentIInv ==
    ASSUME IInv, UserEdit \/ GarbageCollect \/ Drift
    PROVE  IInv'
<1>1. CASE UserEdit
  <2>1. PICK s \in Specs \cup {None} : history' = Append(history, s)
    BY <1>1 DEF UserEdit
  <2>2. UNCHANGED <<objects, status, seen, cached, fresh, queue, delayed, snap,
                    next, faults, applied>>
    BY <1>1 DEF UserEdit, perManager
  <2>3. /\ history' \in Seq(Specs \cup {None}) /\ history' # <<>>
        /\ Len(history) \in Nat /\ Len(history') = Len(history) + 1
        /\ \A v \in 1..Len(history) : history'[v] = history[v]
    <3>1. history \in Seq(Specs \cup {None})
      BY DEF IInv, TypeOK
    <3>2. history' \in Seq(Specs \cup {None}) /\ history' # <<>>
          /\ Len(history) \in Nat /\ Len(history') = Len(history) + 1
      BY <2>1, <3>1
    <3>3. \A v \in 1..Len(history) : history'[v] = history[v]
      BY <2>1, <3>1
    <3> QED
      BY <3>2, <3>3
  <2>4. /\ seen' \in [Manager -> 0..Len(history')]
        /\ snap' \in [Manager -> 0..Len(history')]
        /\ applied' \in [Key -> 0..Len(history')]
    BY <2>2, <2>3 DEF IInv, TypeOK
  <2>5. disturbed' \subseteq Disturbance
    BY <1>1 DEF UserEdit, IInv, TypeOK
  <2>6. TypeOK'
    BY <2>2, <2>3, <2>4, <2>5 DEF IInv, TypeOK
  <2>7. ASSUME NEW m \in Manager PROVE ManagerInv(m)'
    <3>1. ManagerInv(m) /\ snap[m] \in 0..Len(history)
      BY DEF IInv, TypeOK
    <3>2. Running(m) => snap[m] \in 1..Len(history)
      BY <3>1 DEF Running
    <3> QED
      BY <2>2, <2>3, <3>1, <3>2 DEF ManagerInv, Running
  <2> QED
    BY <2>3, <2>6, <2>7 DEF IInv
<1>2. CASE GarbageCollect
  <2>1. PICK k \in Key : Put(k, Absent)
    BY <1>2 DEF GarbageCollect
  <2>2. UNCHANGED <<history, status, seen, cached, queue, delayed, snap, next,
                    faults, disturbed, applied>>
    BY <1>2 DEF GarbageCollect
  <2>3. TypeOK'
    BY <2>1, <2>2 DEF Put, IInv, TypeOK
  <2> QED
    BY <2>2, <2>3 DEF IInv, ManagerInv, Running
<1>3. CASE Drift
  <2>1. PICK k \in Key, x \in ManagedObject \cup {Absent} : Put(k, x)
    <3>1. PICK k \in Key : objects[k] # Absent
             /\ \E x \in {Absent, [objects[k] EXCEPT !.value = Foreign]} : Put(k, x)
      BY <1>3 DEF Drift
    <3>2. objects[k] \in ManagedObject
      BY <3>1 DEF IInv, TypeOK
    <3>3. [objects[k] EXCEPT !.value = Foreign] \in ManagedObject
      BY <3>2 DEF ManagedObject
    <3> QED
      BY <3>1, <3>3
  <2>2. UNCHANGED <<history, status, seen, cached, queue, delayed, snap, next,
                    applied>>
    BY <1>3 DEF Drift
  <2>3. faults' \in 0..MaxFaults
    BY <1>3, BoundsAssumption DEF Drift, IInv, TypeOK
  <2>4. disturbed' \subseteq Disturbance
    BY <1>3 DEF Drift, Disturbance, IInv, TypeOK
  <2>5. TypeOK'
    BY <2>1, <2>2, <2>3, <2>4 DEF Put, IInv, TypeOK
  <2> QED
    BY <2>2, <2>5 DEF IInv, ManagerInv, Running
<1> QED
  BY <1>1, <1>2, <1>3

\* The start and the end of a manager keep the invariant.
LEMMA LifecycleIInv ==
    ASSUME IInv, NEW m \in Manager, Lifecycle(m)
    PROVE  IInv'
<1>1. ASSUME Launch(m) PROVE IInv'
  <2>1. /\ status' = [status EXCEPT ![m] = "starting"]
        /\ status[m] = "absent"
        /\ UNCHANGED <<history, objects, seen, cached, fresh, queue, delayed,
                       snap, next, faults, disturbed, applied>>
    BY <1>1 DEF Launch
  <2>2. TypeOK'
    BY <2>1 DEF IInv, TypeOK
  <2>3. \A n \in Manager : ManagerInv(n)'
    BY <2>1 DEF IInv, TypeOK, ManagerInv, Running
  <2> QED
    BY <2>1, <2>2, <2>3 DEF IInv
<1>2. ASSUME NEW v \in Versions, StartController(m, v), Newest(v) PROVE IInv'
  <2>1. v \in 0..Len(history) /\ seen[m] <= v
    BY <1>2 DEF Versions, Newest
  <2>2. /\ status' = [status EXCEPT ![m] = "active"]
        /\ seen' = [seen EXCEPT ![m] = v]
        /\ cached' = [cached EXCEPT ![m] = objects]
        /\ fresh' = [fresh EXCEPT ![m] = Key]
        /\ queue' = [queue EXCEPT ![m] = (history[v] # None)]
        /\ UNCHANGED <<history, objects, delayed, snap, next, faults,
                       disturbed, applied>>
    BY <1>2 DEF StartController
  <2>3. TypeOK'
    BY <2>1, <2>2 DEF IInv, TypeOK
  <2>4. ASSUME NEW n \in Manager PROVE ManagerInv(n)'
    <3>1. status'[n] = "active" \/ (status'[n] = status[n] /\ queue'[n] = queue[n])
      BY <2>2 DEF IInv, TypeOK
    <3>2. seen[n] <= seen'[n] /\ seen[n] \in Nat /\ seen'[n] \in Nat /\ snap[n] \in Nat
      BY <2>1, <2>2 DEF IInv, TypeOK
    <3>3. ManagerInv(n)
      BY DEF IInv
    <3> QED
      BY <2>2, <3>1, <3>2, <3>3 DEF ManagerInv, Running
  <2> QED
    BY <2>2, <2>3, <2>4 DEF IInv
<1>3. ASSUME Forget(m),
             NEW x \in {"starting", "gone"}, status' = [status EXCEPT ![m] = x],
             faults' \in 0..MaxFaults, disturbed' \subseteq Disturbance,
             UNCHANGED <<history, objects, seen, applied>>
      PROVE  IInv'
  <2>1. /\ cached' = [cached EXCEPT ![m] = NoObjects]
        /\ fresh' = [fresh EXCEPT ![m] = {}]
        /\ queue' = [queue EXCEPT ![m] = FALSE]
        /\ delayed' = [delayed EXCEPT ![m] = FALSE]
        /\ snap' = [snap EXCEPT ![m] = 0]
        /\ next' = [next EXCEPT ![m] = 1]
    BY <1>3 DEF Forget
  <2>2. NoObjects \in [Key -> ManagedObject \cup {Absent}] /\ Len(history) \in Nat
    BY DEF NoObjects, IInv, TypeOK
  <2>3. TypeOK'
    BY <1>3, <2>1, <2>2 DEF IInv, TypeOK
  <2>4. ASSUME NEW n \in Manager PROVE ManagerInv(n)'
    <3>1. CASE n = m
      BY <2>1, <3>1 DEF IInv, TypeOK, ManagerInv, Running
    <3>2. CASE n # m
      BY <1>3, <2>1, <3>2 DEF IInv, TypeOK, ManagerInv, Running
    <3> QED
      BY <3>1, <3>2
  <2> QED
    BY <1>3, <2>3, <2>4 DEF IInv
<1>4. ASSUME Crash(m) PROVE IInv'
  <2>1. faults' \in 0..MaxFaults
    BY <1>4, BoundsAssumption DEF Crash, IInv, TypeOK
  <2>2. disturbed' \subseteq Disturbance
    BY <1>4 DEF Crash, IInv, TypeOK
  <2> QED
    BY <1>3, <1>4, <2>1, <2>2 DEF Crash
<1>5. ASSUME Retire(m) PROVE IInv'
  <2>1. faults' \in 0..MaxFaults
    BY <1>5 DEF Retire, IInv, TypeOK
  <2>2. disturbed' \subseteq Disturbance
    BY <1>5 DEF Retire, Disturbance, IInv, TypeOK
  <2> QED
    BY <1>3, <1>5, <2>1, <2>2 DEF Retire
<1> QED
  BY <1>1, <1>2, <1>4, <1>5 DEF Lifecycle, Activate

\* What the caches and the timer bring keeps the invariant.
LEMMA CacheIInv ==
    ASSUME IInv, NEW m \in Manager,
           Deliver(m) \/ (\E k \in Key : Sync(m, k)) \/ DelayOver(m)
    PROVE  IInv'
<1>1. CASE Deliver(m)
  <2>1. PICK v \in seen[m] + 1..Len(history) : seen' = [seen EXCEPT ![m] = v]
    BY <1>1 DEF Deliver
  <2>2. /\ queue' = [queue EXCEPT ![m] = TRUE]
        /\ status[m] = "active"
        /\ UNCHANGED <<history, objects, status, cached, fresh, delayed, snap,
                       next, faults, disturbed, applied>>
    BY <1>1 DEF Deliver
  <2>3. v \in 0..Len(history) /\ seen[m] <= v /\ seen[m] \in Nat
    BY DEF IInv, TypeOK
  <2>4. TypeOK'
    BY <2>1, <2>2, <2>3 DEF IInv, TypeOK
  <2>5. ASSUME NEW n \in Manager PROVE ManagerInv(n)'
    <3>1. seen[n] <= seen'[n] /\ seen[n] \in Nat /\ seen'[n] \in Nat /\ snap[n] \in Nat
      BY <2>1, <2>3 DEF IInv, TypeOK
    <3>2. queue'[n] => queue[n] \/ status[n] = "active"
      BY <2>2 DEF IInv, TypeOK
    <3>3. ManagerInv(n)
      BY DEF IInv
    <3> QED
      BY <2>2, <3>1, <3>2, <3>3 DEF ManagerInv, Running
  <2> QED
    BY <2>2, <2>4, <2>5 DEF IInv
<1>2. CASE \E k \in Key : Sync(m, k)
  <2>1. PICK k \in Key : Sync(m, k)
    BY <1>2
  <2>2. /\ cached' = [cached EXCEPT ![m] = [cached[m] EXCEPT ![k] = objects[k]]]
        /\ fresh' = [fresh EXCEPT ![m] = fresh[m] \cup {k}]
        /\ UNCHANGED <<history, objects, status, seen, queue, delayed, snap,
                       next, faults, disturbed, applied>>
    BY <2>1 DEF Sync
  <2>3. [cached[m] EXCEPT ![k] = objects[k]] \in [Key -> ManagedObject \cup {Absent}]
    BY DEF IInv, TypeOK
  <2>4. TypeOK'
    BY <2>2, <2>3 DEF IInv, TypeOK
  <2>5. \A n \in Manager : ManagerInv(n)'
    BY <2>2 DEF IInv, ManagerInv, Running
  <2> QED
    BY <2>2, <2>4, <2>5 DEF IInv
<1>3. CASE DelayOver(m)
  <2>1. /\ delayed[m]
        /\ delayed' = [delayed EXCEPT ![m] = FALSE]
        /\ queue' = [queue EXCEPT ![m] = TRUE]
        /\ UNCHANGED <<history, objects, status, seen, cached, fresh, snap,
                       next, faults, disturbed, applied>>
    BY <1>3 DEF DelayOver
  <2>2. TypeOK'
    BY <2>1 DEF IInv, TypeOK
  <2>3. ASSUME NEW n \in Manager PROVE ManagerInv(n)'
    <3>1. queue'[n] \/ delayed'[n] => queue[n] \/ delayed[n]
      BY <2>1 DEF IInv, TypeOK
    <3>2. ManagerInv(n)
      BY DEF IInv
    <3> QED
      BY <2>1, <3>1, <3>2 DEF ManagerInv, Running
  <2> QED
    BY <2>1, <2>2, <2>3 DEF IInv
<1> QED
  BY <1>1, <1>2, <1>3

\* A pass that ends for m while other managers go on: what keeps the
\* invariant about the managers.
LEMMA EndOfPass ==
    ASSUME IInv, NEW m \in Manager, status[m] = "active", EndPass(m),
           history' = history, status' = status, seen' = seen,
           queue' \in [Manager -> BOOLEAN], delayed' \in [Manager -> BOOLEAN],
           \A n \in Manager \ {m} : queue'[n] = queue[n] /\ delayed'[n] = delayed[n]
    PROVE  /\ snap' \in [Manager -> 0..Len(history)]
           /\ next' \in [Manager -> Nat \ {0}]
           /\ \A n \in Manager : ManagerInv(n)'
<1>1. /\ snap' = [snap EXCEPT ![m] = 0]
      /\ next' = [next EXCEPT ![m] = 1]
  BY DEF EndPass
<1>2. /\ snap' \in [Manager -> 0..Len(history)]
      /\ next' \in [Manager -> Nat \ {0}]
  BY <1>1 DEF IInv, TypeOK
<1>3. ASSUME NEW n \in Manager PROVE ManagerInv(n)'
  <2>1. CASE n = m
    BY <1>1, <2>1 DEF IInv, TypeOK, ManagerInv, Running
  <2>2. CASE n # m
    BY <1>1, <2>2 DEF IInv, TypeOK, ManagerInv, Running
  <2> QED
    BY <2>1, <2>2
<1> QED
  BY <1>2, <1>3

\* A write keeps the invariant, whether its answer arrives or is lost.
LEMMA StoreIInv ==
    ASSUME IInv, NEW m \in Manager, Write(m) \/ WriteAnswerLost(m)
    PROVE  IInv'
<1>1. /\ Walking(m)
      /\ Put(KeyAt(m), Wanted(m))
      /\ applied' = [applied EXCEPT ![KeyAt(m)] = snap[m]]
      /\ EndPass(m)
      /\ history' = history /\ status' = status /\ seen' = seen /\ cached' = cached
  BY DEF Write, WriteAnswerLost, Store
<1>2. /\ KeyAt(m) \in Key /\ Wanted(m) \in ManagedObject
      /\ snap[m] \in 1..Len(history)
  BY <1>1, WantedType
<1>3. status[m] = "active"
  BY <1>1 DEF IInv, ManagerInv, Walking
<1>4. /\ queue' \in [Manager -> BOOLEAN] /\ delayed' \in [Manager -> BOOLEAN]
      /\ \A n \in Manager \ {m} : queue'[n] = queue[n] /\ delayed'[n] = delayed[n]
  BY DEF Write, WriteAnswerLost, IInv, TypeOK
<1>5. faults' \in 0..MaxFaults /\ disturbed' \subseteq Disturbance
  <2>1. faults \in 0..MaxFaults /\ disturbed \subseteq Disturbance
    BY DEF IInv, TypeOK
  <2>2. CASE Write(m)
    BY <2>1, <2>2 DEF Write
  <2>3. CASE WriteAnswerLost(m)
    <3>1. faults' = faults + 1 /\ faults < MaxFaults
          /\ disturbed' = disturbed \cup {"lost"}
      BY <2>3 DEF WriteAnswerLost
    <3>2. faults' \in 0..MaxFaults
      BY <2>1, <3>1, BoundsAssumption
    <3> QED
      BY <2>1, <3>1, <3>2 DEF Disturbance
  <2> QED
    BY <2>2, <2>3
<1>6. /\ snap' \in [Manager -> 0..Len(history)]
      /\ next' \in [Manager -> Nat \ {0}]
      /\ \A n \in Manager : ManagerInv(n)'
  BY <1>1, <1>3, <1>4, EndOfPass
<1>7. applied' \in [Key -> 0..Len(history)]
  BY <1>1, <1>2 DEF IInv, TypeOK
<1>8. /\ objects' \in [Key -> ManagedObject \cup {Absent}]
      /\ fresh' \in [Manager -> SUBSET Key]
  BY <1>1, <1>2 DEF Put, IInv, TypeOK
<1>9. TypeOK'
  BY <1>1, <1>4, <1>5, <1>6, <1>7, <1>8 DEF IInv, TypeOK
<1> QED
  BY <1>1, <1>6, <1>9 DEF IInv

\* Every step of a pass keeps the invariant.
LEMMA PassIInv ==
    ASSUME IInv, NEW m \in Manager, PassStep(m) \/ WriteAnswerLost(m)
    PROVE  IInv'
<1>1. CASE StartReconcile(m)
  <2> DEFINE v == IF history[seen[m]] = None THEN 0 ELSE seen[m]
  <2>1. /\ queue[m]
        /\ queue' = [queue EXCEPT ![m] = FALSE]
        /\ snap' = [snap EXCEPT ![m] = v]
        /\ UNCHANGED <<history, objects, status, seen, cached, fresh, delayed,
                       next, faults, disturbed, applied>>
    BY <1>1 DEF StartReconcile
  <2>2. /\ v \in 0..Len(history) /\ v <= seen[m]
        /\ v # 0 => history[v] # None
    BY DEF IInv, TypeOK
  <2> HIDE DEF v
  <2>3. TypeOK'
    BY <2>1, <2>2 DEF IInv, TypeOK
  <2>4. ASSUME NEW n \in Manager PROVE ManagerInv(n)'
    <3>1. CASE n = m
      BY <2>1, <2>2, <3>1 DEF IInv, TypeOK, ManagerInv, Running
    <3>2. CASE n # m
      BY <2>1, <3>2 DEF IInv, TypeOK, ManagerInv, Running
    <3> QED
      BY <3>1, <3>2
  <2> QED
    BY <2>1, <2>3, <2>4 DEF IInv
<1>2. CASE Keep(m)
  <2>1. /\ next' = [next EXCEPT ![m] = next[m] + 1]
        /\ UNCHANGED <<history, objects, status, seen, cached, fresh, queue,
                       delayed, snap, faults, disturbed, applied>>
    BY <1>2 DEF Keep
  <2>2. next[m] + 1 \in Nat \ {0}
    BY DEF IInv, TypeOK
  <2>3. TypeOK'
    BY <2>1, <2>2 DEF IInv, TypeOK
  <2> QED
    BY <2>1, <2>3 DEF IInv, ManagerInv, Running
<1>3. CASE Write(m) \/ WriteAnswerLost(m)
  BY <1>3, StoreIInv
<1>4. CASE Conflict(m) \/ Finish(m)
  <2>1. /\ EndPass(m)
        /\ history' = history /\ objects' = objects /\ status' = status
        /\ seen' = seen /\ cached' = cached /\ fresh' = fresh
        /\ faults' = faults /\ disturbed' = disturbed /\ applied' = applied
    BY <1>4 DEF Conflict, Finish
  <2>2. status[m] = "active"
    BY <1>4 DEF Conflict, Finish, Walking, IInv, ManagerInv
  <2>3. /\ queue' \in [Manager -> BOOLEAN] /\ delayed' \in [Manager -> BOOLEAN]
        /\ \A n \in Manager \ {m} : queue'[n] = queue[n] /\ delayed'[n] = delayed[n]
    <3>1. CASE Conflict(m)
      BY <3>1 DEF Conflict, IInv, TypeOK
    <3>2. CASE Finish(m)
      <4>1. PICK b \in BOOLEAN : delayed' = [delayed EXCEPT ![m] = delayed[m] \/ b]
        BY <3>2 DEF Finish
      <4>2. (delayed[m] \/ b) \in BOOLEAN
        OBVIOUS
      <4>3. queue' = queue
        BY <3>2 DEF Finish
      <4> QED
        BY <4>1, <4>2, <4>3 DEF IInv, TypeOK
    <3> QED
      BY <1>4, <3>1, <3>2
  <2>4. /\ snap' \in [Manager -> 0..Len(history)]
        /\ next' \in [Manager -> Nat \ {0}]
        /\ \A n \in Manager : ManagerInv(n)'
    BY <2>1, <2>2, <2>3, EndOfPass
  <2>5. TypeOK'
    BY <2>1, <2>3, <2>4 DEF IInv, TypeOK
  <2> QED
    BY <2>1, <2>4, <2>5 DEF IInv
<1> QED
  BY <1>1, <1>2, <1>3, <1>4 DEF PassStep

\* Every step keeps the invariant.
LEMMA NextIInv == IInv /\ [Next]_vars => IInv'
<1> SUFFICES ASSUME IInv, [Next]_vars PROVE IInv'
  OBVIOUS
<1>1. CASE UserEdit \/ GarbageCollect \/ Drift
  BY <1>1, EnvironmentIInv
<1>2. ASSUME NEW m \in Manager, Lifecycle(m) PROVE IInv'
  BY <1>2, LifecycleIInv
<1>3. ASSUME NEW m \in Manager,
             Deliver(m) \/ (\E k \in Key : Sync(m, k)) \/ DelayOver(m)
      PROVE  IInv'
  BY <1>3, CacheIInv
<1>4. ASSUME NEW m \in Manager, PassStep(m) \/ WriteAnswerLost(m) PROVE IInv'
  BY <1>4, PassIInv
<1>5. CASE UNCHANGED vars
  BY <1>5 DEF vars, perManager, IInv, TypeOK, ManagerInv, Running
<1> QED
  BY <1>1, <1>2, <1>3, <1>4, <1>5 DEF Next

\* The invariant holds in every reachable state.
LEMMA Invariance == Spec => []IInv
BY InitIInv, NextIInv, PTL DEF Spec

\* Every variable keeps its type, for any number of managers and role groups,
\* with or without leader election.
THEOREM TypeCorrect == Spec => []TypeOK
<1>1. IInv => TypeOK
  BY DEF IInv
<1> QED
  BY <1>1, Invariance, PTL

-----------------------------------------------------------------------------
(* With leader election.                                                   *)

\* One manager is active at a time.  No object is ahead of what it has seen
\* and, during a pass, of the version it works on; and some manager, active or
\* not, has seen the version of each object, so that a successor that has seen
\* as much starts from there.
Serial ==
    /\ \A m, n \in Manager :
          status[m] = "active" /\ status[n] = "active" => m = n
    /\ \A m \in Manager, k \in Key : status[m] = "active" => applied[k] <= seen[m]
    /\ \A m \in Manager, k \in Key : Running(m) => applied[k] <= snap[m]
    /\ \A k \in Key : \E m \in Manager : applied[k] <= seen[m]

\* At first no manager is active and no object applied.
LEMMA InitSerial == Init => Serial
<1> SUFFICES ASSUME Init PROVE Serial
  OBVIOUS
<1>1. \A m \in Manager : status[m] # "active" /\ ~Running(m)
  BY DEF Init, Running
<1>2. 1 \in Manager
  BY ManagersAssumption DEF Manager
<1>3. \A k \in Key : applied[k] <= seen[1]
  BY <1>2 DEF Init
<1> QED
  BY <1>1, <1>2, <1>3 DEF Serial

\* Steps that write no object, start no manager and no pass.
LEMMA QuietStep ==
    ASSUME IInv, IInv', Serial, applied' = applied,
           \A m \in Manager :
              /\ seen[m] <= seen'[m]
              /\ status'[m] = "active" => status[m] = "active"
              /\ snap'[m] \in {0, snap[m]}
    PROVE  Serial'
<1>1. /\ \A k \in Key : applied[k] \in Nat
      /\ \A m \in Manager : seen[m] \in Nat /\ seen'[m] \in Nat /\ snap[m] \in Nat
  BY DEF IInv, TypeOK
<1>2. \A m, n \in Manager : status'[m] = "active" /\ status'[n] = "active" => m = n
  BY DEF Serial
<1>3. \A m \in Manager, k \in Key : status'[m] = "active" => applied[k] <= seen'[m]
  BY <1>1 DEF Serial
<1>4. \A m \in Manager, k \in Key : snap'[m] # 0 => applied[k] <= snap'[m]
  BY <1>1 DEF Serial, Running
<1>5. \A k \in Key : \E m \in Manager : applied[k] <= seen'[m]
  <2> SUFFICES ASSUME NEW k \in Key PROVE \E m \in Manager : applied[k] <= seen'[m]
    OBVIOUS
  <2>1. PICK m \in Manager : applied[k] <= seen[m]
    BY DEF Serial
  <2>2. applied[k] <= seen'[m]
    BY <1>1, <2>1
  <2> QED
    BY <2>2
<1> QED
  BY <1>2, <1>3, <1>4, <1>5 DEF Serial, Running

\* A manager becomes active when no other is, with the newest version any of
\* them has seen.
LEMMA ActivateSerial ==
    ASSUME LeaderElect, IInv, Serial, NEW m \in Manager, Activate(m)
    PROVE  Serial'
<1>1. PICK v \in Versions : Newest(v) /\ StartController(m, v)
  BY DEF Activate
<1>2. /\ status' = [status EXCEPT ![m] = "active"]
      /\ seen' = [seen EXCEPT ![m] = v]
      /\ snap' = snap /\ applied' = applied
  BY <1>1 DEF StartController
<1>3. \A n \in Manager \ {m} : status[n] # "active"
  BY DEF Activate, Elected
<1>4. \A n \in Manager : status'[n] = "active" => n = m
  BY <1>2, <1>3 DEF IInv, TypeOK
<1>5. seen'[m] = v
  BY <1>2 DEF IInv, TypeOK
<1>6. ASSUME NEW k \in Key PROVE applied[k] <= v
  <2>1. PICK n \in Manager : applied[k] <= seen[n]
    BY DEF Serial
  <2>2. seen[n] <= v
    BY <1>1 DEF Newest
  <2>3. applied[k] \in Nat /\ seen[n] \in Nat /\ v \in Nat
    BY DEF IInv, TypeOK, Versions
  <2> QED
    BY <2>1, <2>2, <2>3
<1> QED
  BY <1>2, <1>4, <1>5, <1>6 DEF Serial, Running

\* A write takes an object to the version of the pass, which is the newest any
\* object has.
LEMMA StoreSerial ==
    ASSUME IInv, Serial, NEW m \in Manager, Write(m) \/ WriteAnswerLost(m)
    PROVE  Serial' /\ \A k \in Key : applied'[k] >= applied[k]
<1>1. /\ Walking(m)
      /\ applied' = [applied EXCEPT ![KeyAt(m)] = snap[m]]
      /\ EndPass(m)
      /\ status' = status /\ seen' = seen
  BY DEF Write, WriteAnswerLost, Store
<1>2. KeyAt(m) \in Key
  BY <1>1, WantedType
<1>3. status[m] = "active" /\ Running(m) /\ snap[m] <= seen[m]
  BY <1>1 DEF IInv, ManagerInv, Walking
<1>4. \A n \in Manager : Running(n) => n = m
  BY <1>3 DEF Serial, IInv, ManagerInv
<1>5. \A n \in Manager : snap'[n] = 0
  BY <1>1, <1>4 DEF EndPass, IInv, TypeOK, Running
<1>6. /\ \A k \in Key : applied[k] \in Nat
      /\ seen[m] \in Nat /\ snap[m] \in Nat
  BY DEF IInv, TypeOK
<1>7. \A k \in Key : applied'[k] = applied[k] \/ applied'[k] = snap[m]
  BY <1>1, <1>2 DEF IInv, TypeOK
<1>8. \A k \in Key : applied[k] <= snap[m]
  BY <1>3 DEF Serial
<1>9. \A k \in Key : applied'[k] >= applied[k]
  BY <1>6, <1>7, <1>8
<1>10. \A k \in Key : applied'[k] <= seen[m]
  BY <1>3, <1>6, <1>7, <1>8
<1>11. \A n \in Manager : status[n] = "active" => n = m
  BY <1>3 DEF Serial
<1>12. Serial'
  BY <1>1, <1>5, <1>10, <1>11 DEF Serial, Running
<1> QED
  BY <1>9, <1>12

\* A pass that starts works on what its manager has seen.
LEMMA StartSerial ==
    ASSUME IInv, Serial, NEW m \in Manager, StartReconcile(m)
    PROVE  Serial'
<1>1. /\ snap' = [snap EXCEPT ![m] = IF history[seen[m]] = None THEN 0 ELSE seen[m]]
      /\ queue[m]
      /\ status' = status /\ seen' = seen /\ applied' = applied
  BY DEF StartReconcile
<1>2. status[m] = "active"
  BY <1>1 DEF IInv, ManagerInv
<1>3. \A k \in Key : applied[k] <= seen[m]
  BY <1>2 DEF Serial
<1>4. snap'[m] \in {0, seen[m]} /\ \A n \in Manager \ {m} : snap'[n] = snap[n]
  BY <1>1 DEF IInv, TypeOK
<1>5. ASSUME NEW n \in Manager, NEW k \in Key, snap'[n] # 0
      PROVE  applied[k] <= snap'[n]
  <2>1. CASE n = m
    BY <1>3, <1>4, <1>5, <2>1
  <2>2. CASE n # m
    BY <1>4, <1>5, <2>2 DEF Serial, Running
  <2> QED
    BY <2>1, <2>2
<1> QED
  BY <1>1, <1>5 DEF Serial, Running

\* With leader election every step keeps the invariant and takes no object
\* back.
LEMMA NextSerial ==
    ASSUME LeaderElect, IInv, IInv', Serial, [Next]_vars
    PROVE  Serial' /\ \A k \in Key : applied'[k] >= applied[k]
<1>1. /\ \A k \in Key : applied[k] \in Nat
      /\ \A m \in Manager : seen[m] \in Nat /\ snap[m] \in Nat
  BY DEF IInv, TypeOK
<1>2. applied' = applied => \A k \in Key : applied'[k] >= applied[k]
  BY <1>1
<1>3. CASE UserEdit \/ GarbageCollect \/ Drift \/ UNCHANGED vars
  <2>1. applied' = applied /\ seen' = seen /\ status' = status /\ snap' = snap
    BY <1>3 DEF UserEdit, GarbageCollect, Drift, vars, perManager
  <2> QED
    BY <1>1, <1>2, <2>1, QuietStep
<1>4. ASSUME NEW m \in Manager, Lifecycle(m) PROVE Serial' /\ applied' = applied
  <2>1. CASE Activate(m)
    BY <2>1, ActivateSerial DEF Activate, StartController
  <2>2. CASE Launch(m)
    <3>1. applied' = applied /\ seen' = seen /\ snap' = snap
          /\ status' = [status EXCEPT ![m] = "starting"]
      BY <2>2 DEF Launch
    <3>2. \A n \in Manager : status'[n] = "active" => status[n] = "active"
      BY <3>1 DEF IInv, TypeOK
    <3> QED
      BY <1>1, <3>1, <3>2, QuietStep
  <2>3. CASE Crash(m) \/ Retire(m)
    <3>1. applied' = applied /\ seen' = seen /\ snap' = [snap EXCEPT ![m] = 0]
          /\ \E x \in {"starting", "gone"} : status' = [status EXCEPT ![m] = x]
      BY <2>3 DEF Crash, Retire, Forget
    <3>2. \A n \in Manager : status'[n] = "active" => status[n] = "active"
      BY <3>1 DEF IInv, TypeOK
    <3>3. \A n \in Manager : snap'[n] \in {0, snap[n]}
      BY <3>1 DEF IInv, TypeOK
    <3> QED
      BY <1>1, <3>1, <3>2, <3>3, QuietStep
  <2> QED
    BY <1>4, <2>1, <2>2, <2>3 DEF Lifecycle
<1>5. ASSUME NEW m \in Manager,
             Deliver(m) \/ (\E k \in Key : Sync(m, k)) \/ DelayOver(m)
      PROVE  Serial' /\ applied' = applied
  <2>1. applied' = applied /\ status' = status /\ snap' = snap
    BY <1>5 DEF Deliver, Sync, DelayOver
  <2>2. \A n \in Manager : seen[n] <= seen'[n]
    <3>1. CASE Deliver(m)
      <4>1. PICK v \in seen[m] + 1..Len(history) : seen' = [seen EXCEPT ![m] = v]
        BY <3>1 DEF Deliver
      <4>2. seen[m] <= v
        BY <1>1
      <4>3. seen \in [Manager -> Nat]
        BY DEF IInv, TypeOK
      <4> QED
        BY <4>1, <4>2, <4>3
    <3>2. CASE seen' = seen
      BY <1>1, <3>2
    <3> QED
      BY <1>5, <3>1, <3>2 DEF Sync, DelayOver
  <2> QED
    BY <2>1, <2>2, QuietStep
<1>6. ASSUME NEW m \in Manager, Keep(m) \/ Conflict(m) \/ Finish(m)
      PROVE  Serial' /\ applied' = applied
  <2>1. applied' = applied /\ status' = status /\ seen' = seen
        /\ (snap' = snap \/ snap' = [snap EXCEPT ![m] = 0])
    BY <1>6 DEF Keep, Conflict, Finish, EndPass
  <2>2. \A n \in Manager : snap'[n] \in {0, snap[n]}
    BY <2>1 DEF IInv, TypeOK
  <2> QED
    BY <1>1, <2>1, <2>2, QuietStep
<1>7. ASSUME NEW m \in Manager, StartReconcile(m)
      PROVE  Serial' /\ applied' = applied
  BY <1>7, StartSerial DEF StartReconcile
<1>8. ASSUME NEW m \in Manager, Write(m) \/ WriteAnswerLost(m)
      PROVE  Serial' /\ \A k \in Key : applied'[k] >= applied[k]
  BY <1>8, StoreSerial
<1>9. ASSUME NEW m \in Manager, PassStep(m) \/ WriteAnswerLost(m)
      PROVE  Serial' /\ \A k \in Key : applied'[k] >= applied[k]
  BY <1>2, <1>6, <1>7, <1>8, <1>9 DEF PassStep
<1>10. CASE Next
  BY <1>2, <1>3, <1>4, <1>5, <1>9, <1>10 DEF Next
<1> QED
  BY <1>3, <1>10

\* With leader election no object goes back to an older version, for any
\* number of managers that crash and replace each other in the middle of a
\* pass, and whatever their caches show.
THEOREM NoManagerRollsBackHolds ==
    ASSUME LeaderElect
    PROVE  Spec => NoManagerRollsBack
<1>1. Init => IInv /\ Serial
  BY InitIInv, InitSerial
<1>2. IInv /\ Serial /\ [Next]_vars => (IInv /\ Serial)'
  BY NextIInv, NextSerial
<1>3. IInv /\ IInv' /\ Serial /\ [Next]_vars
         => [\A k \in Key : applied'[k] >= applied[k]]_applied
  BY NextSerial
<1> QED
  BY <1>1, <1>2, <1>3, PTL DEF Spec, NoManagerRollsBack

-----------------------------------------------------------------------------
(* The manager that writes alone.                                          *)

\* A step that leaves alone what m works with.
Unaffected(m) ==
    /\ UNCHANGED <<history, objects, disturbed>>
    /\ seen'[m] = seen[m] /\ cached'[m] = cached[m] /\ fresh'[m] = fresh[m]
    /\ queue'[m] = queue[m] /\ delayed'[m] = delayed[m]
    /\ snap'[m] = snap[m] /\ next'[m] = next[m]

\* A step of m other than a write whose answer is lost.
OwnStep(m) ==
    Deliver(m) \/ (\E k \in Key : Sync(m, k)) \/ DelayOver(m) \/ PassStep(m)

\* Only an active manager does anything but start.
LEMMA ActiveStep ==
    ASSUME IInv, NEW n \in Manager, OwnStep(n) \/ WriteAnswerLost(n)
    PROVE  status[n] = "active" /\ status' = status
<1>1. ManagerInv(n)
  BY DEF IInv
<1>2. CASE Deliver(n) \/ (\E k \in Key : Sync(n, k))
  BY <1>2 DEF Deliver, Sync
<1>3. CASE DelayOver(n)
  BY <1>1, <1>3 DEF DelayOver, ManagerInv
<1>4. CASE StartReconcile(n)
  BY <1>1, <1>4 DEF StartReconcile, ManagerInv
<1>5. CASE Keep(n) \/ Conflict(n) \/ Finish(n)
  BY <1>1, <1>5 DEF Keep, Conflict, Finish, Walking, ManagerInv
<1>6. CASE Write(n) \/ WriteAnswerLost(n)
  BY <1>1, <1>6 DEF Write, WriteAnswerLost, Store, Walking, ManagerInv
<1> QED
  BY <1>2, <1>3, <1>4, <1>5, <1>6 DEF OwnStep, PassStep

\* While m writes alone, every step is one of the environment, one of its own or
\* one it does not notice.  It comes to write alone when it starts, or when it
\* is left behind by another manager, which counts as a disturbance.
LEMMA AloneStep ==
    ASSUME IInv, LeaderElect => Serial, [Next]_vars,
           NEW m \in Manager, Alone(m)'
    PROVE  \/ "overlap" \in disturbed' \/ "lost" \in disturbed'
           \/ \E v \in Versions : StartController(m, v)
           \/ /\ Alone(m)
              /\ \/ UserEdit \/ GarbageCollect \/ Drift
                 \/ OwnStep(m)
                 \/ Unaffected(m)
<1> USE DEF Alone
<1>1. status \in [Manager -> {"absent", "starting", "active", "gone"}]
  BY DEF IInv, TypeOK
<1>2. ASSUME NEW n \in Manager, status[n] = "active", status[m] = "active",
             LeaderElect \/ Alone(m)
      PROVE  n = m
  BY <1>2 DEF Serial
<1>3. CASE UserEdit \/ GarbageCollect \/ Drift
  BY <1>3 DEF UserEdit, GarbageCollect, Drift, perManager
<1>4. CASE UNCHANGED vars
  BY <1>4 DEF vars, perManager, Unaffected
<1>5. ASSUME NEW n \in Manager, OwnStep(n) \/ WriteAnswerLost(n)
      PROVE  /\ Alone(m)
             /\ OwnStep(m) \/ "lost" \in disturbed'
  <2>1. status[n] = "active" /\ status' = status
    BY <1>5, ActiveStep
  <2>2. n = m /\ Alone(m)
    BY <1>2, <2>1
  <2> QED
    BY <1>5, <2>2 DEF WriteAnswerLost
<1>6. ASSUME NEW n \in Manager, Launch(n)
      PROVE  Alone(m) /\ Unaffected(m)
  <2>1. status' = [status EXCEPT ![n] = "starting"]
    BY <1>6 DEF Launch
  <2>2. n # m /\ LeaderElect /\ status[m] = "active"
    BY <1>1, <2>1
  <2> QED
    BY <1>6, <2>2 DEF Launch, Unaffected
<1>7. ASSUME NEW n \in Manager, Activate(n)
      PROVE  \E v \in Versions : StartController(m, v)
  <2>1. PICK v \in Versions : StartController(n, v)
    BY <1>7 DEF Activate
  <2>2. status' = [status EXCEPT ![n] = "active"]
    BY <2>1 DEF StartController
  <2>3. n # m => LeaderElect /\ status[m] = "active"
    BY <1>1, <2>2
  <2>4. n = m
    BY <1>7, <2>3 DEF Activate, Elected
  <2> QED
    BY <2>1, <2>4
<1>8. ASSUME NEW n \in Manager, Crash(n) PROVE FALSE
  <2>1. status[n] = "active" /\ status' = [status EXCEPT ![n] = "starting"]
    BY <1>8 DEF Crash
  <2>2. n # m /\ LeaderElect /\ status[m] = "active"
    BY <1>1, <2>1
  <2> QED
    BY <1>2, <2>1, <2>2
<1>9. ASSUME NEW n \in Manager, Retire(n)
      PROVE  "overlap" \in disturbed' \/ (Alone(m) /\ Unaffected(m))
  <2>1. status' = [status EXCEPT ![n] = "gone"]
    BY <1>9 DEF Retire
  <2>2. n # m /\ status[m] = "active"
    BY <1>1, <2>1
  <2>3. CASE ~LeaderElect
    BY <1>9, <2>3 DEF Retire
  <2>4. CASE LeaderElect
    <3>1. UNCHANGED <<history, objects, seen, disturbed>> /\ Forget(n)
      BY <1>9, <2>4 DEF Retire
    <3>2. Unaffected(m)
      BY <2>2, <3>1 DEF Forget, Unaffected, IInv, TypeOK
    <3> QED
      BY <2>2, <2>4, <3>2
  <2> QED
    BY <2>3, <2>4
<1> QED
  BY <1>3, <1>4, <1>5, <1>6, <1>7, <1>8, <1>9 DEF Next, Lifecycle, OwnStep

-----------------------------------------------------------------------------
(* What a manager can tell from its copies.                                *)

\* The object x was written for an incarnation before the one of version v.
OwnedBefore(x, v) == x # Absent => x.owner \subseteq 1..v - 1

\* A copy that counts as fresh is the object, no owner is ahead of the history,
\* and a manager without a pass is at the start of its walk.
ViewInv ==
    /\ \A k \in Key : OwnedBefore(objects[k], Len(history))
    /\ \A m \in Manager :
          /\ \A k \in Key : OwnedBefore(cached[m][k], Len(history))
          /\ \A k \in fresh[m] : cached[m][k] = objects[k]
          /\ ~Running(m) => next[m] = 1

\* At first there are no objects and no copies.
LEMMA InitView == Init => ViewInv
BY DEF Init, ViewInv, NoObjects, OwnedBefore, Running

\* An object that changes is no fresh copy any more, so that only its owner
\* matters.
LEMMA PutView ==
    ASSUME IInv, ViewInv, NEW k \in Key, NEW x, Put(k, x),
           OwnedBefore(x, Len(history)),
           UNCHANGED <<history, cached>>,
           \A m \in Manager : snap'[m] = 0 => next'[m] = 1
    PROVE  ViewInv'
<1>1. /\ \A c \in Key : objects'[c] = IF c = k THEN x ELSE objects[c]
      /\ \A m \in Manager : fresh'[m] = fresh[m] \ {k}
      /\ \A m \in Manager : fresh[m] \subseteq Key
  BY DEF Put, IInv, TypeOK
<1>2. \A c \in Key : OwnedBefore(objects'[c], Len(history'))
  BY <1>1 DEF ViewInv
<1>3. \A m \in Manager : \A c \in fresh'[m] : cached'[m][c] = objects'[c]
  BY <1>1 DEF ViewInv
<1>4. \A m \in Manager, c \in Key : OwnedBefore(cached'[m][c], Len(history'))
  BY DEF ViewInv
<1> QED
  BY <1>2, <1>3, <1>4 DEF ViewInv, Running

\* Steps that change no object and no copy, but that a walk may end or go on.
LEMMA QuietView ==
    ASSUME IInv, ViewInv, UNCHANGED <<history, objects, cached, fresh>>,
           \A m \in Manager : snap'[m] = 0 => next'[m] = 1
    PROVE  ViewInv'
BY DEF ViewInv, Running

\* What m sees or loses of the objects when it starts, ends or is told of one.
LEMMA CopyView ==
    ASSUME IInv, ViewInv, NEW m \in Manager,
           NEW c \in [Key -> ManagedObject \cup {Absent}], NEW f \in SUBSET Key,
           cached' = [cached EXCEPT ![m] = c], fresh' = [fresh EXCEPT ![m] = f],
           \A k \in Key : c[k] \in {objects[k], cached[m][k], Absent},
           \A k \in f : c[k] = objects[k],
           UNCHANGED <<history, objects>>,
           \A n \in Manager : snap'[n] = 0 => next'[n] = 1
    PROVE  ViewInv'
<1>1. /\ cached'[m] = c /\ fresh'[m] = f
      /\ \A n \in Manager \ {m} : cached'[n] = cached[n] /\ fresh'[n] = fresh[n]
  BY DEF IInv, TypeOK
<1>2. \A k \in Key : OwnedBefore(c[k], Len(history))
  BY DEF ViewInv, OwnedBefore
<1>3. ASSUME NEW n \in Manager
      PROVE  /\ \A k \in Key : OwnedBefore(cached'[n][k], Len(history))
             /\ \A k \in fresh'[n] : cached'[n][k] = objects[k]
  BY <1>1, <1>2 DEF ViewInv
<1> QED
  BY <1>3 DEF ViewInv, Running

\* Every step keeps it.
LEMMA NextView == IInv /\ ViewInv /\ [Next]_vars => ViewInv'
<1> SUFFICES ASSUME IInv, ViewInv, [Next]_vars PROVE ViewInv'
  OBVIOUS
<1>1. ASSUME snap' = snap, next' = next
      PROVE  \A m \in Manager : snap'[m] = 0 => next'[m] = 1
  BY <1>1 DEF ViewInv, Running
<1>2. ASSUME NEW m \in Manager,
             snap' = [snap EXCEPT ![m] = 0], next' = [next EXCEPT ![m] = 1]
      PROVE  \A n \in Manager : snap'[n] = 0 => next'[n] = 1
  BY <1>2 DEF ViewInv, Running, IInv, TypeOK
<1>3. CASE UserEdit
  <2>1. PICK s : history' = Append(history, s)
    BY <1>3 DEF UserEdit
  <2>2. Len(history') = Len(history) + 1 /\ Len(history) \in Nat
    BY <2>1, LenProperties, AppendProperties DEF IInv, TypeOK
  <2>3. UNCHANGED <<objects, cached, fresh, snap, next>>
    BY <1>3 DEF UserEdit, perManager
  <2>4. \A x : OwnedBefore(x, Len(history)) => OwnedBefore(x, Len(history'))
    BY <2>2 DEF OwnedBefore
  <2> QED
    BY <2>3, <2>4 DEF ViewInv, Running
<1>4. CASE GarbageCollect
  <2>1. PICK k \in Key : Put(k, Absent)
    BY <1>4 DEF GarbageCollect
  <2>2. UNCHANGED <<history, cached, snap, next>>
    BY <1>4 DEF GarbageCollect
  <2> QED
    BY <1>1, <2>1, <2>2, PutView DEF OwnedBefore
<1>5. CASE Drift
  <2> PICK k \in Key :
         /\ objects[k] # Absent
         /\ \E x \in {Absent, [objects[k] EXCEPT !.value = Foreign]} : Put(k, x)
    BY <1>5 DEF Drift
  <2>1. PICK x \in {Absent, [objects[k] EXCEPT !.value = Foreign]} : Put(k, x)
    OBVIOUS
  <2>2. UNCHANGED <<history, cached, snap, next>>
    BY <1>5 DEF Drift
  <2>3. objects[k] \in ManagedObject
    BY <2>1 DEF IInv, TypeOK
  <2>4. OwnedBefore(x, Len(history))
    <3>1. x = Absent \/ x.owner = objects[k].owner
      BY <2>1, <2>3 DEF ManagedObject
    <3> QED
      BY <2>1, <3>1 DEF OwnedBefore, ViewInv
  <2> QED
    BY <1>1, <2>1, <2>2, <2>4, PutView
<1>6. ASSUME NEW m \in Manager, Launch(m) PROVE ViewInv'
  BY <1>1, <1>6, QuietView DEF Launch
<1>7. ASSUME NEW m \in Manager, Activate(m) PROVE ViewInv'
  <2>1. PICK v \in Versions : StartController(m, v)
    BY <1>7 DEF Activate
  <2>2. objects \in [Key -> ManagedObject \cup {Absent}]
    BY DEF IInv, TypeOK
  <2> QED
    BY <1>1, <2>1, <2>2, CopyView DEF StartController
<1>8. ASSUME NEW m \in Manager, Forget(m), UNCHANGED <<history, objects>>
      PROVE  ViewInv'
  <2> DEFINE f == {}
  <2>1. /\ NoObjects \in [Key -> ManagedObject \cup {Absent}] /\ f \in SUBSET Key
        /\ \A k \in Key : NoObjects[k] \in {objects[k], cached[m][k], Absent}
        /\ \A k \in f : NoObjects[k] = objects[k]
    BY DEF NoObjects
  <2>2. \A n \in Manager : snap'[n] = 0 => next'[n] = 1
    BY <1>2, <1>8 DEF Forget
  <2>3. cached' = [cached EXCEPT ![m] = NoObjects]
        /\ fresh' = [fresh EXCEPT ![m] = f]
    BY <1>8 DEF Forget
  <2> HIDE DEF f
  <2> QED
    BY <1>8, <2>1, <2>2, <2>3, CopyView
<1>9. ASSUME NEW m \in Manager, NEW k \in Key, Sync(m, k) PROVE ViewInv'
  <2> DEFINE c == [cached[m] EXCEPT ![k] = objects[k]]
             f == fresh[m] \cup {k}
  <2>1. /\ cached' = [cached EXCEPT ![m] = c] /\ fresh' = [fresh EXCEPT ![m] = f]
        /\ UNCHANGED <<history, objects, snap, next>>
    BY <1>9 DEF Sync
  <2>2. /\ c \in [Key -> ManagedObject \cup {Absent}] /\ f \in SUBSET Key
        /\ \A x \in Key : c[x] = IF x = k THEN objects[k] ELSE cached[m][x]
    BY DEF IInv, TypeOK
  <2>3. \A x \in f : c[x] = objects[x]
    BY <2>2 DEF ViewInv
  <2>4. \A x \in Key : c[x] \in {objects[x], cached[m][x], Absent}
    BY <2>2
  <2> HIDE DEF c, f
  <2> QED
    BY <1>1, <2>1, <2>2, <2>3, <2>4, CopyView
<1>10. ASSUME NEW m \in Manager, Deliver(m) \/ DelayOver(m) PROVE ViewInv'
  BY <1>1, <1>10, QuietView DEF Deliver, DelayOver
<1>11. ASSUME NEW m \in Manager, StartReconcile(m) PROVE ViewInv'
  <2>1. /\ ~Running(m) /\ next' = next
        /\ \E v : snap' = [snap EXCEPT ![m] = v]
        /\ UNCHANGED <<history, objects, cached, fresh>>
    BY <1>11 DEF StartReconcile
  <2>2. \A n \in Manager : snap'[n] = 0 => next'[n] = 1
    BY <2>1 DEF ViewInv, Running, IInv, TypeOK
  <2> QED
    BY <2>1, <2>2, QuietView
<1>12. ASSUME NEW m \in Manager, Keep(m) PROVE ViewInv'
  <2>1. /\ Running(m) /\ snap' = snap /\ next' = [next EXCEPT ![m] = next[m] + 1]
        /\ UNCHANGED <<history, objects, cached, fresh>>
    BY <1>12 DEF Keep, Walking
  <2>2. \A n \in Manager : snap'[n] = 0 => next'[n] = 1
    BY <2>1 DEF ViewInv, Running, IInv, TypeOK
  <2> QED
    BY <2>1, <2>2, QuietView
<1>13. ASSUME NEW m \in Manager, Write(m) \/ WriteAnswerLost(m) PROVE ViewInv'
  <2>1. Walking(m) /\ Put(KeyAt(m), Wanted(m)) /\ EndPass(m)
        /\ UNCHANGED <<history, cached>>
    BY <1>13 DEF Write, WriteAnswerLost, Store
  <2>2. KeyAt(m) \in Key /\ snap[m] \in 1..Len(history)
    BY <2>1, WantedType
  <2>3. OwnedBefore(Wanted(m), Len(history))
    <3>1. Wanted(m).owner = Incarnation(snap[m])
      BY DEF Wanted, Desired
    <3>2. Incarnation(snap[m]) \subseteq 1..Len(history) - 1
      BY <2>2 DEF Incarnation, IInv, TypeOK
    <3> QED
      BY <3>1, <3>2 DEF OwnedBefore
  <2>4. \A n \in Manager : snap'[n] = 0 => next'[n] = 1
    BY <1>2, <2>1 DEF EndPass
  <2> QED
    BY <2>1, <2>2, <2>3, <2>4, PutView
<1>14. ASSUME NEW m \in Manager, Conflict(m) \/ Finish(m) PROVE ViewInv'
  <2>1. EndPass(m) /\ UNCHANGED <<history, objects, cached, fresh>>
    BY <1>14 DEF Conflict, Finish
  <2>2. \A n \in Manager : snap'[n] = 0 => next'[n] = 1
    BY <1>2, <2>1 DEF EndPass
  <2> QED
    BY <2>1, <2>2, QuietView
<1>15. CASE UNCHANGED vars
  BY <1>1, <1>15, QuietView DEF vars, perManager
<1>16. ASSUME NEW m \in Manager, Lifecycle(m) PROVE ViewInv'
  BY <1>6, <1>7, <1>8, <1>16 DEF Lifecycle, Crash, Retire
<1>17. ASSUME NEW m \in Manager, PassStep(m) \/ WriteAnswerLost(m) PROVE ViewInv'
  BY <1>11, <1>12, <1>13, <1>14, <1>17 DEF PassStep
<1> QED
  BY <1>3, <1>4, <1>5, <1>9, <1>10, <1>15, <1>16, <1>17 DEF Next

-----------------------------------------------------------------------------
(* What it means for the writing manager to come to rest.                  *)

\* Its owner is not the resource that exists now.
Orphan(x) == x # Absent /\ (Last = None \/ x.owner # Incarnation(Len(history)))

Pending(m) == queue[m] \/ delayed[m]

\* The first n - 1 reconcilers of the last version have nothing to change.
SettledTo(m, n) ==
    LET plan == Plan(Last)
    IN  \A i \in 1..Len(plan) : i < n =>
           objects[ItemKey(plan[i])] = Desired(plan[i], Len(history), m)

\* A copy that is out of date is one that m has written itself, so that it
\* comes back when the cache has caught up, or one of an object that was
\* collected, which m does not take for its own.
CopiesExplained(m) ==
    \A k \in Key \ fresh[m] : delayed[m] \/ Orphan(cached[m][k])

\* What m has seen of the last version leads to a pass or has been done.
SettledOrPending(m) ==
    seen[m] = Len(history) /\ Last # None =>
        Pending(m) \/ snap[m] = seen[m] \/ Settled(m)

\* What the walk over the last version has passed is settled.
WalkSettled(m) ==
    snap[m] = Len(history) => Pending(m) \/ SettledTo(m, next[m])

RestInv(m) ==
    disturbed = {} /\ Alone(m) =>
        CopiesExplained(m) /\ SettledOrPending(m) /\ WalkSettled(m)

\* The last version is one of the specifications unless it is a deletion, and
\* its plan has reconcilers of keys.
LEMMA LastPlan ==
    ASSUME IInv
    PROVE  /\ Len(history) \in Nat \ {0}
           /\ Last # None =>
                 /\ Last \in Specs
                 /\ Len(Plan(Last)) \in Nat
                 /\ \A i \in 1..Len(Plan(Last)) :
                       Plan(Last)[i] \in Item /\ ItemKey(Plan(Last)[i]) \in Key
<1>1. Len(history) \in Nat \ {0} /\ Last \in Specs \cup {None}
  <2>1. history \in Seq(Specs \cup {None}) /\ history # <<>>
    BY DEF IInv, TypeOK
  <2> QED
    BY <2>1 DEF Last
<1>2. ASSUME Last # None
      PROVE  /\ Len(Plan(Last)) \in Nat
             /\ \A i \in 1..Len(Plan(Last)) :
                   Plan(Last)[i] \in Item /\ ItemKey(Plan(Last)[i]) \in Key
  <2>1. Plan(Last) \in Seq(Item)
    BY <1>1, <1>2, PlanType
  <2>2. Len(Plan(Last)) \in Nat
        /\ \A i \in 1..Len(Plan(Last)) : Plan(Last)[i] \in Item
    BY <2>1
  <2> QED
    BY <2>2, ItemKeyType
<1> QED
  BY <1>1, <1>2

\* What m wants for the version that exists is no orphan.
LEMMA DesiredOwned ==
    ASSUME Last # None, NEW item, NEW m
    PROVE  ~Orphan(Desired(item, Len(history), m))
BY DEF Orphan, Desired

\* The collector takes nothing that is settled.
LEMMA CollectedSettled ==
    ASSUME IInv, Last # None, GarbageCollect,
           NEW m \in Manager, NEW n, SettledTo(m, n)
    PROVE  SettledTo(m, n)'
<1>1. PICK k \in Key : Orphan(objects[k]) /\ Put(k, Absent)
  BY DEF GarbageCollect, Orphan
<1>2. \A c \in Key \ {k} : objects'[c] = objects[c]
  BY <1>1 DEF Put, IInv, TypeOK
<1>3. history' = history /\ Last' = Last
  BY DEF GarbageCollect, Last
<1> SUFFICES ASSUME NEW i \in 1..Len(Plan(Last)), i < n
             PROVE  objects'[ItemKey(Plan(Last)[i])] =
                        Desired(Plan(Last)[i], Len(history), m)
  BY <1>3 DEF SettledTo, Desired, Incarnation
<1>4. objects[ItemKey(Plan(Last)[i])] = Desired(Plan(Last)[i], Len(history), m)
  BY DEF SettledTo
<1>5. ItemKey(Plan(Last)[i]) \in Key \ {k}
  BY <1>1, <1>4, DesiredOwned, LastPlan
<1> QED
  BY <1>2, <1>4, <1>5

\* A new version changes the incarnation only after a deletion, so that a copy
\* of an orphan stays one.
LEMMA OrphanStays ==
    ASSUME IInv, UserEdit, NEW x, Orphan(x), OwnedBefore(x, Len(history))
    PROVE  Orphan(x)'
<1>1. PICK s : history' = Append(history, s)
  BY DEF UserEdit
<1>2. /\ Len(history) \in Nat \ {0} /\ Len(history') = Len(history) + 1
      /\ \A u \in 1..Len(history) : history'[u] = history[u]
  <2>1. history \in Seq(Specs \cup {None})
    BY DEF IInv, TypeOK
  <2> QED
    BY <1>1, <2>1, LastPlan
<1>3. Incarnation(Len(history))' = {u \in 1..Len(history) : history[u] = None}
  BY <1>2 DEF Incarnation
<1>4. CASE Last = None
  <2>1. Len(history) \in Incarnation(Len(history))'
    BY <1>2, <1>3, <1>4 DEF Last
  <2>2. Len(history) \notin x.owner
    BY <1>2 DEF OwnedBefore, Orphan
  <2> QED
    BY <2>1, <2>2 DEF Orphan
<1>5. CASE Last # None
  <2>1. Incarnation(Len(history))' = Incarnation(Len(history))
    BY <1>2, <1>3, <1>5 DEF Incarnation, Last
  <2> QED
    BY <1>5, <2>1 DEF Orphan
<1> QED
  BY <1>4, <1>5

\* The environment: only the collector changes objects without a disturbance,
\* and an edit that ends one finds the copies current.
LEMMA EnvironmentRest ==
    ASSUME IInv, ViewInv, NEW m \in Manager, RestInv(m), Alone(m),
           UserEdit \/ GarbageCollect \/ Drift, disturbed' = {}
    PROVE  CopiesExplained(m)' /\ SettledOrPending(m)' /\ WalkSettled(m)'
<1>1. CASE UserEdit
  <2>1. PICK s : history' = Append(history, s)
    BY <1>1 DEF UserEdit
  <2>2. Len(history') = Len(history) + 1 /\ Len(history) \in Nat
        /\ seen[m] <= Len(history) /\ snap[m] <= Len(history)
        /\ seen[m] \in Nat /\ snap[m] \in Nat
    BY <2>1, LenProperties, AppendProperties DEF IInv, TypeOK
  <2>3. UNCHANGED <<fresh, cached, delayed, queue, seen, snap>>
    BY <1>1 DEF UserEdit, perManager
  <2>4. SettledOrPending(m)' /\ WalkSettled(m)'
    BY <2>2, <2>3 DEF SettledOrPending, WalkSettled
  <2>5. CopiesExplained(m)'
    <3>1. CASE Stale
      <4>1. CopiesExplained(m)
        BY <1>1, <3>1 DEF UserEdit, RestInv
      <4> SUFFICES ASSUME NEW k \in Key \ fresh[m], ~delayed[m]
                   PROVE  Orphan(cached[m][k])'
        BY <2>3 DEF CopiesExplained
      <4>2. Orphan(cached[m][k]) /\ OwnedBefore(cached[m][k], Len(history))
        BY <4>1 DEF CopiesExplained, ViewInv
      <4>3. cached'[m][k] = cached[m][k]
        BY <2>3
      <4> QED
        BY <1>1, <4>2, <4>3, OrphanStays DEF Orphan
    <3>2. CASE ~Stale
      BY <2>3, <3>2 DEF Stale, Alone, CopiesExplained
    <3> QED
      BY <3>1, <3>2
  <2> QED
    BY <2>4, <2>5
<1>2. CASE GarbageCollect
  <2>1. UNCHANGED <<history, cached, delayed, queue, seen, snap, next, disturbed>>
    BY <1>2 DEF GarbageCollect
  <2>2. CopiesExplained(m) /\ SettledOrPending(m) /\ WalkSettled(m)
    BY <2>1 DEF RestInv
  <2>3. Last' = Last
    BY <2>1 DEF Last
  <2>4. CopiesExplained(m)'
    <3>1. PICK k \in Key : Orphan(objects[k]) /\ Put(k, Absent)
      BY <1>2 DEF GarbageCollect, Orphan
    <3>2. fresh'[m] = fresh[m] \ {k}
      BY <3>1 DEF Put
    <3>3. k \in fresh[m] => Orphan(cached[m][k])
      BY <3>1 DEF ViewInv
    <3>4. \A c \in Key : Orphan(cached'[m][c]) <=> Orphan(cached[m][c])
      BY <2>1
    <3>5. \A c \in Key : Orphan(cached[m][c])' <=> Orphan(cached[m][c])
      BY <2>1, <2>3 DEF Orphan, Incarnation
    <3> QED
      BY <2>1, <2>2, <3>2, <3>3, <3>5 DEF CopiesExplained
  <2>5. SettledOrPending(m)'
    <3>1. Last # None /\ Settled(m) => Settled(m)'
      <4>1. Settled(m) => SettledTo(m, Len(Plan(Last)) + 1)
        BY DEF Settled, SettledTo
      <4>2. Last # None /\ Settled(m) => SettledTo(m, Len(Plan(Last)) + 1)'
        BY <1>2, <2>3, <4>1, CollectedSettled
      <4> QED
        BY <2>3, <4>2, LastPlan DEF Settled, SettledTo
    <3> QED
      BY <2>1, <2>2, <2>3, <3>1 DEF SettledOrPending, Pending
  <2>6. WalkSettled(m)'
    <3> SUFFICES ASSUME snap[m] = Len(history), ~Pending(m)
                 PROVE  SettledTo(m, next[m])'
      BY <2>1 DEF WalkSettled, Pending
    <3>1. SettledTo(m, next[m])
      BY <2>2 DEF WalkSettled
    <3>2. Last # None
      BY LastPlan DEF IInv, ManagerInv, Running, Last
    <3>3. \A n \in Nat : SettledTo(m, n) => SettledTo(m, n)'
      BY <1>2, <3>2, CollectedSettled
    <3>4. next[m] \in Nat /\ next'[m] = next[m]
      BY <2>1 DEF IInv, TypeOK
    <3> QED
      BY <3>1, <3>3, <3>4 DEF SettledTo
  <2> QED
    BY <2>4, <2>5, <2>6
<1>3. CASE Drift
  BY <1>3 DEF Drift
<1> QED
  BY <1>1, <1>2, <1>3

\* The steps of m itself.  A write is followed by a delay, whose end finds the
\* copies current, and a conflict by a retry; a walk keeps an object on what the
\* copy shows, and a copy that is neither current nor explained by a delay is
\* of an orphan, which is not kept.
LEMMA OwnRest ==
    ASSUME IInv, ViewInv, NEW m \in Manager, RestInv(m), Alone(m),
           OwnStep(m), disturbed' = {}
    PROVE  CopiesExplained(m)' /\ SettledOrPending(m)' /\ WalkSettled(m)'
<1>1. CopiesExplained(m) /\ SettledOrPending(m) /\ WalkSettled(m)
  <2>1. disturbed = {}
    BY DEF OwnStep, PassStep, Deliver, Sync, DelayOver, StartReconcile, Keep,
           Write, Conflict, Finish
  <2> QED
    BY <2>1 DEF RestInv
<1>2. /\ Len(history) \in Nat \ {0} /\ seen[m] \in Nat /\ snap[m] \in Nat
      /\ next[m] \in Nat \ {0} /\ fresh[m] \subseteq Key
  BY LastPlan DEF IInv, TypeOK
<1>3. history' = history /\ Last' = Last
  BY DEF OwnStep, PassStep, Deliver, Sync, DelayOver, StartReconcile, Keep,
         Write, Store, Conflict, Finish, Last
<1>4. \A x : Orphan(x)' <=> Orphan(x)
  BY <1>3 DEF Orphan, Incarnation
<1>5. ASSUME objects' = objects, NEW n \in Nat
      PROVE  SettledTo(m, n)' <=> SettledTo(m, n)
  BY <1>3, <1>5 DEF SettledTo, Desired, Incarnation
<1>6. ASSUME objects' = objects PROVE Settled(m)' <=> Settled(m)
  BY <1>3, <1>6 DEF Settled, Desired, Incarnation
<1>7. ASSUME cached' = cached, fresh' = fresh, delayed[m] => delayed'[m]
      PROVE  CopiesExplained(m)'
  BY <1>1, <1>4, <1>7 DEF CopiesExplained, Orphan
<1>8. CASE Deliver(m)
  <2>1. queue'[m] /\ UNCHANGED <<cached, fresh, delayed>>
    BY <1>8 DEF Deliver, IInv, TypeOK
  <2> QED
    BY <1>7, <2>1 DEF SettledOrPending, WalkSettled, Pending
<1>9. ASSUME NEW k \in Key, Sync(m, k)
      PROVE  CopiesExplained(m)' /\ SettledOrPending(m)' /\ WalkSettled(m)'
  <2>1. /\ fresh'[m] = fresh[m] \cup {k}
        /\ \A c \in Key \ {k} : cached'[m][c] = cached[m][c]
        /\ UNCHANGED <<objects, seen, queue, delayed, snap, next>>
    BY <1>9 DEF Sync, IInv, TypeOK
  <2>2. CopiesExplained(m)'
    BY <1>1, <1>4, <2>1 DEF CopiesExplained, Orphan
  <2> QED
    BY <1>1, <1>2, <1>3, <1>5, <1>6, <2>1, <2>2
       DEF SettledOrPending, WalkSettled, Pending
<1>10. CASE DelayOver(m)
  <2>1. queue'[m] /\ fresh'[m] = Key
    BY <1>10 DEF DelayOver, IInv, TypeOK
  <2> QED
    BY <2>1 DEF CopiesExplained, SettledOrPending, WalkSettled, Pending
<1>11. CASE StartReconcile(m)
  <2>1. /\ snap'[m] = (IF history[seen[m]] = None THEN 0 ELSE seen[m])
        /\ next'[m] = 1
        /\ UNCHANGED <<objects, seen, cached, fresh, delayed>>
    BY <1>11 DEF StartReconcile, IInv, TypeOK, ViewInv
  <2>2. SettledOrPending(m)'
    BY <1>3, <2>1 DEF SettledOrPending, Last
  <2>3. WalkSettled(m)'
    BY <2>1 DEF WalkSettled, SettledTo
  <2> QED
    BY <1>7, <2>1, <2>2, <2>3
<1>12. CASE Keep(m)
  <2>1. /\ Walking(m) /\ cached[m][KeyAt(m)] = Wanted(m)
        /\ next'[m] = next[m] + 1
        /\ UNCHANGED <<objects, seen, cached, fresh, queue, delayed, snap>>
    BY <1>12 DEF Keep, IInv, TypeOK
  <2>2. SettledOrPending(m)'
    BY <1>1, <1>3, <1>6, <2>1 DEF SettledOrPending, Pending
  <2>3. WalkSettled(m)'
    <3> SUFFICES ASSUME snap[m] = Len(history), ~Pending(m)
                 PROVE  SettledTo(m, next[m] + 1)
      BY <1>2, <1>3, <1>5, <2>1 DEF WalkSettled, Pending
    <3>1. SettledTo(m, next[m])
      BY <1>1 DEF WalkSettled
    <3>2. Last # None /\ next[m] \in 1..Len(Plan(Last)) /\ KeyAt(m) \in Key
          /\ Wanted(m) = Desired(Plan(Last)[next[m]], Len(history), m)
          /\ KeyAt(m) = ItemKey(Plan(Last)[next[m]])
      <4>1. Last # None
        BY <2>1 DEF Walking, IInv, ManagerInv, Last
      <4>2. next[m] <= Len(Plan(Last)) /\ Len(Plan(Last)) \in Nat
        BY <2>1, <4>1, LastPlan DEF Walking, Last
      <4> QED
        BY <1>2, <2>1, <4>1, <4>2, WantedType DEF Wanted, KeyAt, ItemOf, Last
    <3>3. KeyAt(m) \in fresh[m]
      <4>1. ~Orphan(Wanted(m))
        BY <3>2, DesiredOwned
      <4> QED
        BY <1>1, <2>1, <3>2, <4>1 DEF CopiesExplained, Pending
    <3>4. objects[KeyAt(m)] = Wanted(m)
      BY <2>1, <3>3 DEF ViewInv
    <3> QED
      BY <1>2, <3>1, <3>2, <3>4 DEF SettledTo
  <2> QED
    BY <1>7, <2>1, <2>2, <2>3
<1>13. CASE Write(m)
  <2>1. delayed'[m]
    BY <1>13 DEF Write, IInv, TypeOK
  <2> QED
    BY <2>1 DEF CopiesExplained, SettledOrPending, WalkSettled, Pending
<1>14. CASE Conflict(m)
  <2>1. queue'[m] /\ UNCHANGED <<cached, fresh, delayed>>
    BY <1>14 DEF Conflict, IInv, TypeOK
  <2> QED
    BY <1>7, <2>1 DEF SettledOrPending, WalkSettled, Pending
<1>15. CASE Finish(m)
  <2>1. PICK notReady \in BOOLEAN :
           delayed' = [delayed EXCEPT ![m] = delayed[m] \/ notReady]
    BY <1>15 DEF Finish
  <2>2. /\ Running(m) /\ ~Walking(m) /\ snap'[m] = 0
        /\ UNCHANGED <<objects, seen, cached, fresh, queue>>
    BY <1>15 DEF Finish, EndPass, IInv, TypeOK
  <2>3. delayed[m] => delayed'[m]
    BY <2>1 DEF IInv, TypeOK
  <2>4. WalkSettled(m)'
    BY <1>2, <1>3, <2>2 DEF WalkSettled
  <2>5. SettledOrPending(m)'
    <3> SUFFICES ASSUME seen[m] = Len(history), Last # None, ~Pending(m)
                 PROVE  Settled(m)
      BY <1>3, <1>6, <2>2, <2>3 DEF SettledOrPending, Pending
    <3>1. CASE snap[m] = seen[m]
      <4>1. SettledTo(m, next[m])
        BY <1>1, <3>1 DEF WalkSettled
      <4>2. ~(next[m] <= Len(Plan(Last)))
        BY <2>2, <3>1 DEF Walking, Last
      <4> QED
        BY <1>2, <4>1, <4>2, LastPlan DEF SettledTo, Settled
    <3> QED
      BY <1>1, <3>1 DEF SettledOrPending
  <2> QED
    BY <1>7, <2>2, <2>3, <2>4, <2>5
<1> QED
  BY <1>8, <1>9, <1>10, <1>11, <1>12, <1>13, <1>14, <1>15 DEF OwnStep, PassStep

\* A manager starts with current copies and with a request.
LEMMA StartRest ==
    ASSUME IInv, NEW m \in Manager, NEW v \in Versions, StartController(m, v)
    PROVE  CopiesExplained(m)' /\ SettledOrPending(m)' /\ WalkSettled(m)'
<1>1. /\ fresh'[m] = Key /\ seen'[m] = v /\ (history[v] # None => queue'[m])
      /\ snap' = snap /\ history' = history
  BY DEF StartController, IInv, TypeOK
<1>2. snap[m] = 0
  BY DEF StartController, IInv, ManagerInv, Running
<1>3. Len(history) # 0
  BY LastPlan
<1> QED
  BY <1>1, <1>2, <1>3
     DEF CopiesExplained, SettledOrPending, WalkSettled, Pending, Last

\* Every step keeps it.
LEMMA NextRest ==
    ASSUME IInv, LeaderElect => Serial, ViewInv, [Next]_vars,
           NEW m \in Manager, RestInv(m)
    PROVE  RestInv(m)'
<1> SUFFICES ASSUME disturbed' = {}, Alone(m)'
             PROVE  CopiesExplained(m)' /\ SettledOrPending(m)' /\ WalkSettled(m)'
  BY DEF RestInv
<1>1. CASE Alone(m) /\ Unaffected(m)
  <2>1. CopiesExplained(m) /\ SettledOrPending(m) /\ WalkSettled(m)
    BY <1>1 DEF RestInv, Unaffected
  <2>2. Last' = Last /\ \A x : Orphan(x)' <=> Orphan(x)
    BY <1>1 DEF Unaffected, Last, Orphan, Incarnation
  <2>3. Settled(m)' <=> Settled(m)
    BY <1>1, <2>2 DEF Unaffected, Settled, Desired, Incarnation
  <2>4. \A n : SettledTo(m, n)' <=> SettledTo(m, n)
    BY <1>1, <2>2 DEF Unaffected, SettledTo, Desired, Incarnation
  <2>5. CopiesExplained(m)'
    BY <1>1, <2>1, <2>2 DEF Unaffected, CopiesExplained, Orphan
  <2>6. SettledOrPending(m)'
    BY <1>1, <2>1, <2>2, <2>3 DEF Unaffected, SettledOrPending, Pending
  <2>7. WalkSettled(m)'
    BY <1>1, <2>1, <2>4 DEF Unaffected, WalkSettled, Pending, SettledTo
  <2> QED
    BY <2>5, <2>6, <2>7
<1>2. CASE \E v \in Versions : StartController(m, v)
  BY <1>2, StartRest
<1>3. CASE Alone(m) /\ (UserEdit \/ GarbageCollect \/ Drift)
  BY <1>3, EnvironmentRest
<1>4. CASE Alone(m) /\ OwnStep(m)
  BY <1>4, OwnRest
<1> QED
  BY <1>1, <1>2, <1>3, <1>4, AloneStep

\* The invariants so far together; two managers do not write at a time only
\* with leader election.
FullInv == IInv /\ ViewInv /\ (LeaderElect => Serial)

\* It holds in every reachable state.
LEMMA FullInvariance == Spec => []FullInv
<1>1. Init => FullInv
  BY InitIInv, InitView, InitSerial DEF FullInv
<1>2. FullInv /\ [Next]_vars => FullInv'
  BY NextIInv, NextView, NextSerial DEF FullInv
<1> QED
  BY <1>1, <1>2, PTL DEF Spec

\* The manager that writes alone, elected or left over, comes to rest only when
\* the objects are what it makes of the latest version, for any number of
\* managers, versions and faults.
THEOREM RestMeansUpToDateHolds == Spec => []RestMeansUpToDate
<1> DEFINE Rest == \A m \in Manager : RestInv(m)
<1>1. Init => Rest
  BY DEF Init, RestInv, Alone
<1>2. FullInv /\ Rest /\ [Next]_vars => Rest'
  BY NextRest DEF FullInv
<1>3. FullInv /\ Rest => RestMeansUpToDate
  <2> SUFFICES ASSUME FullInv, NEW m \in Manager, RestInv(m), Alone(m),
                      AtRest(m), disturbed = {}, Last # None
               PROVE  Settled(m)
    BY DEF RestMeansUpToDate
  <2> QED
    BY LastPlan DEF FullInv, RestInv, SettledOrPending, Pending, AtRest, Running
<1> QED
  BY <1>1, <1>2, <1>3, FullInvariance, PTL DEF Spec

-----------------------------------------------------------------------------
(* A cluster with webservers keeps its manager busy.                       *)

Webservers(s) == \E g \in Groups : <<"webservers", g>> \in RoleGroupsOf(s)

\* The two services of the webservers end the walk; they have one name.
LEMMA TwinsEndPlan ==
    ASSUME NEW s \in Specs, Webservers(s)
    PROVE  LET p == Plan(s)
               n == Len(Plan(s))
           IN  /\ n \in Nat /\ n >= 2
               /\ p[n - 1].kind = "service" /\ p[n].kind = "metrics"
               /\ ItemKey(p[n - 1]) = ItemKey(p[n])
<1> DEFINE of(r) == IF \E g \in Groups : <<r, g>> \in RoleGroupsOf(s)
                    THEN Reconcilers(r, CHOOSE g \in Groups :
                                           <<r, g>> \in RoleGroupsOf(s), None)
                    ELSE <<>>
           g == CHOOSE h \in Groups : <<"webservers", h>> \in RoleGroupsOf(s)
           w == Reconcilers("webservers", g, None)
<1>1. None \in AuthValue
  BY DEF AuthValue
<1>2. ASSUME NEW r \in Role PROVE of(r) \in Seq(Item)
  <2>1. CASE \E h \in Groups : <<r, h>> \in RoleGroupsOf(s)
    <3> DEFINE h == CHOOSE h \in Groups : <<r, h>> \in RoleGroupsOf(s)
    <3>1. h \in Groups
      BY <2>1
    <3> HIDE DEF h
    <3>2. Reconcilers(r, h, None) \in Seq(Item)
      BY <1>1, <3>1, ReconcilersProperties
    <3> QED
      BY <2>1, <3>2 DEF h
  <2>2. CASE ~\E h \in Groups : <<r, h>> \in RoleGroupsOf(s)
    BY <2>2
  <2> QED
    BY <2>1, <2>2
<1>3. g \in Groups /\ of("webservers") = w
  BY DEF Webservers
<1>4. Plan(s) = of("celeryexecutors") \o of("schedulers") \o of("webservers")
  BY DEF Plan
<1> HIDE DEF g
<1>5. /\ w \in Seq(Item) /\ Len(w) = 4
      /\ w[3].kind = "service" /\ w[4].kind = "metrics"
      /\ \A i \in 1..4 : w[i].role = "webservers" /\ w[i].group = g
  <2> DEFINE r == "webservers"
  <2>1. r \in Role /\ r = "webservers"
    BY DEF Role
  <2>2. w = Reconcilers(r, g, None)
    OBVIOUS
  <2> HIDE DEF r, w
  <2>3. /\ w \in Seq(Item)
        /\ Len(w) = IF r = "webservers" THEN 4 ELSE 3
        /\ \A i \in 1..Len(w) : w[i].role = r /\ w[i].group = g
        /\ r = "webservers" => w[3].kind = "service" /\ w[4].kind = "metrics"
    BY <1>1, <1>3, <2>1, <2>2, ReconcilersProperties
  <2>4. Len(w) = 4
    BY <2>1, <2>3
  <2> QED
    BY <2>1, <2>3, <2>4
<1> DEFINE a == of("celeryexecutors") \o of("schedulers")
<1>6. of("celeryexecutors") \in Seq(Item) /\ of("schedulers") \in Seq(Item)
  BY <1>2 DEF Role
<1>7. Plan(s) = a \o w
  BY <1>3, <1>4
<1> HIDE DEF of, w
<1>8. a \in Seq(Item)
  BY <1>6
<1> HIDE DEF a
<1>9. /\ Len(a) \in Nat /\ Len(a \o w) = Len(a) + 4
      /\ (a \o w)[Len(a) + 3] = w[3] /\ (a \o w)[Len(a) + 4] = w[4]
  <2> DEFINE c == a \o w
  <2>1. Len(a) \in Nat /\ Len(w) = 4
    BY <1>5, <1>8, LenProperties
  <2>2. /\ Len(c) = Len(a) + Len(w)
        /\ \A i \in 1..Len(a) + Len(w) :
              c[i] = IF i <= Len(a) THEN a[i] ELSE w[i - Len(a)]
    BY <1>5, <1>8, ConcatProperties
  <2> HIDE DEF c
  <2>3. \A i \in 1..4 : c[Len(a) + i] = w[i]
    BY <2>1, <2>2
  <2>4. c[Len(a) + 3] = w[3] /\ c[Len(a) + 4] = w[4] /\ Len(c) = Len(a) + 4
    BY <2>1, <2>2, <2>3
  <2> QED
    BY <2>1, <2>4 DEF c
<1>10. ItemKey(w[3]) = ItemKey(w[4])
  BY <1>5 DEF ItemKey, ObjectKindOf
<1> QED
  BY <1>5, <1>7, <1>9, <1>10

\* A manager never wants one for the other, nor an object that is missing or
\* that somebody else has changed.
LEMMA TwinsDiffer ==
    ASSUME IInv, Last # None, Webservers(Last), NEW m \in Manager
    PROVE  LET p == Plan(Last)
               n == Len(Plan(Last))
               d == Desired(p[n], Len(history), m)
           IN  /\ n \in Nat /\ n >= 2
               /\ ItemKey(p[n]) \in Key /\ ItemKey(p[n - 1]) = ItemKey(p[n])
               /\ d # Desired(p[n - 1], Len(history), m)
               /\ d # Absent /\ d.value # Foreign
<1> DEFINE p == Plan(Last)
           n == Len(Plan(Last))
<1>1. /\ n \in Nat /\ n >= 2
      /\ p[n - 1].kind = "service" /\ p[n].kind = "metrics"
      /\ ItemKey(p[n - 1]) = ItemKey(p[n])
  BY LastPlan, TwinsEndPlan
<1>2. p[n] \in Item /\ ItemKey(p[n]) \in Key
  BY <1>1, LastPlan
<1>3. <<p[n].role, p[n].group>> \in RoleGroupsOf(Last)
  BY <1>1, LastPlan, PlanType
<1> HIDE DEF p, n
<1>4. Value(p[n], Last, m) \in Object
  BY <1>2, <1>3, LastPlan, ValueType
<1>5. Value(p[n], Last, m) # Value(p[n - 1], Last, m)
  <2>1. /\ Value(p[n], Last, m) = BuildService("metrics")
        /\ Value(p[n - 1], Last, m) = BuildService("service")
    BY <1>1 DEF Value, Build
  <2>2. BuildService("metrics").ports # BuildService("service").ports
    BY DEF BuildService, Port
  <2> QED
    BY <2>1, <2>2
<1> DEFINE d == Desired(p[n], Len(history), m)
<1>6. /\ d = [owner |-> Incarnation(Len(history)), value |-> Value(p[n], Last, m)]
      /\ Desired(p[n - 1], Len(history), m).value = Value(p[n - 1], Last, m)
  BY DEF Desired, Last
<1>7. Incarnation(Len(history)) \in SUBSET Nat
  BY LastPlan DEF Incarnation
<1>8. d \in [owner : SUBSET Nat, value : Object \cup {Foreign}]
  BY <1>4, <1>6, <1>7
<1>9. d.value = Value(p[n], Last, m)
  BY <1>6
<1> HIDE DEF d
<1> QED
  BY <1>1, <1>2, <1>4, <1>5, <1>6, <1>8, <1>9, SentinelsAssumption DEF p, n, d

\* A copy that is out of date without a delay to come is of an object that was
\* collected, deleted or changed by somebody else.
CopiesTelling(m) ==
    \A k \in Key \ fresh[m] :
        delayed[m] \/ objects[k] = Absent \/ objects[k].value = Foreign

\* A version with webservers is never done.
NeverDone(m) ==
    seen[m] = Len(history) /\ Last # None /\ Webservers(Last) =>
        Pending(m) \/ snap[m] = seen[m]

\* The walk does not pass the second service, since the copy it passed the first
\* one with has not become that of the second meanwhile.
WalkStuck(m) ==
    snap[m] = Len(history) /\ Webservers(Last) =>
        LET p == Plan(Last)
            n == Len(Plan(Last))
        IN  \/ Pending(m)
            \/ /\ next[m] <= n
               /\ next[m] = n =>
                     cached[m][ItemKey(p[n])] # Desired(p[n], Len(history), m)

BusyInv(m) ==
    disturbed \subseteq {"drift"} /\ Alone(m) =>
        CopiesTelling(m) /\ NeverDone(m) /\ WalkStuck(m)

\* The environment, which may change objects here.
LEMMA EnvironmentBusy ==
    ASSUME IInv, NEW m \in Manager, BusyInv(m), Alone(m),
           UserEdit \/ GarbageCollect \/ Drift, disturbed' \subseteq {"drift"}
    PROVE  CopiesTelling(m)' /\ NeverDone(m)' /\ WalkStuck(m)'
<1>1. CASE UserEdit
  <2>1. PICK s : history' = Append(history, s)
    BY <1>1 DEF UserEdit
  <2>2. Len(history') = Len(history) + 1 /\ Len(history) \in Nat
        /\ seen[m] <= Len(history) /\ snap[m] <= Len(history)
        /\ seen[m] \in Nat /\ snap[m] \in Nat
    BY <2>1, LenProperties, AppendProperties DEF IInv, TypeOK
  <2>3. UNCHANGED <<objects, fresh, cached, delayed, queue, seen, snap>>
    BY <1>1 DEF UserEdit, perManager
  <2>4. NeverDone(m)' /\ WalkStuck(m)'
    BY <2>2, <2>3 DEF NeverDone, WalkStuck
  <2>5. CASE Stale
    BY <1>1, <2>3, <2>4, <2>5 DEF UserEdit, BusyInv, CopiesTelling
  <2>6. CASE ~Stale
    BY <2>3, <2>4, <2>6 DEF Stale, Alone, CopiesTelling
  <2> QED
    BY <2>5, <2>6
<1>2. CASE GarbageCollect \/ Drift
  <2>1. /\ UNCHANGED <<history, cached, delayed, queue, seen, snap, next>>
        /\ disturbed \subseteq {"drift"}
    BY <1>2 DEF GarbageCollect, Drift
  <2>2. CopiesTelling(m) /\ NeverDone(m) /\ WalkStuck(m)
    BY <2>1 DEF BusyInv
  <2>3. Last' = Last
    BY <2>1 DEF Last
  <2>4. PICK k \in Key : \E x : Put(k, x) /\ (x = Absent \/ x.value = Foreign)
    <3>1. CASE GarbageCollect
      BY <3>1 DEF GarbageCollect
    <3>2. CASE Drift
      <4>1. PICK k \in Key :
               /\ objects[k] # Absent
               /\ \E x \in {Absent, [objects[k] EXCEPT !.value = Foreign]} : Put(k, x)
        BY <3>2 DEF Drift
      <4>2. objects[k] \in ManagedObject
        BY <4>1 DEF IInv, TypeOK
      <4>3. [objects[k] EXCEPT !.value = Foreign].value = Foreign
        BY <4>2 DEF ManagedObject
      <4> QED
        BY <4>1, <4>3
    <3> QED
      BY <1>2, <3>1, <3>2
  <2>5. /\ fresh'[m] = fresh[m] \ {k}
        /\ \A c \in Key \ {k} : objects'[c] = objects[c]
        /\ objects'[k] = Absent \/ objects'[k].value = Foreign
    BY <2>4 DEF Put, IInv, TypeOK
  <2>6. CopiesTelling(m)'
    BY <2>1, <2>2, <2>5 DEF CopiesTelling
  <2>7. NeverDone(m)' /\ WalkStuck(m)'
    BY <2>1, <2>2, <2>3
       DEF NeverDone, WalkStuck, Pending, Webservers, Desired, Incarnation
  <2> QED
    BY <2>6, <2>7
<1> QED
  BY <1>1, <1>2

\* The steps of m itself.
LEMMA OwnBusy ==
    ASSUME IInv, ViewInv, NEW m \in Manager, BusyInv(m), Alone(m),
           OwnStep(m), disturbed' \subseteq {"drift"}
    PROVE  CopiesTelling(m)' /\ NeverDone(m)' /\ WalkStuck(m)'
<1>1. CopiesTelling(m) /\ NeverDone(m) /\ WalkStuck(m)
  <2>1. disturbed' = disturbed
    BY DEF OwnStep, PassStep, Deliver, Sync, DelayOver, StartReconcile, Keep,
           Write, Conflict, Finish
  <2> QED
    BY <2>1 DEF BusyInv
<1>2. /\ Len(history) \in Nat \ {0} /\ seen[m] \in Nat /\ snap[m] \in Nat
      /\ next[m] \in Nat \ {0} /\ fresh[m] \subseteq Key
      /\ snap[m] = Len(history) => Last # None
  BY LastPlan DEF IInv, TypeOK, ManagerInv, Running, Last
<1>3. history' = history /\ Last' = Last
  BY DEF OwnStep, PassStep, Deliver, Sync, DelayOver, StartReconcile, Keep,
         Write, Store, Conflict, Finish, Last
<1>4. \A item : Desired(item, Len(history), m)' = Desired(item, Len(history), m)
  BY <1>3 DEF Desired, Incarnation
<1>5. ASSUME objects' = objects, fresh[m] \subseteq fresh'[m],
             delayed[m] => delayed'[m]
      PROVE  CopiesTelling(m)'
  BY <1>1, <1>5 DEF CopiesTelling
<1>6. ASSUME Pending(m)' PROVE NeverDone(m)' /\ WalkStuck(m)'
  BY <1>6 DEF NeverDone, WalkStuck
<1>7. CASE Deliver(m)
  <2>1. queue'[m] /\ UNCHANGED <<objects, fresh, delayed>>
    BY <1>7 DEF Deliver, IInv, TypeOK
  <2> QED
    BY <1>5, <1>6, <2>1 DEF Pending
<1>8. ASSUME NEW k \in Key, Sync(m, k)
      PROVE  CopiesTelling(m)' /\ NeverDone(m)' /\ WalkStuck(m)'
  <2>1. /\ k \notin fresh[m] /\ fresh'[m] = fresh[m] \cup {k}
        /\ cached'[m][k] = objects[k]
        /\ \A c \in Key \ {k} : cached'[m][c] = cached[m][c]
        /\ UNCHANGED <<objects, seen, queue, delayed, snap, next>>
    BY <1>8 DEF Sync, IInv, TypeOK
  <2>2. NeverDone(m)'
    BY <1>1, <1>3, <2>1 DEF NeverDone, Pending, Webservers
  <2>3. WalkStuck(m)'
    <3> DEFINE n == Len(Plan(Last))
               key == ItemKey(Plan(Last)[n])
               d == Desired(Plan(Last)[n], Len(history), m)
    <3> SUFFICES ASSUME snap[m] = Len(history), Webservers(Last), ~Pending(m)
                 PROVE  next[m] <= n /\ (next[m] = n => cached'[m][key] # d)
      BY <1>3, <1>4, <2>1 DEF WalkStuck, Pending, Webservers
    <3>1. next[m] <= n /\ (next[m] = n => cached[m][key] # d)
      BY <1>1 DEF WalkStuck
    <3>2. key \in Key /\ d # Absent /\ d.value # Foreign
      BY <1>2, TwinsDiffer
    <3> HIDE DEF n, key, d
    <3>3. key = k => cached'[m][key] # d
      BY <1>1, <2>1, <3>2 DEF CopiesTelling, Pending
    <3> QED
      BY <2>1, <3>1, <3>2, <3>3
  <2> QED
    BY <1>5, <2>1, <2>2, <2>3
<1>9. CASE DelayOver(m)
  <2>1. queue'[m] /\ fresh'[m] = Key
    BY <1>9 DEF DelayOver, IInv, TypeOK
  <2> QED
    BY <1>6, <2>1 DEF CopiesTelling, Pending
<1>10. CASE StartReconcile(m)
  <2>1. /\ snap'[m] = (IF history[seen[m]] = None THEN 0 ELSE seen[m])
        /\ next'[m] = 1
        /\ UNCHANGED <<objects, seen, cached, fresh, delayed>>
    BY <1>10 DEF StartReconcile, IInv, TypeOK, ViewInv
  <2>2. NeverDone(m)'
    BY <1>3, <2>1 DEF NeverDone, Last
  <2>3. WalkStuck(m)'
    <3> SUFFICES ASSUME snap'[m] = Len(history), Webservers(Last)
                 PROVE  1 < Len(Plan(Last))
      BY <1>3, <2>1 DEF WalkStuck, Webservers
    <3>1. Last # None
      BY <1>2, <2>1 DEF Last
    <3> QED
      BY <3>1, TwinsDiffer
  <2> QED
    BY <1>5, <2>1, <2>2, <2>3
<1>11. CASE Keep(m)
  <2>1. /\ Walking(m) /\ cached[m][KeyAt(m)] = Wanted(m)
        /\ next'[m] = next[m] + 1
        /\ UNCHANGED <<objects, seen, cached, fresh, queue, delayed, snap>>
    BY <1>11 DEF Keep, IInv, TypeOK
  <2>2. NeverDone(m)'
    BY <1>1, <1>3, <2>1 DEF NeverDone, Pending, Webservers
  <2>3. WalkStuck(m)'
    <3> DEFINE p == Plan(Last)
               n == Len(Plan(Last))
               d == Desired(p[n], Len(history), m)
    <3> SUFFICES ASSUME snap[m] = Len(history), Webservers(Last), ~Pending(m)
                 PROVE  /\ next[m] + 1 <= n
                        /\ next[m] + 1 = n => cached[m][ItemKey(p[n])] # d
      BY <1>3, <1>4, <2>1 DEF WalkStuck, Pending, Webservers
    <3>1. /\ next[m] <= n
          /\ next[m] = n => cached[m][ItemKey(p[n])] # d
      BY <1>1 DEF WalkStuck
    <3>2. cached[m][ItemKey(p[next[m]])] =
             Desired(p[next[m]], Len(history), m)
      BY <2>1 DEF Wanted, KeyAt, ItemOf, Last
    <3>3. /\ n \in Nat /\ n >= 2 /\ ItemKey(p[n - 1]) = ItemKey(p[n])
          /\ d # Desired(p[n - 1], Len(history), m)
      BY <1>2, TwinsDiffer
    <3>4. next[m] # n
      BY <3>1, <3>2
    <3>5. next[m] + 1 = n => next[m] = n - 1
      BY <1>2, <3>3
    <3> HIDE DEF p, n, d
    <3>6. next[m] + 1 <= n
      BY <1>2, <3>1, <3>3, <3>4
    <3>7. next[m] = n - 1 => cached[m][ItemKey(p[n])] # d
      BY <3>2, <3>3
    <3> QED
      BY <3>5, <3>6, <3>7
  <2> QED
    BY <1>5, <2>1, <2>2, <2>3
<1>12. CASE Write(m)
  <2>1. delayed'[m]
    BY <1>12 DEF Write, IInv, TypeOK
  <2> QED
    BY <1>6, <2>1 DEF CopiesTelling, Pending
<1>13. CASE Conflict(m)
  <2>1. queue'[m] /\ UNCHANGED <<objects, fresh, delayed>>
    BY <1>13 DEF Conflict, IInv, TypeOK
  <2> QED
    BY <1>5, <1>6, <2>1 DEF Pending
<1>14. CASE Finish(m)
  <2>1. PICK notReady \in BOOLEAN :
           delayed' = [delayed EXCEPT ![m] = delayed[m] \/ notReady]
    BY <1>14 DEF Finish
  <2>2. /\ Running(m) /\ ~Walking(m) /\ snap'[m] = 0
        /\ UNCHANGED <<objects, seen, fresh, queue>>
    BY <1>14 DEF Finish, EndPass, IInv, TypeOK
  <2>3. delayed[m] => delayed'[m]
    BY <2>1 DEF IInv, TypeOK
  <2>4. WalkStuck(m)'
    BY <1>2, <1>3, <2>2 DEF WalkStuck
  <2>5. NeverDone(m)'
    <3> SUFFICES ASSUME seen[m] = Len(history), Last # None, Webservers(Last),
                        ~Pending(m)
                 PROVE  FALSE
      BY <1>3, <2>2, <2>3 DEF NeverDone, Pending, Webservers
    <3>1. snap[m] = Len(history)
      BY <1>1 DEF NeverDone
    <3>2. next[m] <= Len(Plan(Last))
      BY <1>1, <3>1 DEF WalkStuck
    <3> QED
      BY <2>2, <3>1, <3>2 DEF Walking, Last
  <2> QED
    BY <1>5, <2>2, <2>3, <2>4, <2>5
<1> QED
  BY <1>7, <1>8, <1>9, <1>10, <1>11, <1>12, <1>13, <1>14 DEF OwnStep, PassStep

\* A manager starts with a request.
LEMMA StartBusy ==
    ASSUME IInv, NEW m \in Manager, NEW v \in Versions, StartController(m, v)
    PROVE  CopiesTelling(m)' /\ NeverDone(m)' /\ WalkStuck(m)'
<1>1. /\ fresh'[m] = Key /\ seen'[m] = v /\ (history[v] # None => queue'[m])
      /\ snap' = snap /\ history' = history
  BY DEF StartController, IInv, TypeOK
<1>2. snap[m] = 0
  BY DEF StartController, IInv, ManagerInv, Running
<1>3. Len(history) # 0
  BY LastPlan
<1> QED
  BY <1>1, <1>2, <1>3 DEF CopiesTelling, NeverDone, WalkStuck, Pending, Last

\* Every step keeps it.
LEMMA NextBusy ==
    ASSUME IInv, LeaderElect => Serial, ViewInv, [Next]_vars,
           NEW m \in Manager, BusyInv(m)
    PROVE  BusyInv(m)'
<1> SUFFICES ASSUME disturbed' \subseteq {"drift"}, Alone(m)'
             PROVE  CopiesTelling(m)' /\ NeverDone(m)' /\ WalkStuck(m)'
  BY DEF BusyInv
<1>1. CASE Alone(m) /\ Unaffected(m)
  <2>1. CopiesTelling(m) /\ NeverDone(m) /\ WalkStuck(m)
    BY <1>1 DEF BusyInv, Unaffected
  <2>2. Last' = Last
    BY <1>1 DEF Unaffected, Last
  <2>3. CopiesTelling(m)' /\ NeverDone(m)'
    BY <1>1, <2>1, <2>2
       DEF Unaffected, CopiesTelling, NeverDone, Pending, Webservers
  <2>4. WalkStuck(m)'
    BY <1>1, <2>1, <2>2
       DEF Unaffected, WalkStuck, Pending, Webservers, Desired, Incarnation
  <2> QED
    BY <2>3, <2>4
<1>2. CASE \E v \in Versions : StartController(m, v)
  BY <1>2, StartBusy
<1>3. CASE Alone(m) /\ (UserEdit \/ GarbageCollect \/ Drift)
  BY <1>3, EnvironmentBusy
<1>4. CASE Alone(m) /\ OwnStep(m)
  BY <1>4, OwnBusy
<1> QED
  BY <1>1, <1>2, <1>3, <1>4, AloneStep

\* With webservers the manager that writes alone never comes to rest, as long as
\* no answer is lost and no other manager has written beside it since an edit.
THEOREM WebserversKeepBusyHolds == Spec => []WebserversKeepBusy
<1> DEFINE Busy == \A m \in Manager : BusyInv(m)
<1>1. Init => Busy
  BY DEF Init, BusyInv, Alone
<1>2. FullInv /\ Busy /\ [Next]_vars => Busy'
  BY NextBusy DEF FullInv
<1>3. FullInv /\ Busy => WebserversKeepBusy
  <2> SUFFICES ASSUME FullInv, NEW m \in Manager, BusyInv(m), Alone(m),
                      AtRest(m), Restless
               PROVE  FALSE
    BY DEF WebserversKeepBusy
  <2> QED
    BY LastPlan
       DEF FullInv, BusyInv, NeverDone, Pending, AtRest, Running, Restless,
           Webservers
<1> QED
  BY <1>1, <1>2, <1>3, FullInvariance, PTL DEF Spec
=============================================================================
