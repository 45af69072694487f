----------------------------- MODULE PodsProofs -----------------------------
(***************************************************************************)
(* Proofs about Pods.                                                      *)
(***************************************************************************)
EXTENDS Pods, WellFoundedInduction, TLAPS

\* What a pod has got is not ahead of the objects, and was asked for no earlier
\* than the settings its template came with.
PodInv(x) ==
    /\ x.template \in Versions
    /\ x.mounted \in 0..Len(history)
    /\ x.copied \in 0..Len(history)
    /\ AskedBy(applied["ConfigMap"], x.template)
    /\ x.mounted > 0 => AskedBy(x.mounted, x.template)
    /\ x.copied > 0 => AskedBy(x.copied, x.template)

\* The StatefulSet is brought to a version whose settings the ConfigMap has or
\* has had before.
IInv ==
    /\ TypeOK
    /\ history # <<>>
    /\ previous["ConfigMap"] <= applied["ConfigMap"]
    /\ applied["StatefulSet"] > 0 =>
          AskedBy(applied["ConfigMap"], applied["StatefulSet"])
    /\ \A p \in Ordinal : Exists(p) => PodInv(pods[p])

\* What was asked for by one version was so by every later one.
LEMMA AskedLater ==
    ASSUME NEW n \in Nat, NEW m \in Nat, n <= m, NEW v, AskedBy(n, v)
    PROVE  AskedBy(m, v)
BY DEF AskedBy

\* The invariant holds at first: there are no objects and no pods.
LEMMA InitIInv == Init => IInv
<1>1. SUFFICES ASSUME Init PROVE IInv
  OBVIOUS
<1>2. PICK s \in Specs : history = <<s>>
  BY <1>1 DEF Init, Operator!Init
<1>3. history \in Seq(Specs) /\ Len(history) = 1 /\ history # <<>>
  BY <1>2
<1>4. /\ applied = [k \in {"ConfigMap", "StatefulSet"} |-> 0]
      /\ previous = [k \in {"ConfigMap", "StatefulSet"} |-> 0]
  BY <1>1 DEF Init, Operator!Init
<1>5. faults \in 0..MaxFaults
  BY <1>1, BoundsAssumption DEF Init
<1>6. pods \in [Ordinal -> Pod \cup {Absent}] /\ \A p \in Ordinal : ~Exists(p)
  BY <1>1 DEF Init, Exists
<1> QED
  BY <1>3, <1>4, <1>5, <1>6 DEF IInv, TypeOK

\* An object is brought to a version no older than what it has, the
\* StatefulSet only where the ConfigMap is or was.
LEMMA BringIInv ==
    ASSUME IInv, NEW k \in {"ConfigMap", "StatefulSet"}, NEW v \in Versions,
           Bring(k, v)
    PROVE  IInv'
<1>1. /\ applied[k] <= v
      /\ applied' = [applied EXCEPT ![k] = v]
      /\ previous' = [previous EXCEPT ![k] = applied[k]]
      /\ UNCHANGED <<history, pods, faults>>
  BY DEF Bring, Operator!Bring
<1>2. /\ applied \in [{"ConfigMap", "StatefulSet"} -> Nat]
      /\ previous \in [{"ConfigMap", "StatefulSet"} -> Nat]
      /\ Len(history) \in Nat /\ v \in Nat /\ v \in 0..Len(history)
      /\ history \in Seq(Specs)
  BY DEF IInv, TypeOK, Versions
<1>3. k = "StatefulSet" => AskedBy(applied["ConfigMap"], v)
  <2> SUFFICES ASSUME k = "StatefulSet"
               PROVE  AskedBy(applied["ConfigMap"], v)
    OBVIOUS
  <2>1. history[v] \in Specs
    BY DEF Bring, Operator!Bring
  <2>2. \A n \in [s \in Specs |-> NeededFor(s)][history[v]][k] :
           Operator!Met(n, v)
    BY DEF Bring, Operator!Bring
  <2>3. Operator!Met("ConfigMap", v)
    BY <2>1, <2>2 DEF NeededFor
  <2>4. PICK u \in {applied["ConfigMap"], previous["ConfigMap"]} :
           Operator!Fits("ConfigMap", u, v)
    BY <2>3 DEF Operator!Met
  <2>5. u \in 1..applied["ConfigMap"] /\ u \in 1..Len(history)
    BY <1>2, <2>4 DEF Operator!Fits, IInv, TypeOK
  <2>6. history[u] \in Specs
    BY <1>2, <2>5
  <2>7. GetLogging(history[u]) = GetLogging(history[v])
    BY <2>1, <2>4, <2>6 DEF Operator!Fits, Asks
  <2> QED
    BY <2>5, <2>7 DEF AskedBy
<1>4. TypeOK' /\ (history # <<>>)'
  BY <1>1, <1>2 DEF IInv, TypeOK, Pod, Ordinal
<1>5. /\ applied'["ConfigMap"] \in Nat
      /\ applied["ConfigMap"] <= applied'["ConfigMap"]
      /\ previous'["ConfigMap"] <= applied'["ConfigMap"]
  BY <1>1, <1>2 DEF IInv
<1>6. ASSUME NEW x, AskedBy(applied["ConfigMap"], x)
      PROVE  AskedBy(applied["ConfigMap"], x)'
  <2>1. AskedBy(applied'["ConfigMap"], x)
    BY <1>2, <1>5, <1>6, AskedLater
  <2> QED
    BY <1>1, <2>1 DEF AskedBy
<1>7. applied'["StatefulSet"] > 0 =>
         AskedBy(applied["ConfigMap"], applied["StatefulSet"])'
  <2>1. CASE k = "StatefulSet"
    <3>1. AskedBy(applied["ConfigMap"], v)'
      BY <1>3, <1>6, <2>1
    <3> QED
      BY <1>1, <1>2, <2>1, <3>1 DEF AskedBy
  <2>2. CASE k = "ConfigMap"
    <3>1. applied'["StatefulSet"] = applied["StatefulSet"]
      BY <1>1, <1>2, <2>2
    <3> QED
      BY <1>6, <3>1 DEF IInv, AskedBy
  <2> QED
    BY <2>1, <2>2
<1>8. ASSUME NEW p \in Ordinal, Exists(p)'
      PROVE  PodInv(pods[p])'
  <2>1. Exists(p)
    BY <1>1, <1>8 DEF Exists
  <2>2. PodInv(pods[p])
    BY <2>1 DEF IInv
  <2> QED
    BY <1>1, <1>6, <2>2 DEF PodInv, AskedBy, Versions
<1> QED
  BY <1>4, <1>5, <1>7, <1>8 DEF IInv

\* A pod that is made, changed or removed: only that pod is to be looked at.
LEMMA PodChange ==
    ASSUME IInv, NEW p \in Ordinal, NEW x \in Pod \cup {Absent},
           pods' = [pods EXCEPT ![p] = x],
           UNCHANGED <<history, applied, previous>>, faults' \in 0..MaxFaults,
           x # Absent => PodInv(x)
    PROVE  IInv'
<1>1. TypeOK'
  BY DEF IInv, TypeOK
<1>2. \A q \in Ordinal : pods'[q] = IF q = p THEN x ELSE pods[q]
  BY DEF IInv, TypeOK
<1>3. ASSUME NEW q \in Ordinal, Exists(q)'
      PROVE  PodInv(pods[q])'
  <2>1. PodInv(pods'[q])
    BY <1>2, <1>3 DEF IInv, Exists
  <2> QED
    BY <2>1 DEF PodInv, AskedBy, Versions
<1> QED
  BY <1>1, <1>3 DEF IInv, AskedBy

\* Every step of a pod keeps the invariant.
LEMMA PodStepIInv ==
    ASSUME IInv, NEW p \in Ordinal,
           Controller(p) \/ Kubelet(p) \/ Refresh(p) \/ Crash(p)
    PROVE  IInv'
<1>1. /\ applied["ConfigMap"] \in 0..Len(history)
      /\ applied["StatefulSet"] \in 0..Len(history)
      /\ faults \in 0..MaxFaults
      /\ Len(history) \in Nat
      /\ applied["ConfigMap"] \in Nat
  BY DEF IInv, TypeOK
<1>2. Exists(p) => pods[p] \in Pod
  BY DEF IInv, TypeOK, Exists
<1>3. CASE CreatePod(p)
  <2> DEFINE x == [template |-> applied["StatefulSet"], mounted |-> 0, copied |-> 0]
  <2>1. x \in Pod
    BY <1>1 DEF Pod
  <2>2. pods' = [pods EXCEPT ![p] = x]
        /\ UNCHANGED <<history, applied, previous, faults>>
    BY <1>3 DEF CreatePod
  <2>3. PodInv(x)
    BY <1>1, <1>3 DEF CreatePod, MayCreate, Wanted, PodInv, IInv, Versions
  <2> QED
    BY <1>1, <2>1, <2>2, <2>3, PodChange
<1>4. CASE ScaleDown(p) \/ ReplacePod(p)
  <2>1. pods' = [pods EXCEPT ![p] = Absent]
        /\ UNCHANGED <<history, applied, previous, faults>>
    BY <1>4 DEF ScaleDown, ReplacePod, RemovePod
  <2> QED
    BY <1>1, <2>1, PodChange
<1>5. CASE Mount(p) \/ Refresh(p)
  <2> DEFINE x == [pods[p] EXCEPT !.mounted = applied["ConfigMap"]]
  <2>1. Exists(p)
    BY <1>5 DEF Mount, Refresh, MayMount, MayRefresh
  <2>2. pods' = [pods EXCEPT ![p] = x]
        /\ UNCHANGED <<history, applied, previous, faults>>
    BY <1>5 DEF Mount, Refresh
  <2>3. PodInv(pods[p])
    BY <2>1 DEF IInv
  <2>4. x \in Pod /\ x.template = pods[p].template /\ x.copied = pods[p].copied
        /\ x.mounted = applied["ConfigMap"]
    BY <1>1, <1>2, <2>1 DEF Pod
  <2>5. pods[p].template \in Nat
    BY <1>2, <2>1 DEF Pod
  <2>6. PodInv(x)
    BY <1>1, <1>2, <2>1, <2>3, <2>4, <2>5 DEF PodInv, Pod
  <2> HIDE DEF x
  <2> QED
    BY <1>1, <2>2, <2>4, <2>6, PodChange
<1>6. CASE StartContainer(p)
  <2> DEFINE x == [pods[p] EXCEPT !.copied = pods[p].mounted]
  <2>1. Exists(p)
    BY <1>6 DEF StartContainer, MayStart
  <2>2. pods' = [pods EXCEPT ![p] = x]
        /\ UNCHANGED <<history, applied, previous, faults>>
    BY <1>6 DEF StartContainer
  <2>3. PodInv(pods[p])
    BY <2>1 DEF IInv
  <2>4. x \in Pod /\ x.template = pods[p].template /\ x.copied = pods[p].mounted
        /\ x.mounted = pods[p].mounted
    BY <1>2, <2>1 DEF Pod
  <2>5. PodInv(x)
    BY <1>1, <1>2, <2>1, <2>3, <2>4 DEF PodInv, Pod
  <2> HIDE DEF x
  <2> QED
    BY <1>1, <2>2, <2>4, <2>5, PodChange
<1>7. CASE CrashOnLoad(p) \/ Crash(p)
  <2> DEFINE x == [pods[p] EXCEPT !.copied = 0]
  <2>1. Exists(p)
    BY <1>7 DEF CrashOnLoad, FailsToLoad, Crash, Running
  <2>2. pods' = [pods EXCEPT ![p] = x]
        /\ UNCHANGED <<history, applied, previous>>
    BY <1>7 DEF CrashOnLoad, Crash, ContainerEnds
  <2>3. faults' \in 0..MaxFaults
    BY <1>1, <1>7, BoundsAssumption DEF CrashOnLoad, Crash
  <2>4. PodInv(pods[p])
    BY <2>1 DEF IInv
  <2>5. x \in Pod /\ x.template = pods[p].template /\ x.copied = 0
        /\ x.mounted = pods[p].mounted
    BY <1>2, <2>1 DEF Pod
  <2>6. PodInv(x)
    BY <1>2, <2>1, <2>4, <2>5 DEF PodInv, Pod
  <2> HIDE DEF x
  <2> QED
    BY <2>2, <2>3, <2>5, <2>6, PodChange
<1> QED
  BY <1>3, <1>4, <1>5, <1>6, <1>7 DEF Controller, Kubelet

\* Every step keeps the invariant.
LEMMA NextIInv == IInv /\ [Next]_vars => IInv'
<1> SUFFICES ASSUME IInv, [Next]_vars PROVE IInv'
  OBVIOUS
<1>1. CASE UserEdit
  <2>1. PICK s \in Specs : history' = Append(history, s)
    BY <1>1 DEF UserEdit
  <2>2. UNCHANGED <<applied, previous, pods, faults>>
    BY <1>1 DEF UserEdit
  <2>3. history \in Seq(Specs)
    BY DEF IInv, TypeOK
  <2>4. history' \in Seq(Specs) /\ Len(history') = Len(history) + 1
        /\ history' # <<>> /\ Len(history) \in Nat
        /\ \A v \in 1..Len(history) : history'[v] = history[v]
    BY <2>1, <2>3
  <2>5. /\ applied \in [{"ConfigMap", "StatefulSet"} -> 0..Len(history')]
        /\ previous \in [{"ConfigMap", "StatefulSet"} -> 0..Len(history')]
    BY <2>4 DEF IInv, TypeOK
  <2>6. TypeOK'
    BY <2>2, <2>4, <2>5 DEF IInv, TypeOK
  <2>7. ASSUME NEW n \in 0..Len(history), NEW v \in Versions, AskedBy(n, v)
        PROVE  \E u \in 1..n : GetLogging(history'[u]) = GetLogging(history'[v])
    <3>1. PICK u \in 1..n : GetLogging(history[u]) = GetLogging(history[v])
      BY <2>7 DEF AskedBy
    <3>2. history'[u] = history[u] /\ history'[v] = history[v]
      BY <2>4, <3>1 DEF Versions
    <3> QED
      BY <3>1, <3>2
  <2>8. applied["ConfigMap"] \in 0..Len(history) /\ applied["StatefulSet"] \in Nat
        /\ (applied["StatefulSet"] > 0 => applied["StatefulSet"] \in Versions)
    BY DEF IInv, TypeOK, Versions
  <2>9. ASSUME NEW p \in Ordinal, Exists(p)' PROVE PodInv(pods[p])'
    <3>1. Exists(p) /\ PodInv(pods[p])
      BY <2>2, <2>9 DEF Exists, IInv
    <3> DEFINE x == pods[p]
    <3>2. /\ pods'[p] = x /\ applied' = applied
          /\ x.template \in Versions /\ x.template \in Versions'
          /\ x.mounted \in 0..Len(history) /\ x.mounted \in 0..Len(history')
          /\ x.copied \in 0..Len(history) /\ x.copied \in 0..Len(history')
      BY <2>2, <2>4, <3>1 DEF PodInv, Versions
    <3>3. AskedBy(applied["ConfigMap"], x.template)'
      BY <2>2, <2>7, <2>8, <3>1, <3>2 DEF PodInv, AskedBy
    <3>4. x.mounted > 0 =>
             \E u \in 1..x.mounted :
                GetLogging(history'[u]) = GetLogging(history'[x.template])
      BY <2>7, <3>1, <3>2 DEF PodInv
    <3>5. x.copied > 0 =>
             \E u \in 1..x.copied :
                GetLogging(history'[u]) = GetLogging(history'[x.template])
      BY <2>7, <3>1, <3>2 DEF PodInv
    <3> QED
      BY <3>2, <3>3, <3>4, <3>5 DEF PodInv, AskedBy
  <2> QED
    BY <2>2, <2>4, <2>6, <2>7, <2>8, <2>9 DEF IInv, AskedBy
<1>2. CASE \E k \in {"ConfigMap", "StatefulSet"}, v \in Versions : Bring(k, v)
  BY <1>2, BringIInv
<1>3. CASE \E p \in Ordinal : Controller(p) \/ Kubelet(p) \/ Refresh(p) \/ Crash(p)
  BY <1>3, PodStepIInv
<1>4. CASE UNCHANGED vars
  BY <1>4 DEF vars, IInv, PodInv, TypeOK, Exists, AskedBy, Versions
<1> QED
  BY <1>1, <1>2, <1>3, <1>4 DEF Next

\* The invariant holds in every reachable state.
LEMMA Invariance == Spec => []IInv
BY InitIInv, NextIInv, PTL DEF Spec

\* Every variable keeps its type: versions of objects and pods are versions
\* the resource has had.
THEOREM TypeCorrect == Spec => []TypeOK
<1>1. IInv => TypeOK
  BY DEF IInv
<1> QED
  BY <1>1, Invariance, PTL

\* No pod runs with settings from before those its template came with were
\* first asked for, for any number of pods, versions, edits that take one
\* another back, and crashes.
THEOREM SettingsSinceTemplateHolds == Spec => []SettingsSinceTemplate
<1>1. IInv => SettingsSinceTemplate
  BY DEF IInv, PodInv, SettingsSinceTemplate, Running
<1> QED
  BY <1>1, Invariance, PTL

-----------------------------------------------------------------------------
(* The pods come to rest as the latest version asks.                       *)

\* Of some pods there is one with the lowest ordinal.
LEMMA LowestOrdinal ==
    ASSUME NEW T, T \subseteq Nat, T # {}
    PROVE  \E x \in T : \A y \in T : x <= y
<1>1. PICK x \in T : \A y \in T : <<y, x>> \notin OpToRel(<, Nat)
  BY NatLessThanWellFounded, WFMin
<1>2. \A y \in T : ~(y < x)
  BY <1>1 DEF OpToRel
<1> QED
  BY <1>2

\* Of some pods there is one with the highest ordinal.
LEMMA HighestOrdinal ==
    ASSUME NEW T, T \subseteq Ordinal, T # {}
    PROVE  \E x \in T : \A y \in T : y <= x
<1> DEFINE U == {MaxReplicas - y : y \in T}
<1>1. MaxReplicas \in Nat
  BY BoundsAssumption
<1>2. U \subseteq Nat /\ U # {}
  <2>1. \A y \in T : y \in Int /\ 0 <= y /\ y <= MaxReplicas - 1
    BY <1>1 DEF Ordinal
  <2>2. \A y \in T : MaxReplicas - y \in Nat
    BY <1>1, <2>1
  <2>3. U \subseteq Nat
    BY <2>2
  <2> QED
    BY <2>3
<1>3. PICK u \in U : \A v \in U : u <= v
  BY <1>2, LowestOrdinal
<1>4. PICK x \in T : u = MaxReplicas - x
  BY <1>3
<1>5. \A y \in T : y \in Int /\ MaxReplicas - x <= MaxReplicas - y
  BY <1>3, <1>4 DEF Ordinal
<1> QED
  BY <1>1, <1>4, <1>5 DEF Ordinal

\* At rest the kubelet has brought every pod there is to run.
LEMMA RestRuns ==
    ASSUME IInv, AtRest, NEW p \in Ordinal, Exists(p)
    PROVE  Running(p)
<1>1. pods[p] \in Pod /\ PodInv(pods[p])
  BY DEF IInv, TypeOK, Exists
<1>2. applied["ConfigMap"] \in Nat /\ applied["ConfigMap"] > 0
  BY DEF AtRest, InPlace, Operator!Fits, IInv, TypeOK
<1>3. pods[p].mounted > 0
  BY <1>1, <1>2 DEF AtRest, MayMount, Pod
<1> QED
  BY <1>1, <1>3 DEF AtRest, MayStart, Pod, Running

\* The StatefulSet asks for a natural number of pods.
LEMMA ReplicasType ==
    ASSUME IInv, applied["StatefulSet"] > 0
    PROVE  Replicas(history[applied["StatefulSet"]]) \in Nat
<1>1. /\ applied["StatefulSet"] \in 1..Len(history)
      /\ history \in Seq(RoleGroupSpec)
  BY SpecsAssumption DEF IInv, TypeOK
<1>2. history[applied["StatefulSet"]] \in RoleGroupSpec
  BY <1>1
<1> QED
  BY <1>2, BoundsAssumption DEF RoleGroupSpec, Replicas

\* At rest no pod is missing: the lowest one that is could be made.
LEMMA RestComplete ==
    ASSUME IInv, AtRest, NEW p \in Ordinal, Wanted(p)
    PROVE  Exists(p)
<1> SUFFICES ASSUME ~Exists(p) PROVE FALSE
  OBVIOUS
<1> DEFINE T == {q \in Ordinal : Wanted(q) /\ ~Exists(q)}
<1>1. T \subseteq Nat /\ T # {}
  BY DEF Ordinal
<1>2. PICK x \in T : \A y \in T : x <= y
  BY <1>1, LowestOrdinal
<1>3. ASSUME NEW q \in Ordinal, q < x PROVE Running(q)
  <2>1. Wanted(q)
    BY <1>2, <1>3, ReplicasType DEF Wanted, Ordinal
  <2>2. Exists(q)
    BY <1>2, <1>3, <2>1 DEF Ordinal
  <2> QED
    BY <2>2, RestRuns
<1>4. MayCreate(x)
  BY <1>2, <1>3 DEF MayCreate
<1> QED
  BY <1>2, <1>4 DEF AtRest

\* At rest no pod is too many: the highest one that is could be removed.
LEMMA RestNoMore ==
    ASSUME IInv, AtRest, NEW p \in Ordinal, Exists(p)
    PROVE  Wanted(p)
<1> SUFFICES ASSUME ~Wanted(p) PROVE FALSE
  OBVIOUS
<1> DEFINE T == {q \in Ordinal : ~Wanted(q) /\ Exists(q)}
<1>1. PICK x \in T : \A y \in T : y <= x
  BY HighestOrdinal
<1>2. ASSUME NEW q \in Ordinal, q > x PROVE ~Exists(q)
  <2>1. ~Wanted(q)
    BY <1>1, <1>2, ReplicasType DEF Wanted, Ordinal
  <2> QED
    BY <1>1, <1>2, <2>1 DEF Ordinal
<1>3. \A q \in Ordinal : Wanted(q) => Running(q)
  BY RestComplete, RestRuns
<1>4. MayScaleDown(x)
  BY <1>1, <1>2, <1>3 DEF MayScaleDown
<1> QED
  BY <1>1, <1>4 DEF AtRest

\* At rest every pod has the current template: the highest one that has not
\* could be replaced.
LEMMA RestCurrent ==
    ASSUME IInv, AtRest, NEW p \in Ordinal, Exists(p)
    PROVE  Current(p)
<1> SUFFICES ASSUME ~Current(p) PROVE FALSE
  OBVIOUS
<1> DEFINE T == {q \in Ordinal : Exists(q) /\ ~Current(q)}
<1>1. PICK x \in T : \A y \in T : y <= x
  BY HighestOrdinal
<1>2. \A q \in Ordinal : (Wanted(q) <=> Exists(q)) /\ (Wanted(q) => Running(q))
  BY RestComplete, RestNoMore, RestRuns
<1>3. ASSUME NEW q \in Ordinal, Wanted(q), q > x PROVE Current(q)
  BY <1>1, <1>2, <1>3 DEF Ordinal
<1>4. MayReplace(x)
  BY <1>1, <1>2, <1>3 DEF MayReplace
<1> QED
  BY <1>1, <1>4 DEF AtRest

\* Nothing can be left to do in a group that is not as the latest version
\* asks, for any number of pods, versions and crashes.
THEOREM RestMeansAsAskedHolds == Spec => []RestMeansAsAsked
<1>1. IInv => RestMeansAsAsked
  <2> SUFFICES ASSUME IInv, AtRest PROVE AsAsked
    BY DEF RestMeansAsAsked
  <2> DEFINE s == history[applied["StatefulSet"]]
  <2>1. /\ applied["StatefulSet"] > 0
        /\ Template(s) = Template(Last) /\ Replicas(s) = Replicas(Last)
    <3>1. /\ applied["StatefulSet"] > 0
          /\ [t \in Specs |-> Asks(t)][s]["StatefulSet"] =
                [t \in Specs |-> Asks(t)][Last]["StatefulSet"]
      BY DEF AtRest, InPlace, Operator!Fits, Last
    <3>2. s \in Specs /\ Last \in Specs
      BY <3>1 DEF IInv, TypeOK, Last
    <3> QED
      BY <3>1, <3>2 DEF Asks
  <2> SUFFICES ASSUME NEW p \in Ordinal
               PROVE  /\ Exists(p) <=> p < Replicas(Last)
                      /\ Exists(p) =>
                            /\ Running(p)
                            /\ Template(history[pods[p].template]) = Template(Last)
                            /\ Loads(history[pods[p].copied])
    BY DEF AsAsked
  <2>2. Exists(p) <=> p < Replicas(Last)
    BY <2>1, RestComplete, RestNoMore DEF Wanted
  <2>3. ASSUME Exists(p)
        PROVE  /\ Running(p)
               /\ Template(history[pods[p].template]) = Template(Last)
               /\ Loads(history[pods[p].copied])
    <3>1. Running(p) /\ Current(p)
      BY <2>3, RestRuns, RestCurrent
    <3> QED
      BY <2>1, <3>1 DEF Current, AtRest, FailsToLoad
  <2> QED
    BY <2>2, <2>3
<1> QED
  BY <1>1, Invariance, PTL
=============================================================================
