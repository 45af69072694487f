--------------------------- MODULE RolloutProofs ---------------------------
(***************************************************************************)
(* AirflowCluster implements Rollout: every step of the operator is a step *)
(* of Rollout or leaves its variables alone.                               *)
(***************************************************************************)
EXTENDS AirflowClusterRollout, AirflowClusterProofs

\* The versions of a sound specification and what they ask of an object.
LEMMA SoundContents ==
    ASSUME NEW k \in Key, NEW s, SoundFor(k, s)
    PROVE  s \in SoundSpecs /\ ContentsOf[s][k] = Asks(s, k)
BY DEF SoundFor, SoundSpecs, ContentsOf

\* A version that a pass works on in its second phase is sound.
LEMMA WalkingSound ==
    ASSUME BaseInv, Walking
    PROVE  SoundFor(At, Instance)
<1>1. /\ next \in 1..Len(plan) /\ snap \in 1..Len(history)
      /\ plan[next] \in Item /\ At \in Key
  BY WalkingItem
<1>2. Instance \in Specs /\ Instance # None
  <2>1. history[snap] \in Specs \cup {None}
    BY <1>1, ElementOfSeq DEF BaseInv, TypeOK
  <2>2. history[snap] # None
    BY DEF BaseInv, PassInv, Walking
  <2> QED
    BY <2>1, <2>2 DEF Instance
<1>3. /\ Instance.clusterConfig # None
      /\ \A r \in Role : Instance.roles[r] # None
      /\ <<plan[next].role, plan[next].group>> \in RoleGroupsOf(Instance)
  BY <1>1 DEF BaseInv, PassInv, Walking, AllRegistered, Instance
<1>4. At.role = plan[next].role /\ At.group = plan[next].group
  BY DEF At, ItemKey, KeyOf
<1> QED
  BY <1>1, <1>2, <1>3, <1>4 DEF SoundFor, DesiredKeys

\* What a specification declares, seen from the objects it needs.
LEMMA NeededDeclared ==
    ASSUME NEW s, NEW k \in DesiredKeys(s), NEW n \in NeededBy(s, k)
    PROVE  n \in DesiredKeys(s)
<1>1. k.role \in Role /\ k.group \in Groups /\ n \in Key
  BY DEF NeededBy, DesiredKeys, Key
<1>2. <<n.role, n.group>> \in RoleGroupsOf(s)
  BY DEF NeededBy, DesiredKeys, KeyOf
<1> QED
  BY <1>1, <1>2 DEF DesiredKeys

\* What the next object needs is as the version of the pass asks, or was until
\* its last write.
LEMMA NeedsMet ==
    ASSUME PassInvariant, Walking, NEW n \in NeededBy(Instance, At)
    PROVE  Met(n, snap)
<1>1. /\ next \in 1..Len(plan) /\ Len(plan) \in Nat
      /\ plan[next] \in Item /\ n \in Key
  BY WalkingItem DEF PassInvariant, NeededBy
<1>2. At.role = plan[next].role /\ At.group = plan[next].group
  BY DEF At, ItemKey, KeyOf
<1>3. CASE At.kind = "StatefulSet" /\ n = KeyOf("ConfigMap", At.role, At.group)
  <2>1. plan[next].kind = "statefulset"
    BY <1>1, <1>3 DEF At, ItemKey, KeyOf, ObjectKindOf, Item, ItemKind
  <2>2. PICK j \in 1..next - 1 : ItemKey(plan[j]) = n
    BY <1>1, <1>2, <1>3, <2>1 DEF PassInvariant, PlanInv, ConfigFirst
  <2> QED
    BY <2>2, AlreadyWalked
<1>4. CASE /\ Rank[n.role] < Rank[At.role]
           /\ <<n.role, n.group>> \in RoleGroupsOf(Instance)
  <2>1. n.role \in Role /\ n.group \in Groups /\ n.kind \in ObjectKind
        /\ n = KeyOf(n.kind, n.role, n.group)
    BY <1>1 DEF Key, KeyOf
  <2>2. PICK j \in 1..next - 1 : ItemKey(plan[j]) = n
    BY <1>1, <1>2, <1>4, <2>1 DEF PassInvariant, PlanInv, RolesRanked
  <2> QED
    BY <2>2, AlreadyWalked
<1> QED
  BY <1>3, <1>4 DEF NeededBy

\* An object that is as version v asks is so in Rollout's terms.
LEMMA MetAbstract ==
    ASSUME PassInvariant, NEW n \in Key, NEW v, SoundFor(n, history[v]),
           Met(n, v)
    PROVE  Abstract!Met(n, v)
<1>1. ASSUME NEW u, SoundFor(n, history[u]), Fits(n, u, v)
      PROVE  Abstract!Fits(n, u, v)
  BY <1>1, SoundContents DEF Fits, Abstract!Fits
<1>2. /\ applied[n] > 0 => SoundFor(n, history[applied[n]])
      /\ previous[n] > 0 => SoundFor(n, history[previous[n]])
  BY DEF PassInvariant, SoundInv
<1> QED
  BY <1>1, <1>2 DEF Met, Fits, Abstract!Met

\* Writing an object brings it to the version of the pass.
LEMMA BringStep ==
    ASSUME PassInvariant, Put
    PROVE  Abstract!Bring(At, snap)
<1>1. /\ Walking /\ BaseInv
      /\ applied' = [applied EXCEPT ![At] = snap]
      /\ previous' = [previous EXCEPT ![At] = applied[At]]
      /\ UNCHANGED history
  BY DEF Put, Differs, cluster, PassInvariant
<1>2. SoundFor(At, Instance) /\ At \in Key /\ Instance = history[snap]
  BY <1>1, WalkingSound, WalkingItem DEF Instance
<1>3. history[snap] \in SoundSpecs /\ At \in DeclaresOf[history[snap]]
  BY <1>2 DEF SoundFor, SoundSpecs, DeclaresOf
<1>4. applied[At] <= snap
  BY <1>1, <1>2 DEF BaseInv, AppliedInv, Walking
<1>5. \A n \in NeedsOf[history[snap]][At] : Abstract!Met(n, snap)
  <2>1. NeedsOf[history[snap]][At] = NeededBy(Instance, At)
    BY <1>2, <1>3 DEF NeedsOf
  <2> SUFFICES ASSUME NEW n \in NeededBy(Instance, At)
               PROVE  Abstract!Met(n, snap)
    BY <2>1
  <2>2. Met(n, snap)
    BY <1>1, NeedsMet
  <2>3. n \in DesiredKeys(Instance)
    BY <1>2, NeededDeclared DEF SoundFor
  <2>4. SoundFor(n, history[snap]) /\ n \in Key
    BY <1>2, <2>3 DEF SoundFor, DesiredKeys
  <2> QED
    BY <2>2, <2>4, MetAbstract
<1> QED
  BY <1>1, <1>3, <1>4, <1>5 DEF Abstract!Bring

\* Every step maps to a step of Rollout or to a stutter.
LEMMA StepImplements ==
    ASSUME PassInvariant, [Next]_vars
    PROVE  [Abstract!Next]_(Abstract!vars)
<1>1. CASE Put
  <2>1. At \in Key /\ snap \in 1..Len(history)
    BY <1>1, WalkingItem DEF PassInvariant, Put, Differs
  <2> QED
    BY <1>1, <2>1, BringStep DEF Abstract!Next
<1>2. CASE /\ ~Deleted
           /\ \E x \in Specs \cup {None} : history' = Append(history, x)
           /\ UNCHANGED <<stored, copies>>
  <2>1. /\ history[Len(history)] # None
        /\ UNCHANGED <<applied, previous>>
    BY <1>2 DEF Deleted, Last, stored
  <2> QED
    BY <1>2, <2>1 DEF Abstract!Next, Abstract!NewVersion
<1>3. CASE UNCHANGED <<history, applied, previous>>
  BY <1>3 DEF Abstract!vars
<1> QED
  BY <1>1, <1>2, <1>3, StoreStep DEF stored, cluster, GarbageCollect, Sync

\* The operator implements the abstract rollout.
THEOREM ImplementsRolloutHolds == Spec => ImplementsRollout
<1>1. Init => Abstract!Init
  BY DEF Init, Abstract!Init
<1>2. PassInvariant /\ [Next]_vars => [Abstract!Next]_(Abstract!vars)
  BY StepImplements
<1> QED
  BY <1>1, <1>2, PassInvariantHolds, PTL
     DEF Spec, ImplementsRollout, Abstract!Spec
=============================================================================
