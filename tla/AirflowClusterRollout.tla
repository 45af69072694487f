----------------------- MODULE AirflowClusterRollout -----------------------
(***************************************************************************)
(* The refinement mapping from AirflowCluster to Rollout.                  *)
(***************************************************************************)
EXTENDS AirflowCluster

SoundSpecs ==
    {s \in Specs : s.clusterConfig # None /\ \A r \in Role : s.roles[r] # None}

\* A StatefulSet needs its ConfigMap, and every object those of the role
\* groups that s declares for the roles before its own.
NeededBy(s, k) ==
    {n \in Key :
        \/ /\ k.kind = "StatefulSet"
           /\ n = KeyOf("ConfigMap", k.role, k.group)
        \/ /\ Rank[n.role] < Rank[k.role]
           /\ <<n.role, n.group>> \in RoleGroupsOf(s)}

NeedsOf == [s \in SoundSpecs |-> [k \in Key |-> NeededBy(s, k)]]

DeclaresOf == [s \in SoundSpecs |-> DesiredKeys(s)]

ContentsOf == [s \in SoundSpecs |-> [k \in DesiredKeys(s) |-> Asks(s, k)]]

Abstract == INSTANCE Rollout
                WITH Sound <- SoundSpecs, Objects <- Key,
                     Declares <- DeclaresOf, Needs <- NeedsOf,
                     Contents <- ContentsOf

\* The operator does nothing to the objects that Rollout does not allow,
\* however caches lag and whatever restarts, errors, lost answers and
\* concurrent edits do: a pass is a number of steps of Rollout at one version,
\* each in its place.
ImplementsRollout == Abstract!Spec
=============================================================================
