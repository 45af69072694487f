----------------------------- MODULE MCManagers -----------------------------
(***************************************************************************)
(* Instances of Managers: one role group, one or two managers.             *)
(***************************************************************************)
EXTENDS ManagersUpkeep

CONSTANTS g1, old, new, devTag

MCTags == {old, new, devTag, "2.10.5"}
MCImages == ImageSpec
OneBuild == <<old>>
TwoBuilds == <<old, new>>

Group(replicas) == [replicas |-> replicas, config |-> None]
RoleOf(replicas) == [config |-> None, groups |-> [g \in Groups |-> Group(replicas)]]
NoGroups == [config |-> None, groups |-> [g \in Groups |-> None]]

\* The image follows the operator, or keeps the tag the API server fills in.
Following == [product |-> None, kubedoop |-> None]
Pinned == [product |-> "2.10.5", kubedoop |-> devTag]

SpecOf(image, schedulers, webservers) ==
    [image |-> image, stopped |-> FALSE,
     clusterConfig |-> [authentication |-> <<>>, credentials |-> TRUE,
                        vector |-> FALSE],
     roles |-> [celeryexecutors |-> NoGroups, schedulers |-> schedulers,
                webservers |-> webservers]]

Quiet(image, replicas) == SpecOf(image, RoleOf(replicas), NoGroups)
Web(image, replicas) == SpecOf(image, NoGroups, RoleOf(replicas))

QuietSpecs == {Quiet(Following, 1), Quiet(Following, 2)}
ElectedSpecs == {Web(Following, 1), Web(Pinned, 1)}
=============================================================================
