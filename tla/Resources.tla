----------------------------- MODULE Resources -----------------------------
(***************************************************************************)
(* The resources of an AirflowCluster: the objects a role group owns, the  *)
(* order in which they are reconciled, and what each of them is built      *)
(* from.  Translated from internal/controller/role/*.go and                *)
(* internal/controller/common/{config,statefulset,service}.go.             *)
(*                                                                         *)
(* Abstracted data.  A role or role-group "config" (logging, resources,    *)
(* affinity, overrides) is one value of Configs; None is an unset one.     *)
(***************************************************************************)
EXTENDS Authentication

CONSTANTS
    Groups,    \* role-group names
    Images,    \* container images
    Configs    \* values of a config section of a role or of a role group

ASSUME ResourcesAssumption == None \notin Groups \cup Images \cup Configs

Role == {"celeryexecutors", "schedulers", "webservers"}

\* RegisterResource registers the roles in this order.
Rank == [celeryexecutors |-> 1, schedulers |-> 2, webservers |-> 3]

OptionalConfig == Configs \cup {None}

GroupSpec == [replicas : Nat, config : OptionalConfig]

\* The map of role groups; None marks a name that is not in the map.
RoleSpec == [config : OptionalConfig,
             groups : [Groups -> GroupSpec \cup {None}]]

\* credentials and vector: whether credentialsSecret and
\* vectorAggregatorConfigMapName are other than the empty string.
ClusterConfigSpec == [authentication : Seq(Entry),
                      credentials : BOOLEAN, vector : BOOLEAN]

AirflowClusterSpec == [image : Images, stopped : BOOLEAN,
                       clusterConfig : ClusterConfigSpec \cup {None},
                       roles : [Role -> RoleSpec \cup {None}]]

-----------------------------------------------------------------------------
(* Objects in the API server.  An object is known by kind and name, and    *)
(* the name is that of the role group (RoleGroupInfo.GetFullName).         *)

ObjectKind == {"ConfigMap", "StatefulSet", "Service"}

Key == [kind : ObjectKind, role : Role, group : Groups]

KeyOf(kind, r, g) == [kind |-> kind, role |-> r, group |-> g]

Port == {"http", "metrics"}

ConfigMap == [auth : AuthConfig \cup {None}, logging : OptionalConfig,
              vector : BOOLEAN]
StatefulSet == [replicas : Nat, image : Images, config : OptionalConfig]
Service == [ports : SUBSET Port]
Object == ConfigMap \cup StatefulSet \cup Service

-----------------------------------------------------------------------------
(* What a specification declares.                                          *)

RoleGroup == Role \X Groups

RoleGroupsOf(s) ==
    {rg \in RoleGroup :
        /\ s.roles[rg[1]] # None
        /\ s.roles[rg[1]].groups[rg[2]] # None}

\* MergeObject(role config, group config): the group's value wins.
MergeObject(roleConfig, groupConfig) ==
    IF groupConfig # None THEN groupConfig ELSE roleConfig

GroupConfig(s, r, g) ==
    MergeObject(s.roles[r].config, s.roles[r].groups[g].config)

-----------------------------------------------------------------------------
(* The reconcilers of a role group, in the order they are added.           *)

ItemKind == {"configmap", "statefulset", "service", "metrics"}

\* "auth" is the list of authenticators made when the group was registered,
\* or None for a cluster without authentication.
AuthValue == Seq(Authenticator) \cup {None}

Item == [kind : ItemKind, role : Role, group : Groups, auth : AuthValue]

\* Variants of ItemKinds for testing: the workload before its configuration;
\* no second service for webservers.
ItemKindsWorkloadFirst(r) ==
    IF r = "webservers"
    THEN <<"statefulset", "configmap", "service", "metrics">>
    ELSE <<"statefulset", "configmap", "metrics">>

ItemKindsOneService(r) == <<"configmap", "statefulset", "metrics">>

\* Only webservers have a service of their own; every role has one for its
\* metrics port.
ItemKinds(r) ==
    IF r = "webservers"
    THEN <<"configmap", "statefulset", "service", "metrics">>
    ELSE <<"configmap", "statefulset", "metrics">>

Reconcilers(r, g, auth) ==
    [i \in DOMAIN ItemKinds(r) |->
        [kind |-> ItemKinds(r)[i], role |-> r, group |-> g, auth |-> auth]]

\* Both services carry the full name of the role group.
ObjectKindOf == [configmap |-> "ConfigMap", statefulset |-> "StatefulSet",
                 service |-> "Service", metrics |-> "Service"]

ItemKey(item) == KeyOf(ObjectKindOf[item.kind], item.role, item.group)

-----------------------------------------------------------------------------
(* Builders.  "aggregator" says that the ConfigMap of the Vector           *)
(* aggregator can be read.                                                 *)

AuthRendered(auth) == auth # None => Rendered(auth)

ConfigMapBuilds(s, auth, aggregator) ==
    /\ AuthRendered(auth)
    /\ s.clusterConfig.vector => aggregator

BuildConfigMap(s, r, g, auth) ==
    [auth |-> IF auth = None THEN None ELSE GetConfig(auth),
     logging |-> GroupConfig(s, r, g),
     vector |-> s.clusterConfig.vector]

\* setMainContainerEnv refuses an empty credentials name.
StatefulSetBuilds(s) == s.clusterConfig.credentials

\* A stopped cluster keeps its StatefulSets, with no replica.
BuildStatefulSet(s, r, g) ==
    [replicas |-> IF s.stopped THEN 0 ELSE s.roles[r].groups[g].replicas,
     image |-> s.image,
     config |-> GroupConfig(s, r, g)]

BuildService(kind) ==
    [ports |-> IF kind = "metrics" THEN {"metrics"} ELSE Port]

Builds(item, s, aggregator) ==
    CASE item.kind = "configmap" -> ConfigMapBuilds(s, item.auth, aggregator)
      [] item.kind = "statefulset" -> StatefulSetBuilds(s)
      [] OTHER -> TRUE

Build(item, s) ==
    CASE item.kind = "configmap" ->
            BuildConfigMap(s, item.role, item.group, item.auth)
      [] item.kind = "statefulset" ->
            BuildStatefulSet(s, item.role, item.group)
      [] OTHER -> BuildService(item.kind)

\* Every object the specification asks for.
DesiredKeys(s) ==
    {k \in Key : <<k.role, k.group>> \in RoleGroupsOf(s)}
=============================================================================
