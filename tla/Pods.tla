-------------------------------- MODULE Pods --------------------------------
(***************************************************************************)
(* The pods of one role group.  The operator brings the ConfigMap and the  *)
(* StatefulSet of the group to versions of the resource as Rollout says,   *)
(* which AirflowCluster implements.  The StatefulSet controller makes and  *)
(* replaces pods in order; the kubelet refreshes the mounted ConfigMap     *)
(* and restarts containers; the main container copies what is mounted once,*)
(* when it starts, and Airflow ends at once if it cannot load it.          *)
(* Translated from getLogging in internal/controller/common/config.go and  *)
(* Build in statefulset.go; the cluster is modelled from what they use.    *)
(*                                                                         *)
(* Abstracted.  Of the settings there are the log levels.  A pod is ready  *)
(* when its main container runs: the builder gives it no probe.            *)
(***************************************************************************)
EXTENDS Naturals, Sequences

CONSTANTS
    Specs,         \* what users ask of the role group
    Images,        \* container images
    None,          \* an unset optional value
    Absent,        \* no pod
    MaxReplicas,   \* bound on the replicas of the group
    MaxVersions,   \* bound on the versions of the resource
    MaxFaults      \* bound on containers that end by themselves

\* The levels the API admits.
Level == {"FATAL", "ERROR", "WARN", "INFO", "DEBUG", "TRACE"}

\* logging.containers[role]: each logger may be left out.
Logging == [file : Level \cup {None}, console : Level \cup {None},
            root : Level \cup {None}]

RoleGroupSpec == [image : Images, replicas : 0..MaxReplicas,
                  stopped : BOOLEAN, logging : Logging \cup {None}]

ASSUME SpecsAssumption == Specs \subseteq RoleGroupSpec
ASSUME AbsentAssumption == Absent \notin [template : Nat, mounted : Nat, copied : Nat]
ASSUME BoundsAssumption ==
    MaxReplicas \in Nat /\ MaxVersions \in Nat \ {0} /\ MaxFaults \in Nat

VARIABLES
    history,   \* the versions of the resource
    applied,   \* the version each object was last brought to, or 0
    previous,  \* the version it was brought to before that, or 0
    pods,      \* the pods, by ordinal
    faults     \* faults so far

vars == <<history, applied, previous, pods, faults>>

Versions == 1..Len(history)
Last == history[Len(history)]

Ordinal == 0..MaxReplicas - 1

\* template: the version of the StatefulSet the pod was made from; mounted:
\* that of the ConfigMap in its volume; copied: that of the files the running
\* container has copied.  0 stands for none yet.
Pod == [template : Nat, mounted : Nat, copied : Nat]

-----------------------------------------------------------------------------
(* What is built from a specification.                                     *)

\* Variant of NeededFor for testing SettingsSinceTemplate: the workload first.
NeedNothing(s) == [k \in {"ConfigMap", "StatefulSet"} |-> {}]

\* RegisterResourceWithRoleGroup adds the ConfigMap before the StatefulSet.
NeededFor(s) == [ConfigMap |-> {}, StatefulSet |-> {"ConfigMap"}]

DefaultLogLevel == "INFO"

\* ConfigMapBuilder.getLogging writes each level as it is given.
GetLogging(s) ==
    [l \in {"file", "console", "root"} |->
        IF s.logging = None \/ s.logging[l] = None THEN DefaultLogLevel
                                                   ELSE s.logging[l]]

\* The names the logging module of Python knows.
PythonLevel == {"CRITICAL", "FATAL", "ERROR", "WARNING", "WARN", "INFO",
                "DEBUG", "NOTSET"}

\* dictConfig raises an error for a level it does not know.
Loads(s) == \A l \in DOMAIN GetLogging(s) : GetLogging(s)[l] \in PythonLevel

\* The pod template names the ConfigMap and holds nothing of its content.
Template(s) == s.image

Replicas(s) == IF s.stopped THEN 0 ELSE s.replicas

\* What a specification asks of each object.
Asks(s) == [ConfigMap |-> GetLogging(s),
            StatefulSet |-> <<Template(s), Replicas(s)>>]

Operator == INSTANCE Rollout
                WITH Sound <- Specs,
                     Objects <- {"ConfigMap", "StatefulSet"},
                     Declares <- [s \in Specs |-> {"ConfigMap", "StatefulSet"}],
                     Needs <- [s \in Specs |-> NeededFor(s)],
                     Contents <- [s \in Specs |-> Asks(s)]

-----------------------------------------------------------------------------

TypeOK ==
    /\ history \in Seq(Specs)
    /\ applied \in [{"ConfigMap", "StatefulSet"} -> 0..Len(history)]
    /\ previous \in [{"ConfigMap", "StatefulSet"} -> 0..Len(history)]
    /\ pods \in [Ordinal -> Pod \cup {Absent}]
    /\ faults \in 0..MaxFaults

Init ==
    /\ Operator!Init
    /\ pods = [p \in Ordinal |-> Absent]
    /\ faults = 0

-----------------------------------------------------------------------------
(* The user and the operator.                                              *)

UserEdit ==
    /\ Len(history) < MaxVersions
    /\ \E s \in Specs \ {Last} : history' = Append(history, s)
    /\ UNCHANGED <<applied, previous, pods, faults>>

Bring(k, v) == Operator!Bring(k, v) /\ UNCHANGED <<pods, faults>>

\* The object is what the latest version asks for.
InPlace(k) == Operator!Fits(k, applied[k], Len(history))

-----------------------------------------------------------------------------
(* The StatefulSet controller.  The builder sets no podManagementPolicy, so *)
(* it makes and replaces pods one by one.                                  *)

Wanted(p) ==
    /\ applied["StatefulSet"] > 0
    /\ p < Replicas(history[applied["StatefulSet"]])

Exists(p) == pods[p] # Absent
Running(p) == Exists(p) /\ pods[p].copied > 0

Current(p) ==
    Template(history[pods[p].template]) = Template(history[applied["StatefulSet"]])

MayCreate(p) ==
    /\ Wanted(p)
    /\ ~Exists(p)
    /\ \A q \in Ordinal : q < p => Running(q)

CreatePod(p) ==
    /\ MayCreate(p)
    /\ pods' = [pods EXCEPT ![p] = [template |-> applied["StatefulSet"],
                                    mounted |-> 0, copied |-> 0]]
    /\ UNCHANGED <<history, applied, previous, faults>>

RemovePod(p) ==
    /\ pods' = [pods EXCEPT ![p] = Absent]
    /\ UNCHANGED <<history, applied, previous, faults>>

\* The highest ordinal goes first.
MayScaleDown(p) ==
    /\ Exists(p)
    /\ ~Wanted(p)
    /\ \A q \in Ordinal : q > p => ~Exists(q)
    /\ \A q \in Ordinal : Wanted(q) => Running(q)

ScaleDown(p) == MayScaleDown(p) /\ RemovePod(p)

\* Variant of MayReplace for testing RestMeansAsAsked: the update strategy
\* leaves it to users to delete the pods.
ReplaceOnDelete(p) == FALSE

\* A rolling update, from the highest ordinal, once every pod is ready.
MayReplace(p) ==
    /\ Wanted(p)
    /\ \A q \in Ordinal : Wanted(q) <=> Exists(q)
    /\ \A q \in Ordinal : Wanted(q) => Running(q) /\ (q > p => Current(q))
    /\ ~Current(p)

ReplacePod(p) == MayReplace(p) /\ RemovePod(p)

-----------------------------------------------------------------------------
(* The kubelet and the main container.                                     *)

\* The kubelet reads the ConfigMap when it sets up the volume of a pod.
MayMount(p) == Exists(p) /\ pods[p].mounted = 0 /\ applied["ConfigMap"] > 0

Mount(p) ==
    /\ MayMount(p)
    /\ pods' = [pods EXCEPT ![p].mounted = applied["ConfigMap"]]
    /\ UNCHANGED <<history, applied, previous, faults>>

\* Variant of Refresh for testing LatestSettingsRun: files mounted one by one
\* (subPath) are never refreshed.
NeverRefresh(p) == FALSE

MayRefresh(p) == Exists(p) /\ pods[p].mounted \in 1..applied["ConfigMap"] - 1

\* It refreshes a ConfigMap that is mounted as a directory, some time later.
Refresh(p) ==
    /\ MayRefresh(p)
    /\ pods' = [pods EXCEPT ![p].mounted = applied["ConfigMap"]]
    /\ UNCHANGED <<history, applied, previous, faults>>

\* Variant of StartContainer for testing TypeOK: off by one.
StartContainerAhead(p) ==
    /\ Exists(p)
    /\ pods[p].mounted > 0
    /\ pods[p].copied = 0
    /\ pods' = [pods EXCEPT ![p].copied = pods[p].mounted - 2]
    /\ UNCHANGED <<history, applied, previous, faults>>

MayStart(p) == Exists(p) /\ pods[p].mounted > 0 /\ pods[p].copied = 0

\* cp -RL of the mounted files, and whatever follows up to Airflow.
StartContainer(p) ==
    /\ MayStart(p)
    /\ pods' = [pods EXCEPT ![p].copied = pods[p].mounted]
    /\ UNCHANGED <<history, applied, previous, faults>>

ContainerEnds(p) ==
    /\ pods' = [pods EXCEPT ![p].copied = 0]
    /\ UNCHANGED <<history, applied, previous>>

FailsToLoad(p) == Running(p) /\ ~Loads(history[pods[p].copied])

\* Airflow cannot load its settings; the container ends and is restarted.
CrashOnLoad(p) ==
    /\ FailsToLoad(p)
    /\ ContainerEnds(p)
    /\ UNCHANGED faults

\* Any other end of a container.
Crash(p) ==
    /\ faults < MaxFaults
    /\ faults' = faults + 1
    /\ Running(p)
    /\ ContainerEnds(p)

-----------------------------------------------------------------------------

Controller(p) == CreatePod(p) \/ ScaleDown(p) \/ ReplacePod(p)

Kubelet(p) == Mount(p) \/ StartContainer(p) \/ CrashOnLoad(p)

Next ==
    \/ UserEdit
    \/ \E k \in {"ConfigMap", "StatefulSet"}, v \in Versions : Bring(k, v)
    \/ \E p \in Ordinal : Controller(p) \/ Kubelet(p) \/ Refresh(p) \/ Crash(p)

Spec == Init /\ [][Next]_vars

\* The operator brings each object to what the latest version asks for
\* (Convergence of AirflowCluster), and the cluster makes progress.
Fairness ==
    /\ \A k \in {"ConfigMap", "StatefulSet"} :
          WF_vars(~InPlace(k) /\ Bring(k, Len(history)))
    /\ \A p \in Ordinal :
          WF_vars(Controller(p)) /\ WF_vars(Kubelet(p)) /\ WF_vars(Refresh(p))

FairSpec == Spec /\ Fairness

-----------------------------------------------------------------------------
(* Properties.                                                             *)

\* Version v asks for settings that some version up to n asked for.
AskedBy(n, v) ==
    \E u \in 1..n : GetLogging(history[u]) = GetLogging(history[v])

\* A pod never runs with settings from before the ones its template came with
\* were first asked for, although settings and template travel by different
\* objects and caches: the ConfigMap is written first and copied last.  Where
\* an edit takes another one back and outruns the operator's cache, the pod
\* may run, until it is restarted, with the settings that were taken back.
SettingsSinceTemplate ==
    \A p \in Ordinal :
        Running(p) => AskedBy(pods[p].copied, pods[p].template)

\* The group is as the latest version asks, with settings that load.
AsAsked ==
    \A p \in Ordinal :
        /\ Exists(p) <=> p < Replicas(Last)
        /\ Exists(p) => /\ Running(p)
                        /\ Template(history[pods[p].template]) = Template(Last)
                        /\ Loads(history[pods[p].copied])

\* Nothing is left to do for the operator, the controller and the kubelet.
AtRest ==
    /\ \A k \in {"ConfigMap", "StatefulSet"} : InPlace(k)
    /\ \A p \in Ordinal :
          /\ ~MayCreate(p) /\ ~MayScaleDown(p) /\ ~MayReplace(p)
          /\ ~MayMount(p) /\ ~MayRefresh(p) /\ ~MayStart(p)
          /\ ~FailsToLoad(p)

\* The pods only come to rest as the latest version asks: creation in order,
\* scaling down, the rolling update and the restarts, each of which waits for
\* other pods, never all wait for each other, whatever half-done rollouts of
\* older versions the pods are from.  The part of LatestSettingsRun that needs
\* no fairness.
RestMeansAsAsked == AtRest => AsAsked

\* If the latest settings load, the group ends up as the latest version asks,
\* whatever the versions before were: pods that cannot load older settings
\* copy the new ones when they are restarted, and only then does the rolling
\* update, which waits for every pod, go on.
LatestSettingsRun == <>[](Loads(Last) => AsAsked)

\* The API admits TRACE as a log level and says that it is mapped to DEBUG.
\* With any level the API admits, the group ends up as asked.
DocumentedLevelsRun == <>[]AsAsked
=============================================================================
