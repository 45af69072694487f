--------------------------- MODULE AirflowCluster ---------------------------
(***************************************************************************)
(* The reconciler of one AirflowCluster: the informer caches it reads, the *)
(* work queue that starts it, the two phases of a pass (register every     *)
(* resource, then reconcile them in order) and the objects it writes.      *)
(* Translated from internal/controller/airflowclusters_controller.go and   *)
(* cluster.go; the framework (operator-go, controller-runtime) and the API *)
(* server are modelled from how these files use them.                      *)
(*                                                                         *)
(* The custom resource is the sequence of its versions; None ends it when  *)
(* the resource has been deleted.                                          *)
(*                                                                         *)
(* The client of the reconciler is mgr.GetClient(): it reads the objects   *)
(* the resource owns from a cache that lags, and writes to the API server. *)
(* An update carries the resourceVersion of the cached copy, and only an   *)
(* object that is absent can be created, so a write takes effect when the  *)
(* copy is current.  Nobody else writes the objects: a copy is at most one *)
(* write behind, and current if it equals what the API server holds.       *)
(***************************************************************************)
EXTENDS Resources

CONSTANTS
    Specs,         \* the specifications users submit
    ClassStates,   \* the states an AuthenticationClass takes
    Absent,        \* no object
    MayDelete,     \* bound: whether users delete the custom resource
    MaxVersions,   \* bound on the versions of the custom resource, its
                   \* deletion included
    MaxFaults      \* bound on faults and on edits of what it refers to

ASSUME SpecsAssumption == Specs \subseteq AirflowClusterSpec
ASSUME ClassesAssumption == ClassStates \subseteq ClassState
ASSUME AbsentAssumption == Absent \notin Object
ASSUME BoundsAssumption ==
    MaxVersions \in Nat \ {0} /\ MaxFaults \in Nat /\ MayDelete \in BOOLEAN

VARIABLES
    history,     \* versions of the custom resource in the API server
    seen,        \* the version in the informer cache; 0: none yet
    classes,     \* the AuthenticationClass objects, as the cache shows them
    aggregator,  \* the cache shows the ConfigMap of the Vector aggregator
    objects,     \* the owned objects in the API server
    copies,      \* the owned objects in the cache
    queue,       \* a request is in the queue
    delayed,     \* a request comes when its RequeueAfter is over
    pass,        \* phase of the pass that runs, if any
    snap,        \* the version the pass works on
    todo,        \* role groups the pass has not registered yet
    plan,        \* the reconcilers it has registered
    next,        \* index in plan of the one to reconcile next
    faults,      \* faults so far
    applied,     \* history variable: the version each object was last put at
    previous,    \* history variable: the version it was put at before that
    hasty        \* history variable: the last pass began while some copy
                 \* lagged and no request was to come later

cluster == <<history, classes, aggregator>>
stored == <<objects, applied, previous>>
requests == <<queue, delayed>>
local == <<pass, snap, todo, plan, next>>
vars == <<history, seen, classes, aggregator, objects, copies, queue, delayed,
          pass, snap, todo, plan, next, faults, applied, previous, hasty>>

Versions == 1..Len(history)

Last == history[Len(history)]

Deleted == Last = None

TypeOK ==
    /\ history \in Seq(Specs \cup {None})
    /\ seen \in 0..Len(history)
    /\ classes \in [Classes -> ClassState]
    /\ aggregator \in BOOLEAN
    /\ objects \in [Key -> Object \cup {Absent}]
    /\ copies \in [Key -> Object \cup {Absent}]
    /\ queue \in BOOLEAN
    /\ delayed \in BOOLEAN
    /\ pass \in {"idle", "register", "run"}
    /\ snap \in 0..Len(history)
    /\ todo \subseteq RoleGroup
    /\ plan \in Seq(Item)
    /\ next \in Nat
    /\ faults \in 0..MaxFaults
    /\ applied \in [Key -> 0..Len(history)]
    /\ previous \in [Key -> 0..Len(history)]
    /\ hasty \in BOOLEAN

Init ==
    /\ history \in {<<s>> : s \in Specs}
    /\ seen = 0
    /\ classes \in [Classes -> ClassStates]
    /\ aggregator \in BOOLEAN
    /\ objects = [k \in Key |-> Absent]
    /\ copies = [k \in Key |-> Absent]
    /\ queue = FALSE
    /\ delayed = FALSE
    /\ pass = "idle"
    /\ snap = 0
    /\ todo = {}
    /\ plan = <<>>
    /\ next = 1
    /\ faults = 0
    /\ applied = [k \in Key |-> 0]
    /\ previous = [k \in Key |-> 0]
    /\ hasty = FALSE

-----------------------------------------------------------------------------
(* The environment: users, the informers, the other objects.               *)

\* A user changes the specification.
UserEdit ==
    /\ Len(history) < MaxVersions
    /\ ~Deleted
    /\ \E s \in Specs \ {Last} : history' = Append(history, s)
    /\ UNCHANGED <<seen, classes, aggregator, stored, copies, requests, local,
                   faults, hasty>>

\* A user deletes the custom resource.
UserDelete ==
    /\ MayDelete
    /\ Len(history) < MaxVersions
    /\ ~Deleted
    /\ history' = Append(history, None)
    /\ UNCHANGED <<seen, classes, aggregator, stored, copies, requests, local,
                   faults, hasty>>

\* Variant of Deliver for testing TypeOK: off by one.
DeliverPastEnd ==
    /\ seen < Len(history)
    /\ seen' \in seen + 1..Len(history) + 1
    /\ queue' = TRUE
    /\ UNCHANGED <<cluster, stored, copies, delayed, local, faults, hasty>>

\* The watch of For(&AirflowCluster{}) brings a later version, perhaps not
\* the next one, and queues a request.  There is no Owns and no Watches, so
\* no other object queues one.  The resync of the informer every ten hours,
\* which queues a request for nothing new, is left out: properties that say
\* what is right when nothing is queued are the harder without it.
Deliver ==
    /\ seen < Len(history)
    /\ seen' \in seen + 1..Len(history)
    /\ queue' = TRUE
    /\ UNCHANGED <<cluster, stored, copies, delayed, local, faults, hasty>>

\* The informer of the owned objects catches up with one of them.
Sync(k) ==
    /\ copies[k] # objects[k]
    /\ copies' = [copies EXCEPT ![k] = objects[k]]
    /\ UNCHANGED <<cluster, seen, stored, requests, local, faults, hasty>>

\* An AuthenticationClass is created, changed or deleted.
EditClass ==
    /\ faults < MaxFaults
    /\ faults' = faults + 1
    /\ \E c \in Classes, p \in ClassStates \cup {None} :
          classes' = [classes EXCEPT ![c] = p]
    /\ UNCHANGED <<history, seen, aggregator, stored, copies, requests, local,
                   hasty>>

\* The ConfigMap of the Vector aggregator appears or disappears.
EditAggregator ==
    /\ faults < MaxFaults
    /\ faults' = faults + 1
    /\ aggregator' = ~aggregator
    /\ UNCHANGED <<history, seen, classes, stored, copies, requests, local,
                   hasty>>

\* Objects whose owner is gone are collected.
GarbageCollect ==
    /\ Deleted
    /\ \E k \in Key :
          /\ objects[k] # Absent
          /\ objects' = [objects EXCEPT ![k] = Absent]
    /\ UNCHANGED <<cluster, seen, copies, requests, local, faults, applied,
                   previous, hasty>>

-----------------------------------------------------------------------------
(* The start and the end of a pass.                                        *)

EndPass ==
    /\ pass' = "idle"
    /\ snap' = 0
    /\ todo' = {}
    /\ plan' = <<>>
    /\ next' = 1

\* Reconcile returns an error: the request is queued again, RequeueAfter or
\* not.
Retry ==
    /\ EndPass
    /\ queue' = TRUE
    /\ UNCHANGED delayed

\* Reconcile returns a RequeueAfter.
ComeBackLater ==
    /\ EndPass
    /\ delayed' = TRUE
    /\ UNCHANGED queue

RequestComes ==
    /\ delayed
    /\ delayed' = FALSE
    /\ queue' = TRUE
    /\ UNCHANGED <<cluster, seen, stored, copies, local, hasty>>

\* RequeueAfter is over.  It outlasts the lag of the caches.
DelayOver == copies = objects /\ RequestComes /\ UNCHANGED faults

\* Unless a cache lags for longer than the delay, or the queue still held an
\* earlier delay, which it does not put off.
DelayTooShort ==
    /\ faults < MaxFaults
    /\ faults' = faults + 1
    /\ copies # objects
    /\ RequestComes

\* Variant of Restart for testing NoRollback: the LIST may be older than what
\* the previous manager had seen.
RestartFromStaleList ==
    /\ faults < MaxFaults
    /\ faults' = faults + 1
    /\ seen' \in Versions
    /\ copies' = objects
    /\ queue' = (history[seen'] # None)
    /\ delayed' = FALSE
    /\ EndPass
    /\ UNCHANGED <<cluster, stored, hasty>>

\* The manager stops at any point and starts again: the queue and the pass
\* are lost, the first LISTs refill the caches and queue what exists.
Restart ==
    /\ faults < MaxFaults
    /\ faults' = faults + 1
    /\ seen' \in {v \in Versions : v >= seen}
    /\ copies' = objects
    /\ queue' = (history[seen'] # None)
    /\ delayed' = FALSE
    /\ EndPass
    /\ UNCHANGED <<cluster, stored, hasty>>

\* A call to the API server fails and nothing is written.
ApiError ==
    /\ faults < MaxFaults
    /\ faults' = faults + 1
    /\ pass # "idle"
    /\ Retry
    /\ UNCHANGED <<cluster, seen, stored, copies, hasty>>

Begin(v) ==
    /\ pass' = "register"
    /\ snap' = v
    /\ todo' = RoleGroupsOf(history[v])
    /\ plan' = <<>>
    /\ next' = 1
    /\ hasty' = (copies # objects /\ ~delayed)

\* Variant of StartReconcile for testing DeletionCleansUp: NotFound is ignored.
StartDespiteNotFound ==
    /\ pass = "idle"
    /\ queue
    /\ queue' = FALSE
    /\ Begin(IF history[seen] = None THEN seen - 1 ELSE seen)
    /\ UNCHANGED <<cluster, seen, stored, copies, delayed, faults>>

\* Reconcile: read the custom resource from the cache; a NotFound ends the
\* pass without a requeue.
StartReconcile ==
    /\ pass = "idle"
    /\ queue
    /\ queue' = FALSE
    /\ IF history[seen] = None THEN UNCHANGED <<local, hasty>> ELSE Begin(seen)
    /\ UNCHANGED <<cluster, seen, stored, copies, delayed, faults>>

\* Variant of Instance for testing NoMixedVersions: the reconcilers read the
\* resource again when they run.
LiveInstance ==
    IF /\ pass = "run"
       /\ history[seen] # None
       /\ history[seen].clusterConfig # None
       /\ RoleGroupsOf(history[snap]) \subseteq RoleGroupsOf(history[seen])
    THEN history[seen] ELSE history[snap]

\* The instance the pass has read; every reconciler holds its parts.
Instance == history[snap]

-----------------------------------------------------------------------------
(* First phase: ClusterReconciler.RegisterResource.                        *)

\* Variant of Turn for testing RolloutOrder: roles register side by side.
TurnOfAny(r) == \A q \in Role : Rank[q] < Rank[r] => Instance.roles[q] # None

\* It is the turn of role r: the roles before it are all registered.
Turn(r) ==
    \A q \in Role : Rank[q] < Rank[r] =>
        Instance.roles[q] # None /\ \A rg \in todo : rg[1] # q

\* RegisterResourceWithRoleGroup dereferences ClusterConfig, then makes an
\* Authentication when any is configured.
GroupRegisters ==
    /\ Instance.clusterConfig # None
    /\ AuthenticationAccepted(Instance.clusterConfig.authentication, classes)

GroupAuth ==
    LET auths == Instance.clusterConfig.authentication
    IN  IF auths = <<>> THEN None ELSE NewAuthenticators(auths, classes)

\* Variant of RegisterGroup for testing Convergence: groups in a fixed order.
RegisterGroupInFixedOrder(r, g) ==
    /\ pass = "register"
    /\ <<r, g>> \in todo
    /\ g = CHOOSE h \in Groups : <<r, h>> \in todo
    /\ Turn(r)
    /\ GroupRegisters
    /\ todo' = todo \ {<<r, g>>}
    /\ plan' = plan \o Reconcilers(r, g, GroupAuth)
    /\ UNCHANGED <<cluster, seen, stored, copies, requests, pass, snap, next,
                   faults, hasty>>

\* RegisterResources ranges over a map of role groups, in any order.
RegisterGroup(r, g) ==
    /\ pass = "register"
    /\ <<r, g>> \in todo
    /\ Turn(r)
    /\ GroupRegisters
    /\ todo' = todo \ {<<r, g>>}
    /\ plan' = plan \o Reconcilers(r, g, GroupAuth)
    /\ UNCHANGED <<cluster, seen, stored, copies, requests, pass, snap, next,
                   faults, hasty>>

\* An error, or the panic on an absent role or cluster configuration (which
\* controller-runtime recovers as an error): nothing has been written.
RegistrationFails ==
    /\ pass = "register"
    /\ \E r \in Role :
          /\ Turn(r)
          /\ \/ Instance.roles[r] = None
             \/ ~GroupRegisters /\ \E rg \in todo : rg[1] = r
    /\ Retry
    /\ UNCHANGED <<cluster, seen, stored, copies, faults, hasty>>

\* Variant of AllRegistered for testing OnlyCompleteSpecsApplied: run as soon
\* as something is registered.
SomeRoleRegistered == plan # <<>>

AllRegistered == todo = {} /\ \A r \in Role : Instance.roles[r] # None

RegistrationDone ==
    /\ pass = "register"
    /\ AllRegistered
    /\ pass' = "run"
    /\ UNCHANGED <<cluster, seen, stored, copies, requests, snap, todo, plan,
                   next, faults, hasty>>

-----------------------------------------------------------------------------
(* Second phase: BaseCluster.Run walks the reconcilers in order.           *)

Walking == pass = "run" /\ next <= Len(plan)

\* The object of the reconciler whose turn it is, and what it is to be.
At == ItemKey(plan[next])
Wanted == Build(plan[next], Instance)

\* Build returns an error or panics.
BuildFails ==
    /\ Walking
    /\ ~Builds(plan[next], Instance, aggregator)
    /\ Retry
    /\ UNCHANGED <<cluster, seen, stored, copies, faults, hasty>>

\* Variant of KeepResource for testing ImplementsRollout: what exists is kept.
KeepWhateverExists ==
    /\ Walking
    /\ Builds(plan[next], Instance, aggregator)
    /\ copies[At] # Absent
    /\ next' = next + 1
    /\ UNCHANGED <<cluster, seen, stored, copies, requests, pass, snap, todo,
                   plan, faults, hasty>>

\* The copy is as wanted, whatever the object is: go on with the next
\* reconciler.
KeepResource ==
    /\ Walking
    /\ Builds(plan[next], Instance, aggregator)
    /\ copies[At] = Wanted
    /\ next' = next + 1
    /\ UNCHANGED <<cluster, seen, stored, copies, requests, pass, snap, todo,
                   plan, faults, hasty>>

Differs ==
    /\ Walking
    /\ Builds(plan[next], Instance, aggregator)
    /\ copies[At] # Wanted

\* The API server creates or updates the object.
Put ==
    /\ Differs
    /\ copies[At] = objects[At]
    /\ objects' = [objects EXCEPT ![At] = Wanted]
    /\ applied' = [applied EXCEPT ![At] = snap]
    /\ previous' = [previous EXCEPT ![At] = applied[At]]
    /\ UNCHANGED <<cluster, seen, copies, hasty>>

\* Variant of WriteResource for testing RestMeansDone and WebserversNeverRest:
\* the pass that has written does not come back.
WriteAndForget == Put /\ EndPass /\ UNCHANGED <<requests, faults>>

\* The object is created or updated; the pass ends there and comes back
\* after a delay.
WriteResource == Put /\ ComeBackLater /\ UNCHANGED faults

\* The object is written but the answer is lost: an error, without the delay.
WriteAnswerLost ==
    /\ faults < MaxFaults
    /\ faults' = faults + 1
    /\ Put
    /\ Retry

\* The copy is not what the API server holds: it answers with a conflict, or
\* that the object exists already, or that there is none.
Conflict ==
    /\ Differs
    /\ copies[At] # objects[At]
    /\ Retry
    /\ UNCHANGED <<cluster, seen, stored, copies, faults, hasty>>

\* Variant of WalkDone for testing CompletedMeansInPlace: off by one.
WalkDoneEarly == pass = "run" /\ next >= Len(plan)

WalkDone == pass = "run" /\ next > Len(plan)

\* Every reconciler found its copy as wanted and the pods are ready.
Finish ==
    /\ WalkDone
    /\ EndPass
    /\ UNCHANGED <<cluster, seen, stored, copies, requests, faults, hasty>>

\* Some pod is not ready yet: come back later.
FinishNotReady ==
    /\ WalkDone
    /\ ComeBackLater
    /\ UNCHANGED <<cluster, seen, stored, copies, faults, hasty>>

-----------------------------------------------------------------------------

Environment ==
    UserEdit \/ UserDelete \/ EditClass \/ EditAggregator

PassStep ==
    \/ \E r \in Role, g \in Groups : RegisterGroup(r, g)
    \/ RegistrationFails
    \/ RegistrationDone
    \/ BuildFails
    \/ KeepResource
    \/ WriteResource
    \/ Conflict
    \/ Finish
    \/ FinishNotReady

Fault == Restart \/ ApiError \/ WriteAnswerLost \/ DelayTooShort

Next ==
    \/ Environment
    \/ Deliver
    \/ \E k \in Key : Sync(k)
    \/ DelayOver
    \/ GarbageCollect
    \/ Fault
    \/ StartReconcile
    \/ PassStep

Spec == Init /\ [][Next]_vars

\* Group g is the first of its role that the map iteration yields.
RegisterFirst(r, g) ==
    /\ \A i \in DOMAIN plan : plan[i].role # r
    /\ RegisterGroup(r, g)

\* The informers, the delays of the queue, the worker and the garbage
\* collector make progress, and the random order of map iteration starts with
\* each group again and again.
Fairness ==
    /\ WF_vars(Deliver)
    /\ WF_vars(\E k \in Key : Sync(k))
    /\ WF_vars(DelayOver)
    /\ WF_vars(StartReconcile)
    /\ WF_vars(PassStep)
    /\ WF_vars(GarbageCollect)
    /\ \A r \in Role, g \in Groups : SF_vars(RegisterFirst(r, g))

FairSpec == Spec /\ Fairness

-----------------------------------------------------------------------------
(* Safety.                                                                 *)

\* What a version asks of an object by itself: of a ConfigMap without what
\* the AuthenticationClasses add, of a Service nothing, since all versions
\* ask for the same ones.
Asks(s, k) ==
    CASE k.kind = "ConfigMap" -> [logging |-> GroupConfig(s, k.role, k.group),
                                  vector |-> s.clusterConfig.vector]
      [] k.kind = "StatefulSet" -> BuildStatefulSet(s, k.role, k.group)
      [] OTHER -> None

\* The same of what object x shows under key k.
Shows(k, x) ==
    CASE k.kind = "ConfigMap" -> [logging |-> x.logging, vector |-> x.vector]
      [] k.kind = "StatefulSet" -> x
      [] OTHER -> None

\* In the API server the object is what version v asks for.
InPlace(k, v) ==
    objects[k] # Absent /\ Shows(k, objects[k]) = Asks(history[v], k)

\* An object put at version u is what version v asks for.
Fits(k, u, v) == u > 0 /\ Asks(history[u], k) = Asks(history[v], k)

\* The object was last put as version v asks, or was so until that write.
Met(k, v) == Fits(k, applied[k], v) \/ Fits(k, previous[k], v)

PutAnew(k) == objects'[k] \notin {objects[k], Absent}

HasWebservers(s) == \E g \in Groups : <<"webservers", g>> \in RoleGroupsOf(s)

\* A version that lacks a role, or that declares role groups without a
\* cluster configuration, is never applied, not even in part: RegisterResource
\* returns before any object is touched.
OnlyCompleteSpecsApplied ==
    \A k \in Key : applied[k] > 0 =>
        LET s == history[applied[k]]
        IN  /\ s # None
            /\ s.clusterConfig # None
            /\ \A r \in Role : s.roles[r] # None

\* A StatefulSet is never put at a version of the resource unless its
\* ConfigMap is what that version asks for, or was until its last write: the
\* pods mount the ConfigMap by name and copy it when they start.  The last
\* case is that of an edit which takes another one back and outruns the cache,
\* so that the pass it starts keeps a copy from before the last write; no copy
\* is ever older, or from before the first write, whatever restarts, lost
\* answers and errors do.
ConfigBeforeWorkload ==
    [][\A r \in Role, g \in Groups :
          LET k == KeyOf("StatefulSet", r, g)
          IN  PutAnew(k) => Met(KeyOf("ConfigMap", r, g), applied'[k])]_vars

\* No object of a role is put at a version unless every object of every group
\* of the roles registered before it is, or was until its last write, what
\* that version asks for: workers first, then schedulers, then webservers.
RolloutOrder ==
    [][\A k \in Key, q \in Role, g \in Groups :
          /\ PutAnew(k)
          /\ Rank[q] < Rank[k.role]
          /\ <<q, g>> \in RoleGroupsOf(history[applied'[k]])
          => \A kind \in ObjectKind : Met(KeyOf(kind, q, g), applied'[k])]_vars

\* While the resource exists, what an object takes from the specification it
\* takes from one version, the one it was last put at: a pass never mixes the
\* version it started with and one that reached the cache meanwhile.
NoMixedVersions ==
    ~Deleted => \A k \in Key : applied[k] > 0 => InPlace(k, applied[k])

\* A pass that ends with no request to come has found every object its version
\* declares in place, and no webserver group: the two services of such a group
\* have one name and different ports, so that each pass overwrites what the
\* pass before it wrote.  It has compared copies, perhaps in a window in which
\* an edit had outrun the cache, but then the RequeueAfter of the last write is
\* still to come.  Only a pass that begins while a copy lags and nothing is to
\* come, because the answer of that write was lost or its delay was too short,
\* may end in the wrong belief.
CompletedMeansInPlace ==
    [][/\ pass = "run"
       /\ pass' = "idle"
       /\ ~queue'
       /\ ~delayed'
       /\ ~Deleted
       /\ ~hasty
       => /\ \A k \in DesiredKeys(Instance) : InPlace(k, snap)
          /\ ~HasWebservers(Instance)]_vars

AllInPlace == \A k \in DesiredKeys(Last) : InPlace(k, Len(history))

\* Nothing is left that could start a pass by itself.
AtRest == pass = "idle" /\ ~queue /\ ~delayed /\ seen = Len(history)

\* The manager comes to rest only when every declared object is what the
\* latest version asks for, the exception of CompletedMeansInPlace apart: no
\* edit, write, error, conflict, restart or lag of a cache in whatever order
\* makes it forget one.  This is the part of Convergence that needs no
\* fairness.
RestMeansDone == AtRest /\ ~Deleted /\ ~hasty => AllInPlace

\* With a webserver group the manager never comes to rest, with the same
\* exception: there always is a pass, a request or a version to come.  What
\* ClassEditsReachConfigMaps rests on.
WebserversNeverRest == ~Deleted /\ ~hasty /\ HasWebservers(Last) => ~AtRest

\* The deletion is known and no pass that read the resource earlier still runs.
Drained == Deleted /\ seen = Len(history) /\ pass = "idle"

\* Once the manager has seen the deletion and the pass of that time is over,
\* no object is written again, whatever is still queued and however often the
\* manager restarts: objects only go.  The part of DeletionCleansUp that needs
\* no fairness.
NoResurrection ==
    [][Drained => /\ Drained'
                  /\ \A k \in Key : objects'[k] \in {objects[k], Absent}]_vars

\* No object goes back to an older version, whatever restarts, errors and
\* lags of the caches do.
NoRollback == [][\A k \in Key : applied'[k] >= applied[k]]_applied

-----------------------------------------------------------------------------
(* Liveness.                                                               *)

\* The latest version can be applied with the objects it refers to now.
Reconcilable(s) ==
    /\ s.clusterConfig # None
    /\ \A r \in Role : s.roles[r] # None
    /\ s.clusterConfig.credentials
    /\ s.clusterConfig.vector => aggregator
    /\ LET auths == s.clusterConfig.authentication
       IN  /\ AuthenticationAccepted(auths, classes)
           /\ auths # <<>> => Rendered(NewAuthenticators(auths, classes))

\* When edits and faults cease, every declared object becomes what the latest
\* version asks for if that version can be applied: level-triggered
\* reconciliation loses no event, in spite of a pass ending at each write and
\* of copies that lag.
Convergence == <>[](~Deleted /\ ~hasty /\ Reconcilable(Last) => AllInPlace)

\* Nothing watches the AuthenticationClasses.  With a webserver group a change
\* to one still reaches every ConfigMap in the end, if what they are now can be
\* rendered and no lost answer has ended the loop: the two services of the
\* group keep the passes going, and each pass reads the classes again.
ClassEditsReachConfigMaps ==
    <>[](/\ ~Deleted
         /\ ~hasty
         /\ Reconcilable(Last)
         /\ HasWebservers(Last)
         => LET auths == Last.clusterConfig.authentication
                auth == IF auths = <<>> THEN None
                                        ELSE NewAuthenticators(auths, classes)
            IN  \A rg \in RoleGroupsOf(Last) :
                   objects[KeyOf("ConfigMap", rg[1], rg[2])] =
                       BuildConfigMap(Last, rg[1], rg[2], auth))

\* After a deletion nothing is left, although a pass that had already read
\* the resource goes on and creates objects again.
DeletionCleansUp == <>[](Deleted => \A k \in Key : objects[k] = Absent)

\* The API marks roles as optional.  A resource that leaves roles out and is
\* otherwise sound gets the role groups it declares.
OptionalRolesReconcile ==
    <>[](/\ ~Deleted
         /\ Last.clusterConfig # None
         /\ Last.clusterConfig.credentials
         /\ Last.clusterConfig.authentication = <<>>
         /\ ~Last.clusterConfig.vector
         => AllInPlace)
=============================================================================
