------------------------------ MODULE Managers ------------------------------
(***************************************************************************)
(* The processes of cmd/main.go around one AirflowCluster: a rollout of    *)
(* the operator starts the next manager and ends the one before it, with   *)
(* or without leader election.  Each manager reads the custom resource and *)
(* the objects it owns from informer caches of its own, which lag, and     *)
(* stamps images with the version it was built with.  Others may change or *)
(* delete the objects, and the custom resource may be deleted and created  *)
(* again under its name.                                                   *)
(*                                                                         *)
(* Abstracted.  Specifications are sound, without authentication, and each *)
(* role has at most one group, so that a pass is a walk over a fixed plan  *)
(* (module AirflowCluster has registration, its failures and map order).   *)
(*                                                                         *)
(* An update carries the resourceVersion of the cached object, so it takes *)
(* effect only if the cached copy is the current one; "fresh" says which   *)
(* copies are.                                                             *)
(***************************************************************************)
EXTENDS Resources

CONSTANTS
    Specs,        \* the specifications users submit
    Tags,         \* version tags of products and of operator builds
    LastManager,  \* managers are 1..LastManager, each replaced by the next
    BuildVersion, \* the tag each manager was built with
    LeaderElect,  \* the flag --leader-elect
    Absent,       \* no object
    Foreign,      \* what somebody else makes of an object
    MayDelete,    \* bound: whether users delete the custom resource
    MaxVersions,  \* bound on the versions of the custom resource
    MaxFaults     \* bound on crashes, lost answers and foreign changes

Manager == 1..LastManager

\* None stands for the empty string in the fields of an image.
ImageSpec == [product : Tags \cup {None}, kubedoop : Tags \cup {None}]

ASSUME ManagersAssumption ==
    /\ LastManager \in Nat \ {0}
    /\ BuildVersion \in [Manager -> Tags]
    /\ LeaderElect \in BOOLEAN
ASSUME ImagesAssumption == Images = ImageSpec /\ "2.10.5" \in Tags
ASSUME SoundAssumption ==
    /\ Specs \subseteq AirflowClusterSpec
    /\ \A s \in Specs :
          /\ s.clusterConfig # None
          /\ s.clusterConfig.credentials
          /\ ~s.clusterConfig.vector
          /\ s.clusterConfig.authentication = <<>>
          /\ \A r \in Role :
                /\ s.roles[r] # None
                /\ \A g, h \in Groups :
                      <<r, g>> \in RoleGroupsOf(s) /\ <<r, h>> \in RoleGroupsOf(s)
                      => g = h
ASSUME SentinelsAssumption ==
    Foreign \notin Object /\ Absent \notin [owner : SUBSET Nat, value : Object \cup {Foreign}]
ASSUME BoundsAssumption ==
    MaxVersions \in Nat \ {0} /\ MaxFaults \in Nat /\ MayDelete \in BOOLEAN

VARIABLES
    history,    \* versions of the custom resource; None: deleted
    objects,    \* the owned objects in the API server
    status,     \* of each manager process
    seen,       \* the version in each manager's cache
    cached,     \* each manager's copies of the owned objects
    fresh,      \* the keys whose copy is the current object
    queue,      \* a request is in the manager's queue
    delayed,    \* a request comes when its RequeueAfter is over
    snap,       \* the version the manager's pass works on; 0: no pass
    next,       \* how far that pass has walked
    faults,     \* faults so far
    disturbed,  \* history variable: what happened that queues no pass
    applied     \* history variable: the version each object was last put at

perManager == <<status, seen, cached, fresh, queue, delayed, snap, next>>
vars == <<history, objects, perManager, faults, disturbed, applied>>

Versions == 1..Len(history)
Last == history[Len(history)]

\* The resources created under the name so far: a deletion ends one, and the
\* next version is of another, with another uid.
Incarnation(v) == {u \in 1..v - 1 : history[u] = None}

-----------------------------------------------------------------------------
(* What a manager builds.                                                  *)

DefaultProductVersion == "2.10.5"

\* ClusterReconciler.GetImage for the manager m.  The API server fills in
\* kubedoopVersion with 0.0.0-dev when it is missing, so only the empty
\* string makes the image follow the build of the operator.
GetImage(image, m) ==
    [product  |-> IF image.product = None THEN DefaultProductVersion
                                          ELSE image.product,
     kubedoop |-> IF image.kubedoop = None THEN BuildVersion[m]
                                           ELSE image.kubedoop]

Plan(s) ==
    LET of(r) == IF \E g \in Groups : <<r, g>> \in RoleGroupsOf(s)
                 THEN Reconcilers(r, CHOOSE g \in Groups :
                                        <<r, g>> \in RoleGroupsOf(s), None)
                 ELSE <<>>
    IN  of("celeryexecutors") \o of("schedulers") \o of("webservers")

Value(item, s, m) ==
    IF item.kind = "statefulset"
    THEN [Build(item, s) EXCEPT !.image = GetImage(s.image, m)]
    ELSE Build(item, s)

\* The object that manager m wants for a version, owned by its incarnation.
Desired(item, v, m) ==
    [owner |-> Incarnation(v), value |-> Value(item, history[v], m)]

Disturbance == {"drift", "overlap", "lost"}

NoObjects == [k \in Key |-> Absent]

ManagedObject == [owner : SUBSET Nat, value : Object \cup {Foreign}]

-----------------------------------------------------------------------------

TypeOK ==
    /\ history \in Seq(Specs \cup {None})
    /\ objects \in [Key -> ManagedObject \cup {Absent}]
    /\ status \in [Manager -> {"absent", "starting", "active", "gone"}]
    /\ seen \in [Manager -> 0..Len(history)]
    /\ cached \in [Manager -> [Key -> ManagedObject \cup {Absent}]]
    /\ fresh \in [Manager -> SUBSET Key]
    /\ queue \in [Manager -> BOOLEAN]
    /\ delayed \in [Manager -> BOOLEAN]
    /\ snap \in [Manager -> 0..Len(history)]
    /\ next \in [Manager -> Nat \ {0}]
    /\ faults \in 0..MaxFaults
    /\ disturbed \subseteq Disturbance
    /\ applied \in [Key -> 0..Len(history)]

Init ==
    /\ history \in {<<s>> : s \in Specs}
    /\ objects = NoObjects
    /\ status = [m \in Manager |-> IF m = 1 THEN "starting" ELSE "absent"]
    /\ seen = [m \in Manager |-> 0]
    /\ cached = [m \in Manager |-> NoObjects]
    /\ fresh = [m \in Manager |-> {}]
    /\ queue = [m \in Manager |-> FALSE]
    /\ delayed = [m \in Manager |-> FALSE]
    /\ snap = [m \in Manager |-> 0]
    /\ next = [m \in Manager |-> 1]
    /\ faults = 0
    /\ disturbed = {}
    /\ applied = [k \in Key |-> 0]

-----------------------------------------------------------------------------
(* The API server and its other users.                                     *)

Stale == \E m \in Manager : status[m] = "active" /\ fresh[m] # Key

\* An edit, a deletion, or a new resource under the name of a deleted one.
\* The pass it leads to makes up for a disturbance that the caches show.
UserEdit ==
    /\ Len(history) < MaxVersions
    /\ \E s \in (Specs \cup {None}) \ {Last} :
          (s = None => MayDelete) /\ history' = Append(history, s)
    /\ disturbed' = IF Stale THEN disturbed ELSE {}
    /\ UNCHANGED <<objects, perManager, faults, applied>>

\* An object becomes x; no cache has seen it.
Put(k, x) ==
    /\ objects' = [objects EXCEPT ![k] = x]
    /\ fresh' = [m \in Manager |-> fresh[m] \ {k}]

\* An object whose owner is gone is collected.
GarbageCollect ==
    /\ \E k \in Key :
          /\ objects[k] # Absent
          /\ Last = None \/ objects[k].owner # Incarnation(Len(history))
          /\ Put(k, Absent)
    /\ UNCHANGED <<history, status, seen, cached, queue, delayed, snap,
                   next, faults, disturbed, applied>>

\* Somebody else changes or deletes an object.  Nothing is queued: there is
\* no watch on owned objects.
Drift ==
    /\ faults < MaxFaults
    /\ faults' = faults + 1
    /\ \E k \in Key :
          /\ objects[k] # Absent
          /\ \E x \in {Absent, [objects[k] EXCEPT !.value = Foreign]} : Put(k, x)
    /\ disturbed' = disturbed \cup {"drift"}
    /\ UNCHANGED <<history, status, seen, cached, queue, delayed, snap,
                   next, applied>>

-----------------------------------------------------------------------------
(* The life of a manager.                                                  *)

\* A rollout of the operator starts the next process.
Launch(m) ==
    /\ m > 1
    /\ status[m] = "absent"
    /\ status[m - 1] # "absent"
    /\ status' = [status EXCEPT ![m] = "starting"]
    /\ UNCHANGED <<history, objects, seen, cached, fresh, queue, delayed,
                   snap, next, faults, disturbed, applied>>

\* Variant of StartController for testing LatestPrevails: the resources that
\* exist are not queued.
StartControllerIdle(m, v) ==
    /\ status[m] = "starting"
    /\ status' = [status EXCEPT ![m] = "active"]
    /\ seen' = [seen EXCEPT ![m] = v]
    /\ cached' = [cached EXCEPT ![m] = objects]
    /\ fresh' = [fresh EXCEPT ![m] = Key]
    /\ UNCHANGED <<history, objects, queue, delayed, snap, next, faults,
                   disturbed, applied>>

\* The controller of m starts with a cache that holds version v and the
\* objects as they are, and with a request for the resource if it exists.
StartController(m, v) ==
    /\ status[m] = "starting"
    /\ status' = [status EXCEPT ![m] = "active"]
    /\ seen' = [seen EXCEPT ![m] = v]
    /\ cached' = [cached EXCEPT ![m] = objects]
    /\ fresh' = [fresh EXCEPT ![m] = Key]
    /\ queue' = [queue EXCEPT ![m] = history[v] # None]
    /\ UNCHANGED <<history, objects, delayed, snap, next, faults, disturbed,
                   applied>>

Newest(v) == \A m \in Manager : seen[m] <= v

Elected(m) == LeaderElect => \A n \in Manager \ {m} : status[n] # "active"

\* Variant of Activate for testing NoManagerRollsBack: the lease is released
\* at once, and the cache of the next leader may lag behind the last one's.
ActivateBeforeSync(m) == Elected(m) /\ \E v \in Versions : StartController(m, v)

\* mgr.Start: with --leader-elect the controller waits for the lease.  The
\* lease is not released when a manager ends (LeaderElectionReleaseOnCancel
\* stays off), so it runs out first, and by then the cache has caught up with
\* what the last leader had seen.
Activate(m) ==
    /\ Elected(m)
    /\ \E v \in Versions : Newest(v) /\ StartController(m, v)

\* What a process knows is lost.
Forget(m) ==
    /\ cached' = [cached EXCEPT ![m] = NoObjects]
    /\ fresh' = [fresh EXCEPT ![m] = {}]
    /\ queue' = [queue EXCEPT ![m] = FALSE]
    /\ delayed' = [delayed EXCEPT ![m] = FALSE]
    /\ snap' = [snap EXCEPT ![m] = 0]
    /\ next' = [next EXCEPT ![m] = 1]

\* The process ends, perhaps in the middle of a pass, and starts again.
Crash(m) ==
    /\ faults < MaxFaults
    /\ faults' = faults + 1
    /\ status[m] = "active"
    /\ status' = [status EXCEPT ![m] = "starting"]
    /\ Forget(m)
    /\ UNCHANGED <<history, objects, seen, disturbed, applied>>

\* The rollout ends m once the next process answers readyz, which does not
\* depend on the lease.  Without an election both may have been writing.
Retire(m) ==
    /\ status[m] \in {"starting", "active"}
    /\ m < LastManager
    /\ status[m + 1] \in {"starting", "active"}
    /\ status' = [status EXCEPT ![m] = "gone"]
    /\ Forget(m)
    /\ disturbed' = IF LeaderElect THEN disturbed ELSE disturbed \cup {"overlap"}
    /\ UNCHANGED <<history, objects, seen, faults, applied>>

\* Variant of Deliver for testing TypeOK: off by one.
DeliverPastEnd(m) ==
    /\ status[m] = "active"
    /\ seen[m] < Len(history)
    /\ \E v \in seen[m] + 1..Len(history) + 1 : seen' = [seen EXCEPT ![m] = v]
    /\ queue' = [queue EXCEPT ![m] = TRUE]
    /\ UNCHANGED <<history, objects, status, cached, fresh, delayed, snap,
                   next, faults, disturbed, applied>>

\* The watch of For(&AirflowCluster{}) brings a later version.
Deliver(m) ==
    /\ status[m] = "active"
    /\ seen[m] < Len(history)
    /\ \E v \in seen[m] + 1..Len(history) : seen' = [seen EXCEPT ![m] = v]
    /\ queue' = [queue EXCEPT ![m] = TRUE]
    /\ UNCHANGED <<history, objects, status, cached, fresh, delayed, snap,
                   next, faults, disturbed, applied>>

\* The informer of the objects brings the current one.  Nothing is queued.
Sync(m, k) ==
    /\ status[m] = "active"
    /\ k \notin fresh[m]
    /\ cached' = [cached EXCEPT ![m][k] = objects[k]]
    /\ fresh' = [fresh EXCEPT ![m] = @ \cup {k}]
    /\ UNCHANGED <<history, objects, status, seen, queue, delayed, snap, next,
                   faults, disturbed, applied>>

\* RequeueAfter is over.  It is longer than the cache takes to show a manager
\* what has been written, by itself and by others.
DelayOver(m) ==
    /\ delayed[m]
    /\ fresh[m] = Key
    /\ delayed' = [delayed EXCEPT ![m] = FALSE]
    /\ queue' = [queue EXCEPT ![m] = TRUE]
    /\ UNCHANGED <<history, objects, status, seen, cached, fresh, snap,
                   next, faults, disturbed, applied>>

-----------------------------------------------------------------------------
(* A pass of manager m.                                                    *)

Running(m) == snap[m] # 0

StartReconcile(m) ==
    /\ ~Running(m)
    /\ queue[m]
    /\ queue' = [queue EXCEPT ![m] = FALSE]
    /\ snap' = [snap EXCEPT ![m] = IF history[seen[m]] = None THEN 0 ELSE seen[m]]
    /\ UNCHANGED <<history, objects, status, seen, cached, fresh, delayed,
                   next, faults, disturbed, applied>>

Walking(m) == Running(m) /\ next[m] <= Len(Plan(history[snap[m]]))

ItemOf(m) == Plan(history[snap[m]])[next[m]]
KeyAt(m) == ItemKey(ItemOf(m))
Wanted(m) == Desired(ItemOf(m), snap[m], m)

EndPass(m) ==
    /\ snap' = [snap EXCEPT ![m] = 0]
    /\ next' = [next EXCEPT ![m] = 1]

\* The cached object is as desired, whatever has become of the object.
Keep(m) ==
    /\ Walking(m)
    /\ cached[m][KeyAt(m)] = Wanted(m)
    /\ next' = [next EXCEPT ![m] = @ + 1]
    /\ UNCHANGED <<history, objects, status, seen, cached, fresh, queue,
                   delayed, snap, faults, disturbed, applied>>

\* A create or an update reaches the API server.
Store(m) ==
    /\ Walking(m)
    /\ cached[m][KeyAt(m)] # Wanted(m)
    /\ KeyAt(m) \in fresh[m]
    /\ Put(KeyAt(m), Wanted(m))
    /\ applied' = [applied EXCEPT ![KeyAt(m)] = snap[m]]
    /\ EndPass(m)
    /\ UNCHANGED <<history, status, seen, cached>>

Write(m) ==
    /\ Store(m)
    /\ delayed' = [delayed EXCEPT ![m] = TRUE]
    /\ UNCHANGED <<queue, faults, disturbed>>

\* The same, but the answer is lost: the pass is retried without the delay.
WriteAnswerLost(m) ==
    /\ faults < MaxFaults
    /\ faults' = faults + 1
    /\ Store(m)
    /\ queue' = [queue EXCEPT ![m] = TRUE]
    /\ disturbed' = disturbed \cup {"lost"}
    /\ UNCHANGED delayed

\* Variant of Conflict for testing LatestPrevails: the error is swallowed.
ConflictSwallowed(m) ==
    /\ Walking(m)
    /\ cached[m][KeyAt(m)] # Wanted(m)
    /\ KeyAt(m) \notin fresh[m]
    /\ EndPass(m)
    /\ UNCHANGED <<history, objects, status, seen, cached, fresh, queue,
                   delayed, faults, disturbed, applied>>

\* Conflict, NotFound or AlreadyExists: the cached copy was stale.
Conflict(m) ==
    /\ Walking(m)
    /\ cached[m][KeyAt(m)] # Wanted(m)
    /\ KeyAt(m) \notin fresh[m]
    /\ EndPass(m)
    /\ queue' = [queue EXCEPT ![m] = TRUE]
    /\ UNCHANGED <<history, objects, status, seen, cached, fresh, delayed,
                   faults, disturbed, applied>>

\* The walk is over; pods that are not ready yet ask for a later pass.
Finish(m) ==
    /\ Running(m)
    /\ ~Walking(m)
    /\ EndPass(m)
    /\ \E notReady \in BOOLEAN :
          delayed' = [delayed EXCEPT ![m] = @ \/ notReady]
    /\ UNCHANGED <<history, objects, status, seen, cached, fresh, queue,
                   faults, disturbed, applied>>

PassStep(m) == StartReconcile(m) \/ Keep(m) \/ Write(m) \/ Conflict(m) \/ Finish(m)

-----------------------------------------------------------------------------

Lifecycle(m) == Launch(m) \/ Activate(m) \/ Crash(m) \/ Retire(m)

Next ==
    \/ UserEdit
    \/ GarbageCollect
    \/ Drift
    \/ \E m \in Manager :
          \/ Lifecycle(m)
          \/ Deliver(m)
          \/ \E k \in Key : Sync(m, k)
          \/ DelayOver(m)
          \/ PassStep(m)
          \/ WriteAnswerLost(m)

Spec == Init /\ [][Next]_vars

\* Users, rollouts, crashes and other writers are not obliged to do anything.
Fairness ==
    /\ WF_vars(GarbageCollect)
    /\ \A m \in Manager :
          /\ WF_vars(Activate(m))
          /\ WF_vars(Retire(m))
          /\ WF_vars(Deliver(m))
          /\ WF_vars(DelayOver(m))
          /\ WF_vars(PassStep(m))
          /\ WF_vars(\E k \in Key : Sync(m, k))

FairSpec == Spec /\ Fairness

-----------------------------------------------------------------------------
(* Properties.                                                             *)

\* With leader election no object goes back to an older version of the
\* resource, although managers die and take over in the middle of a pass and
\* each reads caches of its own.
NoManagerRollsBack == [][\A k \in Key : applied'[k] >= applied[k]]_applied

\* Some manager knows that the resource is deleted, and no pass is left from
\* before.
DeletionKnown ==
    /\ Last = None
    /\ \E m \in Manager : seen[m] = Len(history)
    /\ \A m \in Manager : ~Running(m)

\* Once that is so no object appears again until the resource does, although
\* requests are still queued and the next leaders have not seen it themselves.
NoManagerResurrects ==
    [][DeletionKnown /\ history' = history
         => /\ DeletionKnown'
            /\ \A k \in Key : objects[k] = Absent => objects'[k] = Absent]_vars

\* The manager that remains when the rollout is over.
Survivor == CHOOSE m \in Manager :
    status[m] # "absent" /\ \A n \in Manager : n > m => status[n] = "absent"

\* The objects are what the survivor makes of the last version: nothing after
\* a deletion, and nothing left by an earlier resource of the same name.
UpToDate ==
    IF Last = None THEN objects = NoObjects
    ELSE LET plan == Plan(Last)
         IN  \A i \in DOMAIN plan :
                objects[ItemKey(plan[i])] \in
                    {Desired(item, Len(history), Survivor) :
                        item \in {plan[j] : j \in DOMAIN plan}}

\* A cluster with webservers is never left alone: its two services of one
\* name keep the passes going.  A lost answer can end that, since the retry
\* comes at once and the cache may still show the service it wants; so can
\* another manager that writes that service.
Restless ==
    /\ Last # None
    /\ \E g \in Groups : <<"webservers", g>> \in RoleGroupsOf(Last)
    /\ disturbed \subseteq {"drift"}

\* No other process writes: with leader election the others wait for the lease.
Alone(m) ==
    /\ status[m] = "active"
    /\ LeaderElect \/ \A n \in Manager \ {m} : status[n] \in {"absent", "gone"}

\* Nothing is left that could start a pass of m by itself.
AtRest(m) ==
    /\ seen[m] = Len(history)
    /\ ~queue[m] /\ ~delayed[m] /\ ~Running(m)

\* Every object is what m makes of the last version.
Settled(m) ==
    LET plan == Plan(Last)
    IN  \A i \in 1..Len(plan) :
           objects[ItemKey(plan[i])] = Desired(plan[i], Len(history), m)

\* The writing manager comes to rest only when the objects are what it makes
\* of the latest version, although it compares them through a cache that lags
\* and others crashed or handed over before it; after a disturbance this holds
\* from the next edit that finds the caches current.  The part of LatestPrevails
\* that needs no fairness.
RestMeansUpToDate ==
    \A m \in Manager :
        Alone(m) /\ AtRest(m) /\ disturbed = {} /\ Last # None => Settled(m)

\* With webservers the writing manager never comes to rest, even when somebody
\* else changes or deletes the objects: what LatestPrevails rests on then.
WebserversKeepBusy == \A m \in Manager : Alone(m) /\ Restless => ~AtRest(m)

\* In the end the objects are what the remaining manager makes of the latest
\* version, provided that nothing disturbed it since it was edited, or only
\* drift and it has webservers.  A disturbance is a change by somebody else, a
\* write whose answer is lost or, without leader election, the end of a manager
\* beside another: nothing queues a pass for these.
LatestPrevails == <>[](disturbed = {} \/ Restless => UpToDate)
=============================================================================
