------------------------------- MODULE Upkeep -------------------------------
(***************************************************************************)
(* What managers that replace each other promise of the objects of one     *)
(* custom resource, without processes, election, caches, queues or passes: *)
(* the objects are brought to one version after the other, never to an     *)
(* older one than any object has had, each as one of the builds makes it   *)
(* and for the resource that the version belongs to.  Besides, the cluster *)
(* collects what has lost its owner, and others interfere.                 *)
(***************************************************************************)
EXTENDS Naturals, Sequences

CONSTANTS
    Specs,      \* the specifications users submit
    None,       \* the version that stands for the deletion
    Absent,     \* no object
    Foreign,    \* what somebody else makes of an object
    Objects,    \* the keys of all objects
    Makes       \* Makes[s][k]: what the builds make of object k for s

VARIABLES
    history,    \* the versions under the name; after None a new resource
    objects,    \* the objects, each with its owner
    applied     \* the version each object was last brought to, or 0

vars == <<history, objects, applied>>

Last == history[Len(history)]

\* The resource a version belongs to.
Owner(v) == {u \in 1..v - 1 : history[u] = None}

Init ==
    /\ history \in {<<s>> : s \in Specs}
    /\ objects = [k \in Objects |-> Absent]
    /\ applied = [k \in Objects |-> 0]

\* The user edits, deletes or creates the resource again.
NewVersion ==
    /\ \E s \in (Specs \cup {None}) \ {Last} : history' = Append(history, s)
    /\ UNCHANGED <<objects, applied>>

\* Some manager writes object k as version v asks.
Bring(k, v) ==
    /\ history[v] # None
    /\ \A n \in Objects : applied[n] <= v
    /\ \E x \in Makes[history[v]][k] :
          objects' = [objects EXCEPT ![k] = [owner |-> Owner(v), value |-> x]]
    /\ applied' = [applied EXCEPT ![k] = v]
    /\ UNCHANGED history

\* The owner of object k is gone.
Collect(k) ==
    /\ objects[k] # Absent
    /\ Last = None \/ objects[k].owner # Owner(Len(history))
    /\ objects' = [objects EXCEPT ![k] = Absent]
    /\ UNCHANGED <<history, applied>>

\* Somebody else deletes or changes object k.
Interfere(k) ==
    /\ objects[k] # Absent
    /\ \E x \in {Absent, [objects[k] EXCEPT !.value = Foreign]} :
          objects' = [objects EXCEPT ![k] = x]
    /\ UNCHANGED <<history, applied>>

Next ==
    \/ NewVersion
    \/ \E k \in Objects :
          \/ \E v \in 1..Len(history) : Bring(k, v)
          \/ Collect(k)
          \/ Interfere(k)

Spec == Init /\ [][Next]_vars
=============================================================================
