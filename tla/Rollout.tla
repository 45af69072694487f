------------------------------ MODULE Rollout ------------------------------
(***************************************************************************)
(* What the operator promises of one AirflowCluster, without caches,       *)
(* queues or passes: the resource gets new versions, and each object is    *)
(* brought, on its own and at any time, to a version that is sound, that   *)
(* declares it and that is not older than what it has, once each object it *)
(* needs is what that version asks for, or was until it was last brought   *)
(* to another: the operator may know it as it was before.                  *)
(***************************************************************************)
EXTENDS Naturals, Sequences

CONSTANTS
    Specs,      \* the specifications users submit
    None,       \* the version that stands for the deletion
    Sound,      \* the specifications that can be rolled out at all
    Objects,    \* the keys of all objects
    Declares,   \* Declares[s]: the objects of specification s
    Needs,      \* Needs[s][k]: the objects that come before k
    Contents    \* Contents[s][k]: what s asks of object k

VARIABLES
    history,    \* the versions of the resource
    applied,    \* the version each object was last brought to, or 0
    previous    \* the version it was brought to before that, or 0

vars == <<history, applied, previous>>

Init ==
    /\ history \in {<<s>> : s \in Specs}
    /\ applied = [k \in Objects |-> 0]
    /\ previous = [k \in Objects |-> 0]

\* The user edits or deletes the resource.
NewVersion ==
    /\ history[Len(history)] # None
    /\ \E s \in Specs \cup {None} : history' = Append(history, s)
    /\ UNCHANGED <<applied, previous>>

\* Object k at version u is what version v asks for.
Fits(k, u, v) == u > 0 /\ Contents[history[u]][k] = Contents[history[v]][k]

Met(k, v) == Fits(k, applied[k], v) \/ Fits(k, previous[k], v)

\* Object k is brought to version v.
Bring(k, v) ==
    /\ history[v] \in Sound
    /\ k \in Declares[history[v]]
    /\ applied[k] <= v
    /\ \A n \in Needs[history[v]][k] : Met(n, v)
    /\ applied' = [applied EXCEPT ![k] = v]
    /\ previous' = [previous EXCEPT ![k] = applied[k]]
    /\ UNCHANGED history

Next ==
    \/ NewVersion
    \/ \E k \in Objects, v \in 1..Len(history) : Bring(k, v)

Spec == Init /\ [][Next]_vars
=============================================================================
