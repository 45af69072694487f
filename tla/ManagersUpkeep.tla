--------------------------- MODULE ManagersUpkeep ---------------------------
(***************************************************************************)
(* The refinement mapping from Managers to Upkeep.                         *)
(***************************************************************************)
EXTENDS Managers

\* What the managers, each of its own build, make of an object.
MakesOf ==
    [s \in Specs |-> [k \in Key |->
        {Value(Plan(s)[i], s, m) :
            i \in {j \in 1..Len(Plan(s)) : ItemKey(Plan(s)[j]) = k},
            m \in Manager}]]

Abstract == INSTANCE Upkeep WITH Objects <- Key, Makes <- MakesOf

\* With leader election managers that crash, replace each other and compare
\* with stale copies do nothing to the objects that Upkeep does not allow:
\* every write is of a version no object is ahead of, taken from one version
\* as a whole and owned by the resource of that version.
ImplementsUpkeep == Abstract!Spec
=============================================================================
