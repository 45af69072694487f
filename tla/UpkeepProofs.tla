---------------------------- MODULE UpkeepProofs ----------------------------
(***************************************************************************)
(* With leader election Managers implements Upkeep, and no object appears  *)
(* again after a deletion.                                                 *)
(***************************************************************************)
EXTENDS ManagersUpkeep, ManagersProofs

\* A write, with its answer or without, is a step Bring of its object to the
\* version of the pass.
LEMMA StoreBrings ==
    ASSUME IInv, Serial, NEW m \in Manager, Store(m)
    PROVE  \E k \in Key, v \in 1..Len(history) : Abstract!Bring(k, v)
<1>1. /\ KeyAt(m) \in Key
      /\ snap[m] \in 1..Len(history)
      /\ Running(m)
  BY WantedType DEF Store, Walking
<1> DEFINE s == history[snap[m]]
<1>2. s \in Specs /\ s # None
  <2>1. history[snap[m]] # None
    BY <1>1 DEF IInv, ManagerInv
  <2>2. history[snap[m]] \in Specs \cup {None}
    BY <1>1 DEF IInv, TypeOK
  <2> QED
    BY <2>1, <2>2
<1>3. next[m] \in 1..Len(Plan(s))
  <2>1. next[m] \in Nat \ {0} /\ next[m] <= Len(Plan(s))
    BY DEF IInv, TypeOK, Store, Walking
  <2>2. Len(Plan(s)) \in Nat
    BY <1>2, PlanType
  <2> HIDE DEF s
  <2> QED
    BY <2>1, <2>2
<1>4. Value(ItemOf(m), s, m) \in MakesOf[s][KeyAt(m)]
  <2>1. ItemOf(m) = Plan(s)[next[m]] /\ KeyAt(m) = ItemKey(Plan(s)[next[m]])
    BY DEF ItemOf, KeyAt
  <2>2. MakesOf[s][KeyAt(m)] =
          {Value(Plan(s)[i], s, n) :
              i \in {j \in 1..Len(Plan(s)) : ItemKey(Plan(s)[j]) = KeyAt(m)},
              n \in Manager}
    <3> HIDE DEF s
    <3> QED
      BY <1>1, <1>2 DEF MakesOf
  <2> HIDE DEF s
  <2> QED
    BY <1>3, <2>1, <2>2
<1>5. Wanted(m) = [owner |-> Abstract!Owner(snap[m]), value |-> Value(ItemOf(m), s, m)]
  BY DEF Wanted, Desired, Incarnation, Abstract!Owner
<1>6. /\ objects' = [objects EXCEPT ![KeyAt(m)] = Wanted(m)]
      /\ applied' = [applied EXCEPT ![KeyAt(m)] = snap[m]]
      /\ history' = history
  BY DEF Store, Put
<1>7. \A k \in Key : applied[k] <= snap[m]
  BY <1>1 DEF Serial
<1>8. Abstract!Bring(KeyAt(m), snap[m])
  BY <1>2, <1>4, <1>5, <1>6, <1>7 DEF Abstract!Bring
<1> QED
  BY <1>1, <1>8

\* What users, the garbage collector and others do is allowed as it is.
LEMMA EnvironmentImplements ==
    ASSUME UserEdit \/ GarbageCollect \/ Drift
    PROVE  Abstract!Next
<1>1. CASE UserEdit
  BY <1>1 DEF UserEdit, Last, Abstract!Next, Abstract!NewVersion, Abstract!Last
<1>2. CASE GarbageCollect
  <2>1. PICK k \in Key :
          /\ objects[k] # Absent
          /\ Last = None \/ objects[k].owner # Incarnation(Len(history))
          /\ Put(k, Absent)
    BY <1>2 DEF GarbageCollect
  <2>2. Abstract!Collect(k)
    BY <1>2, <2>1 DEF GarbageCollect, Put, Last, Incarnation,
       Abstract!Collect, Abstract!Last, Abstract!Owner
  <2> QED
    BY <2>2 DEF Abstract!Next
<1>3. CASE Drift
  <2>1. PICK k \in Key :
          /\ objects[k] # Absent
          /\ \E x \in {Absent, [objects[k] EXCEPT !.value = Foreign]} : Put(k, x)
    BY <1>3 DEF Drift
  <2>2. Abstract!Interfere(k)
    BY <1>3, <2>1 DEF Drift, Put, Abstract!Interfere
  <2> QED
    BY <2>2 DEF Abstract!Next
<1> QED
  BY <1>1, <1>2, <1>3

\* Every step maps to a step of Upkeep or to a stutter.
LEMMA StepImplements ==
    ASSUME IInv, Serial, [Next]_vars
    PROVE  [Abstract!Next]_(Abstract!vars)
<1>1. CASE UserEdit \/ GarbageCollect \/ Drift
  BY <1>1, EnvironmentImplements
<1>2. CASE \E m \in Manager : Store(m)
  <2>1. \E k \in Key, v \in 1..Len(history) : Abstract!Bring(k, v)
    BY <1>2, StoreBrings
  <2> QED
    BY <2>1 DEF Abstract!Next
<1>3. ASSUME NEW m \in Manager, ~Store(m),
             Lifecycle(m) \/ Deliver(m) \/ (\E k \in Key : Sync(m, k))
             \/ DelayOver(m) \/ PassStep(m) \/ WriteAnswerLost(m)
      PROVE  UNCHANGED <<history, objects, applied>>
  <2>1. CASE Lifecycle(m)
    BY <2>1 DEF Lifecycle, Launch, Activate, StartController, Crash, Retire
  <2>2. CASE Deliver(m) \/ (\E k \in Key : Sync(m, k)) \/ DelayOver(m)
    BY <2>2 DEF Deliver, Sync, DelayOver
  <2>3. CASE PassStep(m) \/ WriteAnswerLost(m)
    BY <1>3, <2>3
       DEF PassStep, StartReconcile, Keep, Write, WriteAnswerLost, Conflict, Finish
  <2> QED
    BY <1>3, <2>1, <2>2, <2>3
<1>4. CASE UNCHANGED vars
  BY <1>4 DEF vars, Abstract!vars
<1>5. CASE Next
  BY <1>1, <1>2, <1>3, <1>5 DEF Next, Abstract!vars
<1> QED
  BY <1>4, <1>5

\* With leader election the managers together implement Upkeep, for any
\* number of managers, crashes and takeovers.
THEOREM ImplementsUpkeepHolds ==
    ASSUME LeaderElect
    PROVE  Spec => ImplementsUpkeep
<1>1. Init => IInv /\ Serial
  BY InitIInv, InitSerial
<1>2. IInv /\ Serial /\ [Next]_vars => (IInv /\ Serial)'
  BY NextIInv, NextSerial
<1>3. Init => Abstract!Init
  BY DEF Init, NoObjects, Abstract!Init
<1>4. IInv /\ Serial /\ [Next]_vars => [Abstract!Next]_(Abstract!vars)
  BY StepImplements
<1> QED
  BY <1>1, <1>2, <1>3, <1>4, PTL
     DEF Spec, ImplementsUpkeep, Abstract!Spec

-----------------------------------------------------------------------------
(* Nothing appears again after a deletion.                                 *)

\* The active manager has seen what any other has.
Foremost ==
    \A m, n \in Manager : status[m] = "active" => seen[n] <= seen[m]

\* At first no manager is active.
LEMMA InitForemost == Init => Foremost
BY DEF Init, Foremost

\* Only the active manager learns more, and the next one starts with as much.
LEMMA NextForemost ==
    ASSUME LeaderElect, IInv, Serial, Foremost, [Next]_vars
    PROVE  Foremost'
<1>1. \A m \in Manager : seen[m] \in Nat
  BY DEF IInv, TypeOK
<1>2. CASE /\ seen' = seen
           /\ \A m \in Manager : status'[m] = "active" => status[m] = "active"
  BY <1>2 DEF Foremost
<1>3. CASE UserEdit \/ GarbageCollect \/ Drift \/ UNCHANGED vars
  BY <1>2, <1>3 DEF UserEdit, GarbageCollect, Drift, vars, perManager
<1>4. ASSUME NEW m \in Manager, Launch(m) \/ Crash(m) \/ Retire(m)
      PROVE  Foremost'
  <2>1. /\ seen' = seen
        /\ \E x \in {"starting", "gone"} : status' = [status EXCEPT ![m] = x]
    BY <1>4 DEF Launch, Crash, Retire
  <2>2. \A n \in Manager : status'[n] = "active" => status[n] = "active"
    BY <2>1 DEF IInv, TypeOK
  <2> QED
    BY <1>2, <2>1, <2>2
<1>5. ASSUME NEW m \in Manager, Activate(m) PROVE Foremost'
  <2>1. PICK v \in Versions : Newest(v) /\ StartController(m, v)
    BY <1>5 DEF Activate
  <2>2. /\ status' = [status EXCEPT ![m] = "active"]
        /\ seen' = [seen EXCEPT ![m] = v]
    BY <2>1 DEF StartController
  <2>3. \A n \in Manager : status'[n] = "active" => n = m
    BY <1>5, <2>2 DEF Activate, Elected, IInv, TypeOK
  <2>4. seen'[m] = v /\ \A n \in Manager \ {m} : seen'[n] = seen[n]
    BY <2>2 DEF IInv, TypeOK
  <2>5. v \in Nat /\ \A n \in Manager : seen'[n] <= v
    BY <2>1, <2>4 DEF Newest, Versions
  <2> QED
    BY <2>3, <2>4, <2>5 DEF Foremost
<1>6. ASSUME NEW m \in Manager, Deliver(m) PROVE Foremost'
  <2>1. PICK v \in seen[m] + 1..Len(history) : seen' = [seen EXCEPT ![m] = v]
    BY <1>6 DEF Deliver
  <2>2. status[m] = "active" /\ status' = status
    BY <1>6 DEF Deliver
  <2>3. seen'[m] = v /\ \A n \in Manager \ {m} : seen'[n] = seen[n]
    BY <2>1 DEF IInv, TypeOK
  <2>4. v \in Int /\ v > seen[m]
    BY <1>1, <2>1
  <2>5. \A n \in Manager : seen'[n] <= v
    BY <1>1, <2>2, <2>3, <2>4 DEF Foremost
  <2>6. \A n \in Manager : status'[n] = "active" => n = m
    BY <2>2 DEF Serial
  <2> QED
    BY <2>3, <2>5, <2>6 DEF Foremost
<1>7. ASSUME NEW m \in Manager,
             (\E k \in Key : Sync(m, k)) \/ DelayOver(m) \/ PassStep(m)
             \/ WriteAnswerLost(m)
      PROVE  Foremost'
  <2>1. seen' = seen /\ status' = status
    BY <1>7 DEF Sync, DelayOver, PassStep, StartReconcile, Keep, Write,
       WriteAnswerLost, Store, Conflict, Finish
  <2> QED
    BY <1>2, <2>1
<1> QED
  BY <1>3, <1>4, <1>5, <1>6, <1>7 DEF Next, Lifecycle

\* A known deletion stays known, to whoever is active, and is all that passes
\* find.
LEMMA ResurrectsStep ==
    ASSUME LeaderElect, IInv, IInv', Serial, Foremost, [Next]_vars,
           DeletionKnown, history' = history
    PROVE  /\ DeletionKnown'
           /\ \A k \in Key : objects[k] = Absent => objects'[k] = Absent
<1>1. PICK w \in Manager : seen[w] = Len(history)
  BY DEF DeletionKnown
<1>2. /\ Last = None /\ Last' = None
      /\ Len(history) \in Nat
      /\ \A m \in Manager : seen[m] \in 0..Len(history) /\ snap[m] = 0
  BY DEF DeletionKnown, Last, Running, IInv, TypeOK
<1>3. ASSUME NEW m \in Manager, status[m] = "active"
      PROVE  seen[m] = Len(history)
  BY <1>1, <1>2, <1>3 DEF Foremost
<1>4. \A m \in Manager : ~Store(m) /\ ~Walking(m)
  BY <1>2 DEF Store, Walking, Running
<1>5. CASE /\ \A m \in Manager : seen'[m] >= seen[m]
           /\ \A m \in Manager : snap'[m] = 0
           /\ \A k \in Key : objects[k] = Absent => objects'[k] = Absent
  <2>1. seen'[w] = Len(history')
    <3>1. seen'[w] \in 0..Len(history) /\ seen'[w] >= Len(history)
      BY <1>1, <1>5 DEF IInv, TypeOK
    <3> QED
      BY <1>2, <3>1
  <2> QED
    BY <1>2, <1>5, <2>1 DEF DeletionKnown, Running
<1>6. CASE UserEdit
  BY <1>6, <1>2 DEF UserEdit, IInv, TypeOK
<1>7. CASE GarbageCollect \/ Drift
  <2>1. seen' = seen /\ snap' = snap
    BY <1>7 DEF GarbageCollect, Drift
  <2>2. PICK k \in Key :
          /\ objects[k] # Absent
          /\ \E x \in {Absent, [objects[k] EXCEPT !.value = Foreign]} :
                objects' = [objects EXCEPT ![k] = x]
    BY <1>7 DEF GarbageCollect, Drift, Put
  <2>3. \A j \in Key : objects[j] = Absent => objects'[j] = Absent
    BY <2>2 DEF IInv, TypeOK
  <2> QED
    BY <1>2, <1>5, <2>1, <2>3
<1>8. CASE UNCHANGED vars
  BY <1>2, <1>5, <1>8 DEF vars, perManager
<1>9. ASSUME NEW m \in Manager, Lifecycle(m) PROVE DeletionKnown' /\ objects' = objects
  <2>1. objects' = objects
    BY <1>9 DEF Lifecycle, Launch, Activate, StartController, Crash, Retire
  <2>2. CASE Launch(m) \/ Crash(m) \/ Retire(m)
    <3>1. seen' = seen /\ (snap' = snap \/ snap' = [snap EXCEPT ![m] = 0])
      BY <2>2 DEF Launch, Crash, Retire, Forget
    <3>2. \A n \in Manager : snap'[n] = 0
      BY <1>2, <3>1 DEF IInv, TypeOK
    <3> QED
      BY <1>2, <1>5, <2>1, <3>1, <3>2
  <2>3. CASE Activate(m)
    <3>1. PICK v \in Versions : Newest(v) /\ StartController(m, v)
      BY <2>3 DEF Activate
    <3>2. seen' = [seen EXCEPT ![m] = v] /\ snap' = snap /\ seen[m] <= v
      BY <3>1 DEF StartController, Newest
    <3>3. v \in Nat /\ seen'[m] = v /\ \A n \in Manager \ {m} : seen'[n] = seen[n]
      BY <3>2 DEF IInv, TypeOK, Versions
    <3>4. \A n \in Manager : seen'[n] >= seen[n]
      BY <1>2, <3>2, <3>3
    <3> QED
      BY <1>2, <1>5, <2>1, <3>2, <3>4
  <2> QED
    BY <1>9, <2>1, <2>2, <2>3 DEF Lifecycle
<1>10. ASSUME NEW m \in Manager, Deliver(m) PROVE FALSE
  BY <1>2, <1>3, <1>10 DEF Deliver
<1>11. ASSUME NEW m \in Manager, (\E k \in Key : Sync(m, k)) \/ DelayOver(m)
       PROVE  DeletionKnown' /\ objects' = objects
  BY <1>2, <1>5, <1>11 DEF Sync, DelayOver
<1>12. ASSUME NEW m \in Manager, StartReconcile(m)
       PROVE  DeletionKnown' /\ objects' = objects
  <2>1. status[m] = "active"
    BY <1>12 DEF StartReconcile, IInv, ManagerInv
  <2>2. history[seen[m]] = None
    BY <1>2, <1>3, <2>1 DEF Last
  <2>3. snap' = [snap EXCEPT ![m] = 0] /\ seen' = seen /\ objects' = objects
    BY <1>12, <2>2 DEF StartReconcile
  <2>4. \A n \in Manager : snap'[n] = 0
    BY <1>2, <2>3 DEF IInv, TypeOK
  <2> QED
    BY <1>2, <1>5, <2>3, <2>4
<1>13. ASSUME NEW m \in Manager, PassStep(m) \/ WriteAnswerLost(m)
       PROVE  StartReconcile(m)
  <2>1. ~Running(m)
    BY <1>2 DEF Running
  <2> QED
    BY <1>4, <1>13, <2>1 DEF PassStep, Keep, Write, Conflict, Finish, WriteAnswerLost
<1> QED
  BY <1>6, <1>7, <1>8, <1>9, <1>10, <1>11, <1>12, <1>13 DEF Next

\* With leader election no object comes back after a deletion that some
\* manager has noticed, whoever leads next and whatever is still queued.
THEOREM NoManagerResurrectsHolds ==
    ASSUME LeaderElect
    PROVE  Spec => NoManagerResurrects
<1> DEFINE J == IInv /\ Serial /\ Foremost
<1>1. Init => J
  BY InitIInv, InitSerial, InitForemost
<1>2. J /\ [Next]_vars => J'
  BY NextIInv, NextSerial, NextForemost
<1>3. J /\ J' /\ [Next]_vars
        => [DeletionKnown /\ history' = history
              => /\ DeletionKnown'
                 /\ \A k \in Key : objects[k] = Absent => objects'[k] = Absent]_vars
  BY ResurrectsStep
<1> HIDE DEF J
<1> QED
  BY <1>1, <1>2, <1>3, PTL DEF Spec, NoManagerResurrects
=============================================================================
