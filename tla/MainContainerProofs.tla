------------------------ MODULE MainContainerProofs ------------------------
(***************************************************************************)
(* Proofs of the invariants of MainContainer, for every set of Secrets and *)
(* whether or not the kubelet kills.                                       *)
(***************************************************************************)
EXTENDS MainContainer, TLAPS

\* What the place in the script says of the process it starts: there is none
\* up to the spawn, after the first wait it is no longer left running, and it
\* has ended when the second wait returns; it does not outlive process 1.
ChildAt ==
    /\ pc \in {"waiting", "prepare", "rm", "commands", "spawn"} => child = "none"
    /\ pc \in {"untrap", "waitagain"} => child # "running"
    /\ pc = "touch" => child = "ended"
    /\ pc \in Over => ~Alive

\* The file of an earlier container is gone from the rm to the touch, and the
\* metric container comes to neither.
FileAt ==
    /\ pc \in {"rm", "touch"} => role # "metric"
    /\ role = "metric" => ~file
    /\ pc \in {"commands", "spawn", "assign", "wait", "untrap", "waitagain"}
         => ~file
    /\ pc \in Over /\ file => child \in {"none", "ended"}

\* The commands are done when the process is spawned and as long as it is
\* remembered.
DoneAt ==
    /\ pc = "spawn" => done = Commands(role)
    /\ child # "none" => done = Commands(role)

Inv == TypeOK /\ ChildAt /\ FileAt /\ DoneAt

\* The number of foreground commands of any role is a natural number.
LEMMA CommandsType == \A r : Commands(r) \in Nat
BY DEF Commands

\* Init establishes the invariant and every step of kubelet, process and
\* script keeps it.
THEOREM InvariantHolds == Spec => []Inv
<1> USE DEF Inv, TypeOK, ChildAt, FileAt, DoneAt, Over
<1>1. Init => Inv
  <2> SUFFICES ASSUME Init PROVE Inv
    OBVIOUS
  <2>1. Commands(role) \in Nat
    BY CommandsType
  <2>2. TypeOK
    <3>1. done \in 0..Commands(role)
      BY <2>1 DEF Init
    <3>2. file \in BOOLEAN /\ pending \in BOOLEAN /\ deleted \in BOOLEAN
      BY DEF Init
    <3> QED
      BY <3>1, <3>2 DEF Init
  <2>3. ChildAt /\ FileAt /\ DoneAt
    BY DEF Init, Alive
  <2> QED
    BY <2>2, <2>3
<1>2. Inv /\ [Next]_vars => Inv'
  <2> SUFFICES ASSUME Inv, [Next]_vars PROVE Inv'
    OBVIOUS
  <2>1. Commands(role) \in Nat
    BY CommandsType
  <2>2. CASE EditSecret
    BY <2>1, <2>2 DEF EditSecret, Alive
  <2>3. CASE Create
    BY <2>1, <2>3 DEF Create, Alive
  <2>4. CASE RestartContainer
    BY <2>1, <2>4 DEF RestartContainer, Alive
  <2>5. CASE SendTerm
    BY <2>1, <2>5 DEF SendTerm, Alive, Armed
  <2>6. CASE SendKill
    BY <2>1, <2>6 DEF SendKill, EndAs, Alive
  <2>7. CASE ChildEnds
    BY <2>1, <2>7 DEF ChildEnds, Alive
  <2>8. CASE Script
    <3>1. CASE Prepare \/ PrepareMetric \/ RemoveShutdownFile
      <4>1. CASE Prepare
        BY <2>1, <4>1 DEF Prepare, Step, Alive
      <4>2. CASE PrepareMetric
        BY <2>1, <4>2 DEF PrepareMetric, Step, Alive
      <4>3. CASE RemoveShutdownFile
        BY <2>1, <4>3 DEF RemoveShutdownFile, Step, Alive
      <4> QED
        BY <3>1, <4>1, <4>2, <4>3
    <3>2. CASE RunCommand
      BY <2>1, <3>2 DEF RunCommand, Step, Alive
    <3>3. CASE CommandFails
      BY <2>1, <3>3 DEF CommandFails, EndAs, Alive
    <3>4. CASE CommandsDone \/ Spawn \/ Assign
      BY <2>1, <3>4 DEF CommandsDone, Spawn, Assign, Step, Alive
    <3>5. CASE Wait \/ Untrap \/ WaitAgain
      BY <2>1, <3>5 DEF Wait, Untrap, WaitAgain, Step, Alive
    <3>6. CASE Touch
      BY <2>1, <3>6 DEF Touch, Step, Alive
    <3>7. CASE HandleTerm
      <4>1. CASE PidKnown
        BY <2>1, <3>7, <4>1 DEF HandleTerm, PidKnown, Alive
      <4>2. CASE ~PidKnown
        BY <2>1, <3>7, <4>2 DEF HandleTerm, PidKnown, EndAs, Alive
      <4> QED
        BY <4>1, <4>2
    <3> QED
      BY <2>8, <3>1, <3>2, <3>3, <3>4, <3>5, <3>6, <3>7 DEF Script
  <2>9. CASE UNCHANGED vars
    BY <2>1, <2>9 DEF vars, Alive
  <2> QED
    BY <2>2, <2>3, <2>4, <2>5, <2>6, <2>7, <2>8, <2>9 DEF Next
<1> QED
  BY <1>1, <1>2, PTL DEF Spec

\* Every variable keeps its type; in particular no more database commands are
\* run than the role has.
THEOREM TypeCorrect == Spec => []TypeOK
<1>1. Inv => TypeOK
  BY DEF Inv
<1> QED
  BY <1>1, InvariantHolds, PTL

\* The file is never there beside a running or a killed Airflow process.
THEOREM ShutdownAfterMainHolds == Spec => []ShutdownAfterMain
<1>1. Inv => ShutdownAfterMain
  BY DEF Inv, TypeOK, ChildAt, FileAt, ShutdownAfterMain, Alive, Over
<1> QED
  BY <1>1, InvariantHolds, PTL

\* No Airflow process starts before the database commands have succeeded.
THEOREM SchedulerAfterMigrationHolds == Spec => []SchedulerAfterMigration
<1>1. Inv => SchedulerAfterMigration
  BY DEF Inv, DoneAt, SchedulerAfterMigration
<1> QED
  BY <1>1, InvariantHolds, PTL

\* The process has ended or been told before the script stops listening.
THEOREM ToldBeforeUntrapHolds == Spec => []ToldBeforeUntrap
<1>1. Inv => ToldBeforeUntrap
  BY DEF Inv, ChildAt, ToldBeforeUntrap
<1> QED
  BY <1>1, InvariantHolds, PTL

\* What a script that knows its child leaves when it ends.
Clean == /\ child' = "ended"
         /\ file' \/ role = "metric" \/ (pc = "touch" /\ pc' = "failed")

\* Such a script ends by itself with the second wait of the metric container,
\* or with the touch or its failure.
LEMMA CleanExitStep ==
    Inv /\ [Next]_vars => (PidKnown /\ pc' \in {"exited", "failed"} => Clean)
<1> SUFFICES ASSUME Inv, [Next]_vars, PidKnown, pc' \in {"exited", "failed"}
             PROVE  Clean
  OBVIOUS
<1>1. pc \in {"wait", "untrap", "waitagain", "touch"}
  BY DEF PidKnown
<1>2. pc # pc'
  BY <1>1
<1>3. SendKill \/ Script \/ Create \/ RestartContainer
  BY <1>2 DEF Next, vars, EditSecret, SendTerm, ChildEnds
<1>4. Script
  BY <1>1, <1>3 DEF SendKill, EndAs, Create, RestartContainer
<1>5. WaitAgain \/ Touch \/ CommandFails
  <2>1. ~HandleTerm
    BY <1>1 DEF HandleTerm, PidKnown
  <2> QED
    BY <1>4, <2>1 DEF Script, Prepare, PrepareMetric, RemoveShutdownFile,
       RunCommand, CommandsDone, Spawn, Assign, Wait, Untrap, Step
<1>6. CASE WaitAgain
  BY <1>6 DEF WaitAgain, Step, Clean
<1>7. CASE Touch
  BY <1>7 DEF Touch, Step, Inv, ChildAt, Clean
<1>8. CASE CommandFails
  BY <1>1, <1>8 DEF CommandFails, EndAs, Inv, ChildAt, Alive, Clean
<1> QED
  BY <1>5, <1>6, <1>7, <1>8

\* No exit is clean in name only, for every Secret and whether or not commands
\* fail and the kubelet kills.
THEOREM CleanExitHolds == Spec => CleanExit
<1>1. Inv /\ [Next]_vars
        => [PidKnown /\ pc' \in {"exited", "failed"}
              => /\ child' = "ended"
                 /\ \/ file' \/ role = "metric"
                    \/ pc = "touch" /\ pc' = "failed"]_vars
  BY CleanExitStep DEF Clean
<1> QED
  BY <1>1, InvariantHolds, PTL DEF Spec, CleanExit
=============================================================================
