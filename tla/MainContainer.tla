--------------------------- MODULE MainContainer ---------------------------
(***************************************************************************)
(* The main container of a pod of a role group: the shell script that      *)
(* StatefulSetBuilder.getMainContainerArgs writes (BashLibs included), the *)
(* Airflow process it starts in the background, and the kubelet, which     *)
(* creates the container from the Secret keys that setMainContainerEnv     *)
(* refers to, sends TERM, and KILL when the grace period is over.  The     *)
(* metric container of every pod runs the exporter under the same library, *)
(* with no variables from the Secret, no commands and no shutdown file.    *)
(*                                                                         *)
(* The shell is process 1 of the container and runs with -euo pipefail.    *)
(* pc names the command it comes to next.  A signal that arrives during a  *)
(* command is handled when the command ends, so each step is one command   *)
(* and signals arrive between the steps.                                   *)
(***************************************************************************)
EXTENDS Naturals

CONSTANT SecretStates  \* the sets of keys the credentials Secret may have

VARIABLES
    role,     \* the role whose container this is, or "metric", fixed
    secret,   \* the keys in the credentials Secret
    pc,       \* the next command of the script, or the container's state
    done,     \* foreground commands that have succeeded
    child,    \* the Airflow process, or the exporter
    file,     \* the file that tells Vector to stop; outlives the container
    pending,  \* TERM has arrived and the trap has not run yet
    deleted   \* the pod is being deleted and TERM has been sent

vars == <<role, secret, pc, done, child, file, pending, deleted>>

Role == {"celeryexecutors", "schedulers", "webservers"}

\* The containers of a pod: the main one has the name of the role.
Container == Role \cup {"metric"}

\* Keys of the Secret that become environment variables of the container.
\* Every role is built for the Celery executor.
RequiredKeys(r) ==
    IF r = "metric" THEN {}
    ELSE {"appSecretKey", "connections.sqlalchemyDatabaseUri",
          "connections.celeryResultBackend", "connections.celeryBrokerUrl"}
         \cup IF r = "schedulers"
              THEN {"adminUser.username", "adminUser.firstname",
                    "adminUser.lastname", "adminUser.email",
                    "adminUser.password"}
              ELSE {}

\* Commands run in the foreground before the main one: schedulers initialise
\* and upgrade the database and create the admin user.
Commands(r) == IF r = "schedulers" THEN 3 ELSE 0

\* The trap is set.
Armed == pc \in {"rm", "commands", "spawn", "assign", "wait", "untrap"}

\* term_child_pid is set.
PidKnown == pc \in {"wait", "untrap", "waitagain", "touch"}

Alive == child \in {"running", "terminating"}

\* The script has come to its end, has ended with a command that failed, or
\* has been killed.
Over == {"exited", "failed", "killed"}

TypeOK ==
    /\ role \in Container
    /\ secret \in SecretStates
    /\ pc \in {"waiting", "prepare", "rm", "commands", "spawn", "assign",
               "wait", "untrap", "waitagain", "touch"} \cup Over
    /\ done \in 0..Commands(role)
    /\ child \in {"none", "running", "terminating", "ended", "killed"}
    /\ file \in BOOLEAN
    /\ pending \in BOOLEAN
    /\ deleted \in BOOLEAN

Init ==
    /\ role \in Container
    /\ secret \in SecretStates
    /\ pc = "waiting"
    /\ done = 0
    /\ child = "none"
    /\ file = FALSE
    /\ pending = FALSE
    /\ deleted = FALSE

-----------------------------------------------------------------------------
(* The kubelet and the user.                                               *)

EditSecret ==
    /\ secret' \in SecretStates \ {secret}
    /\ UNCHANGED <<role, pc, done, child, file, pending, deleted>>

\* The container is created once every key exists; the volume of the log
\* directory, and the file in it, is that of the pod.
Create ==
    /\ pc = "waiting"
    /\ ~deleted
    /\ RequiredKeys(role) \subseteq secret
    /\ pc' = "prepare"
    /\ UNCHANGED <<role, secret, done, child, file, pending, deleted>>

\* A container that has ended is restarted.
RestartContainer ==
    /\ pc \in {"exited", "failed"}
    /\ ~deleted
    /\ pc' = "waiting"
    /\ done' = 0
    /\ child' = "none"
    /\ UNCHANGED <<role, secret, file, pending, deleted>>

\* The pod is deleted: TERM goes to process 1, for which the kernel drops a
\* signal without a handler.
SendTerm ==
    /\ ~deleted
    /\ deleted' = TRUE
    /\ pending' = Armed
    /\ UNCHANGED <<role, secret, pc, done, child, file>>

\* Process 1 is gone, and with it every process of the container.
EndAs(state) ==
    /\ pc' = state
    /\ pending' = FALSE
    /\ child' = IF Alive THEN "killed" ELSE child

\* The grace period is over.
SendKill ==
    /\ deleted
    /\ pc \notin Over \cup {"waiting"}
    /\ EndAs("killed")
    /\ UNCHANGED <<role, secret, done, file, deleted>>

-----------------------------------------------------------------------------
(* The Airflow process.                                                    *)

\* It ends, on TERM or by itself.
ChildEnds ==
    /\ Alive
    /\ child' = "ended"
    /\ UNCHANGED <<role, secret, pc, done, file, pending, deleted>>

-----------------------------------------------------------------------------
(* The script.                                                             *)

\* The command at "from" succeeds and the script goes on to "to".
Step(from, to) ==
    /\ pc = from
    /\ ~pending
    /\ pc' = to
    /\ UNCHANGED <<role, secret, pending, deleted>>

\* mkdir and cp of the configuration, then prepare_signal_handlers.
Prepare ==
    /\ role # "metric"
    /\ Step("prepare", "rm")
    /\ UNCHANGED <<done, child, file>>

\* prepare_signal_handlers is all that comes before the exporter.
PrepareMetric ==
    /\ role = "metric"
    /\ Step("prepare", "commands")
    /\ UNCHANGED <<done, child, file>>

\* rm -rf of the shutdown file that an earlier container may have left.
RemoveShutdownFile ==
    /\ Step("rm", "commands")
    /\ file' = FALSE
    /\ UNCHANGED <<done, child>>

\* Variant of RunCommand for testing TypeOK: off by one.
RunOneCommandMore ==
    /\ done <= Commands(role)
    /\ Step("commands", "commands")
    /\ done' = done + 1
    /\ UNCHANGED <<child, file>>

RunCommand ==
    /\ done < Commands(role)
    /\ Step("commands", "commands")
    /\ done' = done + 1
    /\ UNCHANGED <<child, file>>

\* Variant of CommandFails for testing SchedulerAfterMigration: no "set -e".
CommandFailsUnnoticed ==
    /\ pc = "commands"
    /\ done < Commands(role)
    /\ pc' = "spawn"
    /\ UNCHANGED <<role, secret, done, child, file, pending, deleted>>

\* Under "set -e" the script ends with the command that fails, be it the rm or
\* the last one: then there is no shutdown file, or still the old one.
CommandFails ==
    /\ \/ pc = "prepare" /\ role # "metric"
       \/ pc = "commands" /\ done < Commands(role)
       \/ pc \in {"rm", "touch"}
    /\ EndAs("failed")
    /\ UNCHANGED <<role, secret, done, file, deleted>>

CommandsDone ==
    /\ done = Commands(role)
    /\ Step("commands", "spawn")
    /\ UNCHANGED <<done, child, file>>

\* airflow ... &, or statsd-exporter &
Spawn ==
    /\ Step("spawn", "assign")
    /\ child' = "running"
    /\ UNCHANGED <<done, file>>

\* wait_for_termination $!: term_child_pid=$1, and the test of
\* term_kill_needed, which HandleTerm shows is never set.
Assign == Step("assign", "wait") /\ UNCHANGED <<done, child, file>>

\* The first wait returns when the process has ended.
Wait ==
    /\ child = "ended"
    /\ Step("wait", "untrap")
    /\ UNCHANGED <<done, child, file>>

\* Variant of Untrap for testing ShutdownAfterMain: no second wait.
UntrapWithoutWaiting == Step("untrap", "touch") /\ UNCHANGED <<done, child, file>>

\* trap - TERM
Untrap == Step("untrap", "waitagain") /\ UNCHANGED <<done, child, file>>

\* The second wait: the first one may have returned because of a signal.  It is
\* the end of the metric container.
WaitAgain ==
    /\ child = "ended"
    /\ Step("waitagain", IF role = "metric" THEN "exited" ELSE "touch")
    /\ UNCHANGED <<done, child, file>>

\* mkdir and touch of the shutdown file, the last command.
Touch ==
    /\ Step("touch", "exited")
    /\ file' = TRUE
    /\ UNCHANGED <<done, child>>

\* Variant of HandleTerm for testing GracefulStop: the process is not told.
HandleTermAlone ==
    /\ pending
    /\ pending' = FALSE
    /\ UNCHANGED <<role, secret, pc, done, child, file, deleted>>

\* Variant of HandleTerm for testing ToldBeforeUntrap: the wait returns, the
\* process has not been told.
HandleTermUntold ==
    /\ pending
    /\ PidKnown
    /\ pc' = IF pc = "wait" THEN "untrap" ELSE pc
    /\ pending' = FALSE
    /\ UNCHANGED <<role, secret, done, child, file, deleted>>

\* handle_term_signal.  With the pid known it passes TERM on, and a wait that
\* was interrupted returns; a signal just before the wait does not interrupt
\* it.  Without it, "set -u" makes the test of the unset term_child_pid fatal
\* before term_kill_needed can be assigned.
HandleTerm ==
    /\ pending
    /\ \/ /\ PidKnown
          /\ child' = IF child = "running" THEN "terminating" ELSE child
          /\ pc' \in IF pc = "wait" THEN {"wait", "untrap"} ELSE {pc}
          /\ pending' = FALSE
       \/ ~PidKnown /\ EndAs("failed")
    /\ UNCHANGED <<role, secret, done, file, deleted>>

-----------------------------------------------------------------------------

Script ==
    \/ Prepare
    \/ PrepareMetric
    \/ RemoveShutdownFile
    \/ RunCommand
    \/ CommandFails
    \/ CommandsDone
    \/ Spawn
    \/ Assign
    \/ Wait
    \/ Untrap
    \/ WaitAgain
    \/ Touch
    \/ HandleTerm

Next ==
    \/ EditSecret
    \/ Create
    \/ RestartContainer
    \/ SendTerm
    \/ SendKill
    \/ ChildEnds
    \/ Script

Spec == Init /\ [][Next]_vars

\* The kubelet and the script make progress, and Airflow ends on TERM.
Fairness ==
    /\ WF_vars(Create)
    /\ WF_vars(RestartContainer)
    /\ WF_vars(Script)
    /\ WF_vars(child = "terminating" /\ ChildEnds)

FairSpec == Spec /\ Fairness

-----------------------------------------------------------------------------
(* Properties.                                                             *)

\* While Vector is told to stop, no Airflow process runs in the pod and none
\* was cut off by a kill: the file is written after the process has ended and
\* removed before a restarted container starts another.
ShutdownAfterMain == file => child \in {"none", "ended"}

\* No Airflow process is started in a container whose database commands have
\* not all succeeded since the container started, whatever restarts.
SchedulerAfterMigration == child # "none" => done = Commands(role)

\* When the script is past its first wait no TERM reaches the process any
\* more: process 1 drops it once the trap is removed.  By then the process has
\* ended or has been told, whatever made the wait return; otherwise the second
\* wait could last until the kubelet kills the pod.
ToldBeforeUntrap == pc \in {"untrap", "waitagain", "touch"} => child # "running"

\* A script that knows its child ends by itself only after the child has
\* ended, a main one with the shutdown file for Vector unless that cannot be
\* written, whenever TERM arrives and whatever the waits return for.  The part
\* of GracefulStop that needs no fairness.
CleanExit ==
    [][PidKnown /\ pc' \in {"exited", "failed"}
         => /\ child' = "ended"
            /\ file' \/ role = "metric" \/ (pc = "touch" /\ pc' = "failed")]_vars

\* A TERM that arrives when the script knows its child ends the container
\* cleanly, a main one with the shutdown file for Vector unless that cannot be
\* written, or else the grace period is over first.
GracefulStop ==
    (pending /\ PidKnown) ~>
    \/ pc = "exited" /\ (file \/ role = "metric")
    \/ pc = "failed" /\ child = "ended"
    \/ pc = "killed"

\* The keys the API documents for the credentials Secret.
DocumentedKeys ==
    {"adminUser.username", "adminUser.firstusername", "adminUser.lastname",
     "adminUser.email", "adminUser.password", "connections.SecretKey",
     "connections.sqlalchemyDatabaseUri", "connections.celeryResultBackend",
     "connections.celeryBrokerUrl"}

\* The API documents the keys of the credentials Secret.  A pod whose Secret
\* has every documented key starts its container.
DocumentedSecretStarts ==
    <>(DocumentedKeys \subseteq secret => pc # "waiting" \/ deleted)
=============================================================================
