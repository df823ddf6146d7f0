----------------------------- MODULE KubeModule -----------------------------
(***************************************************************************)
(* library/kube.py: an Ansible module that brings one Kubernetes resource  *)
(* into a state by running kubectl, once to look and once to act. Several  *)
(* runs of the module and other users of kubectl work on the same resource *)
(* at the same time. A definition is named by the run it belongs to.       *)
(***************************************************************************)
EXTENDS Naturals, Sequences

CONSTANTS Runs,         \* runs of the module
          Absent,       \* there is no such resource
          Foreign,      \* the definition of another user of kubectl
          Halted,       \* what a deletion leaves that scaled down and went no further
          MaxForeign    \* bound on what other users do

ASSUME NamesAssumption ==
    /\ Runs \cap {Absent, Foreign, Halted} = {}
    /\ Absent # Foreign /\ Absent # Halted /\ Foreign # Halted
ASSUME RunsAssumption == Runs # {}
ASSUME BoundAssumption == MaxForeign \in Nat

VARIABLES
    task,      \* the parameters of a run
    pc,        \* "begin", a kubectl under way, or how the module exited
    command,   \* what the run has kubectl do, "none" if nothing
    changed,   \* "changed" of exit_json()
    blind,     \* (history) runs whose "kubectl get" failed
    log,       \* writes to the resource, the first entry is how it was found
    began,     \* (history) length of the log when a run began
    ended,     \* (history) length of the log when it ended
    foreign    \* writes by other users

vars == <<task, pc, command, changed, blind, log, began, ended, foreign>>

States == {"present", "absent", "latest", "reloaded", "stopped"}
Tasks == [state : States, force : BOOLEAN, filename : BOOLEAN, resource : BOOLEAN]
Commands == {"none", "create", "replace", "replace --force", "delete",
             "delete --ignore-not-found"}
Deletions == {"delete", "delete --ignore-not-found"}
Definitions == Runs \cup {Absent, Foreign, Halted}
Writes == [by : Runs \cup {Foreign}, object : Definitions]

object == log[Len(log)].object
Ended(r) == pc[r] \in {"ok", "failed"}

\* Every kubectl but "get" is told what to work on.
IsNamed(r) ==
    command[r] # "none" =>
        task[r].filename \/ (command[r] \in Deletions /\ task[r].resource)

TypeOK ==
    /\ task \in [Runs -> Tasks]
    /\ pc \in [Runs -> {"begin", "exists", "command", "recreate", "ok", "failed"}]
    /\ command \in [Runs -> Commands] /\ changed \in [Runs -> BOOLEAN]
    /\ blind \in SUBSET Runs
    /\ log \in Seq(Writes) /\ log # <<>>
    /\ began \in [Runs -> 0 .. Len(log)] /\ ended \in [Runs -> 0 .. Len(log)]
    /\ foreign \in 0 .. MaxForeign
    /\ \A r \in Runs : IsNamed(r)

Init ==
    /\ task \in [Runs -> Tasks]
    /\ pc = [r \in Runs |-> "begin"] /\ command = [r \in Runs |-> "none"]
    /\ changed = [r \in Runs |-> FALSE] /\ blind = {}
    /\ \E found \in {Absent, Foreign} : log = <<[by |-> Foreign, object |-> found]>>
    /\ began = [r \in Runs |-> 0] /\ ended = [r \in Runs |-> 0] /\ foreign = 0

-----------------------------------------------------------------------------
(* What the module decides.                                                *)

\* main() and the first line of each method: is exists() asked at all?
AsksExists(t) == t.state \in {"present", "latest"} \/ ~t.force

\* With a filename the flag is not given, whatever "force" says.
IgnoreNotFound(t) == t.force /\ ~t.filename

\* "latest" for a resource that is there does nothing.
ChosenKeepsTheOld(t, found) ==
    CASE found /\ t.state \in {"present", "latest"} -> "none"
      [] found /\ t.state = "reloaded" -> IF t.filename THEN "replace" ELSE "fail"
      [] found /\ t.state \in {"absent", "stopped"} ->
            IF t.filename \/ t.resource THEN "delete" ELSE "fail"
      [] ~found -> IF t.state \in {"present", "latest"} /\ t.filename THEN "create" ELSE "none"

\* "present" is created without a check.
ChosenUnchecked(t, found) ==
    CASE t.state \in {"present", "latest"} -> IF t.filename THEN "create" ELSE "fail"
      [] t.state = "reloaded" /\ found -> IF t.filename THEN "replace" ELSE "fail"
      [] t.state \in {"absent", "stopped"} /\ found ->
            IF t.filename \/ t.resource THEN "delete" ELSE "fail"
      [] t.state \notin {"present", "latest"} /\ ~found -> "none"

\* A deletion does not ask for the resource.
ChosenUnnamed(t, found) ==
    CASE found /\ t.state \in {"absent", "stopped"} -> "delete"
      [] found /\ t.state = "present" -> "none"
      [] ~found /\ t.state \notin {"present", "latest"} -> "none"
      [] OTHER -> IF ~t.filename THEN "fail"
                  ELSE IF ~found THEN "create"
                  ELSE IF t.state = "latest" \/ t.force THEN "replace --force" ELSE "replace"

\* The kubectl to run when exists() returned found, or was not asked; "fail" is
\* fail_json() for a parameter that is missing.
Chosen(t, found) ==
    CASE t.state = "present" /\ found -> "none"
      [] t.state \in {"present", "latest"} /\ ~found ->
            IF t.filename THEN "create" ELSE "fail"
      [] t.state = "latest" /\ found ->
            IF t.filename THEN "replace --force" ELSE "fail"
      [] t.state \notin {"present", "latest"} /\ ~found -> "none"
      [] t.state = "reloaded" /\ found ->
            IF ~t.filename THEN "fail"
            ELSE IF t.force THEN "replace --force" ELSE "replace"
      [] t.state \in {"absent", "stopped"} /\ found ->
            IF ~t.filename /\ ~t.resource THEN "fail"
            ELSE IF IgnoreNotFound(t) THEN "delete --ignore-not-found" ELSE "delete"

Exit(r, how) ==
    /\ pc' = [pc EXCEPT ![r] = how]
    /\ ended' = [ended EXCEPT ![r] = Len(log')]

Decide(r, found) ==
    LET c == Chosen(task[r], found) IN
      \/ c = "fail" /\ Exit(r, "failed") /\ UNCHANGED command
      \/ c = "none" /\ Exit(r, "ok") /\ UNCHANGED command
      \/ /\ c \in Commands \ {"none"}
         /\ command' = [command EXCEPT ![r] = c]
         /\ pc' = [pc EXCEPT ![r] = "command"] /\ UNCHANGED ended

-----------------------------------------------------------------------------
(* A run of the module.                                                    *)

\* exists() is False at once when no resource is named.
Begin(r) ==
    /\ pc[r] = "begin"
    /\ began' = [began EXCEPT ![r] = Len(log)]
    /\ UNCHANGED <<task, changed, blind, log, foreign>>
    /\ IF AsksExists(task[r]) /\ task[r].resource
         THEN pc' = [pc EXCEPT ![r] = "exists"] /\ UNCHANGED <<command, ended>>
         ELSE Decide(r, ~AsksExists(task[r]))

Get(r) ==
    /\ pc[r] = "exists"
    /\ UNCHANGED <<task, changed, blind, log, began, foreign>>
    /\ Decide(r, object # Absent)

\* exists() takes every failure of "kubectl get" for a resource that is not there.
GetFails(r) ==
    /\ pc[r] = "exists"
    /\ blind' = blind \cup {r}
    /\ UNCHANGED <<task, changed, log, began, foreign>>
    /\ Decide(r, FALSE)

Write(who, definition) == log' = Append(log, [by |-> who, object |-> definition])

KubectlIs(r, c) == pc[r] = "command" /\ command[r] = c

\* kubectl prints what it did, so the module reports a change.
Succeed(r) ==
    /\ Exit(r, "ok") /\ changed' = [changed EXCEPT ![r] = TRUE]
    /\ UNCHANGED <<task, command, blind, began, foreign>>

Create(r) == KubectlIs(r, "create") /\ object = Absent /\ Write(r, r) /\ Succeed(r)

Replace(r) == KubectlIs(r, "replace") /\ object # Absent /\ Write(r, r) /\ Succeed(r)

Delete(r) ==
    /\ \E c \in Deletions : KubectlIs(r, c)
    /\ object # Absent /\ Write(r, Absent) /\ Succeed(r)

\* Nothing to delete, nothing printed.
DeleteNothing(r) ==
    /\ KubectlIs(r, "delete --ignore-not-found") /\ object = Absent
    /\ UNCHANGED log /\ Exit(r, "ok")
    /\ UNCHANGED <<task, command, changed, blind, began, foreign>>

\* A forced replacement is a deletion, of what there is, and a creation.
ForceDelete(r) ==
    /\ KubectlIs(r, "replace --force")
    /\ IF object # Absent THEN Write(r, Absent) ELSE UNCHANGED log
    /\ pc' = [pc EXCEPT ![r] = "recreate"]
    /\ UNCHANGED <<task, command, changed, blind, began, ended, foreign>>

Recreate(r) == pc[r] = "recreate" /\ object = Absent /\ Write(r, r) /\ Succeed(r)

\* What a kubectl that fails may have done before: everything, if only its answer was
\* lost, nothing, or a part. A deletion scales down first.
MayHaveWritten(r, d) ==
    /\ d = r =>
          \/ object = Absent /\ (command[r] = "create" \/ pc[r] = "recreate")
          \/ object # Absent /\ command[r] = "replace"
    /\ d = Absent =>
          object # Absent /\ pc[r] = "command" /\ command[r] \in Deletions \cup {"replace --force"}
    /\ d = Halted => object # Absent /\ command[r] \in Deletions

CommandFailsUnseen(r) ==
    /\ pc[r] \in {"command", "recreate"}
    /\ UNCHANGED log \/ \E d \in {r, Absent, Halted} : MayHaveWritten(r, d) /\ Write(r, d)
    /\ Exit(r, "ok")
    /\ UNCHANGED <<task, command, changed, blind, began, foreign>>

\* kubectl fails, for what it finds or for any other reason. Its exit code is all that
\* _execute() sees of it: fail_json().
CommandFails(r) ==
    /\ pc[r] \in {"command", "recreate"}
    /\ UNCHANGED log \/ \E d \in {r, Absent, Halted} : MayHaveWritten(r, d) /\ Write(r, d)
    /\ Exit(r, "failed")
    /\ UNCHANGED <<task, command, changed, blind, began, foreign>>

\* Another user creates, replaces or deletes the resource.
ForeignWrite ==
    /\ foreign < MaxForeign /\ foreign' = foreign + 1
    /\ \E d \in {Absent, Foreign} : d # object /\ Write(Foreign, d)
    /\ UNCHANGED <<task, pc, command, changed, blind, began, ended>>

Next ==
    \/ \E r \in Runs :
          \/ Begin(r) \/ Get(r) \/ GetFails(r)
          \/ Create(r) \/ Replace(r) \/ Delete(r) \/ DeleteNothing(r)
          \/ ForceDelete(r) \/ Recreate(r) \/ CommandFails(r)
    \/ ForeignWrite

Spec == Init /\ [][Next]_vars

-----------------------------------------------------------------------------
(* Properties.                                                             *)

During(r) == {log[i].object : i \in began[r] .. ended[r]}
WritesOf(r) == {i \in 2 .. Len(log) : log[i].by = r}
Applied(r) == \E i \in WritesOf(r) : log[i].object = r

\* "present handles checking existence or creating, absent handles deleting, latest
\* handles creating or updating": a run that exits well saw or made what it was asked
\* for at some moment between its beginning and its end, whatever other clients did
\* between its two commands. Runs that could not look, or do not name the resource,
\* are not held to the states that do nothing when exists() is False.
GoalWitnessed ==
    \A r \in Runs : pc[r] = "ok" =>
        CASE task[r].state = "present" -> \E d \in During(r) : d # Absent
          [] task[r].state = "latest" -> Applied(r)
          [] task[r].state \in {"absent", "stopped"} ->
                Absent \in During(r) \/ r \in blind \/ ~task[r].resource
          [] task[r].state = "reloaded" ->
                Applied(r) \/ Absent \in During(r) \/ r \in blind \/ ~task[r].resource

\* What a run did does not stay hidden, and nothing is reported that was not done: a
\* run that wrote says "changed" or fails, also if kubectl failed after its work, and
\* one that says "changed" wrote. A failure says nothing of what was written, but a run
\* takes the resource away, or halts it, only if it was asked to or replaces by force.
ResultIsHonest ==
    \A r \in Runs :
        /\ Ended(r) /\ WritesOf(r) # {} => changed[r] \/ pc[r] = "failed"
        /\ changed[r] => pc[r] = "ok" /\ WritesOf(r) # {}
        /\ \A i \in WritesOf(r) :
              log[i].object # r =>
                 \/ task[r].state \in {"absent", "stopped"}
                 \/ log[i].object = Absent /\ command[r] = "replace --force"

WantsIt(r) == task[r].state \in {"present", "latest"}

\* Runs that all want the resource and all exit well do not undo one another, however
\* their looks, deletions and creations interleave: it is there in the end, and if one
\* of them wanted the latest definition, the old one is gone.
NobodyUndoesIt ==
    (\A r \in Runs : WantsIt(r) /\ pc[r] = "ok") /\ foreign = 0 =>
        /\ object # Absent
        /\ (\E r \in Runs : task[r].state = "latest") => \E r \in Runs : object = r

Untouched(r, q) == \A i \in ended[r] + 1 .. ended[q] : log[i].by = q

\* The same task once more, with nobody else at work, exits well and changes nothing,
\* for the states that describe one.
SecondRunIsQuiet ==
    \A r, q \in Runs :
        /\ r # q /\ task[r] = task[q] /\ ~task[r].force /\ task[r].resource
        /\ task[r].state \in {"present", "absent", "stopped"}
        /\ pc[r] = "ok" /\ Ended(q) /\ ended[r] <= began[q] /\ Untouched(r, q)
        /\ blind = {}
        => pc[q] = "ok" /\ ~changed[q]
=============================================================================
