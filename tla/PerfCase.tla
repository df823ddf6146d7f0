------------------------------ MODULE PerfCase ------------------------------
(***************************************************************************)
(* The Kubernetes performance test driver: case.py starts a thread that    *)
(* watches the pods, runs a command that makes pods come or go (kubectl,   *)
(* killpod.py or killnode.py) and measures until as many pods as the test  *)
(* waits for are ready, or gone. The cluster goes its own way meanwhile.   *)
(***************************************************************************)
EXTENDS WatchStream, FiniteSets

CONSTANTS MaxPods,    \* bound on the pods of a behaviour, numbered by creation
          Nodes,
          Grace,      \* seconds that a pod gets to stop
          MaxClock,   \* bound on the seconds a test takes
          MaxSent     \* bound on the events of a watch

ASSUME PerfAssumption ==
    /\ MaxPods \in Nat /\ Nodes # {} /\ IsFiniteSet(Nodes)
    /\ Grace \in Nat /\ MaxClock \in Nat \ {0} /\ MaxSent \in Nat

VARIABLES
    case,      \* the test case file
    pods, nodes, replicas,   \* the cluster
    clock,     \* seconds since the second in which the test began
    watcher,   \* the thread of watchEvents()
    pc,        \* the main thread
    picked,    \* what killnode.py or killpod.py chose to kill
    definition,   \* NODE_DEFINITION, the nodes that this file names
    mishap,    \* (history) killnode.py or clear_command failed, which nobody noticed
    left,      \* "target" of processEvents()
    taken,     \* events taken from the queue
    counted,   \* (history) those that made a record
    end        \* end_time, 0 if there is none

clusterVars == <<pods, nodes, replicas, clock>>
mainVars == <<case, pc, picked, definition, mishap, left, taken, counted, end>>
vars == <<streamVars, clusterVars, watcher, mainVars>>

PodNames == 1 .. MaxPods
Stamps == 0 .. MaxClock + Grace
Nothing == [pods |-> {}, nodes |-> {}]
Pod == [is : {"none", "running", "ready", "stopping", "gone"},
        started : Stamps, deleted : Stamps, host : Nodes]
Events == [type : {"MODIFIED", "DELETED"}, pod : PodNames, full : BOOLEAN, stamp : Stamps]
Cases == [command : {"none", "scale", "killpod", "killnode"},
          checker : {"none", "creation", "deletion"},
          target : Nat, replicas : 0 .. MaxPods]

TypeOK ==
    /\ case \in Cases
    /\ pods \in [PodNames -> Pod] /\ nodes \in SUBSET Nodes
    /\ replicas \in 0 .. MaxPods /\ clock \in 0 .. MaxClock
    /\ watcher \in {"off", "connect", "watch", "dead"}
    /\ pc \in {"start", "command", "kill", "process", "stop", "done", "dead"}
    /\ picked.pods \in SUBSET PodNames /\ picked.nodes \in SUBSET Nodes
    /\ definition \in SUBSET Nodes /\ mishap \in BOOLEAN
    /\ left \in 0 .. MaxPods /\ end \in Stamps
    /\ sent \in Seq(Events) /\ taken \in 0 .. Len(put)
    /\ counted \in Seq(1 .. taken)

Live == {p \in PodNames : pods[p].is \in {"running", "ready", "stopping"}}
Kept == {p \in Live : pods[p].is # "stopping"}

Home == CHOOSE h \in Nodes : TRUE

\* suit.sh: a replication controller has its pods, others were deleted by the case before
\* and still have up to Grace seconds to stop, and a case waits for as many pods as its
\* command makes come or go. (bound) Pods that stop were deleted at once, there is
\* always a pod that may replace one, and other nodes only where the test is about nodes.
Init ==
    /\ StreamInit
    /\ \E n \in 0 .. MaxPods : \E m \in n .. MaxPods : \E stop \in 0 .. Grace :
          /\ pods = [p \in PodNames |->
                       [is |-> IF p <= n THEN "ready" ELSE IF p <= m THEN "stopping" ELSE "none",
                        started |-> 0, deleted |-> IF n < p /\ p <= m THEN stop ELSE 0,
                        host |-> Home]]
          /\ replicas = n
          /\ case \in {[command |-> "scale", checker |-> "creation",
                          replicas |-> r, target |-> r - n] : r \in n + 1 .. MaxPods}
                  \cup {[command |-> "scale", checker |-> "deletion",
                          replicas |-> r, target |-> n - r] : r \in 0 .. n - 1}
                  \cup [command : {"killpod", "killnode"}, checker : {"creation"},
                          replicas : {n} \ {MaxPods}, target : {1}]
                  \cup [command : {"scale"}, checker : {"none"},
                          replicas : {n} \ {MaxPods}, target : {1}]
                  \cup [command : {"none"}, checker : {"creation"},
                          replicas : {n} \ {MaxPods}, target : {1}]
    /\ nodes \in IF case.command = "killnode" THEN {Nodes, {Home}} ELSE {{Home}}
    /\ definition \in IF case.command = "killnode" THEN {{}} \cup {{h} : h \in Nodes} ELSE {{}}
    /\ clock = 0 /\ mishap = FALSE
    /\ watcher = "off" /\ pc = "start" /\ picked = Nothing
    /\ left = 0 /\ taken = 0 /\ counted = <<>> /\ end = 0

-----------------------------------------------------------------------------
(* The cluster (external). What no checker looks at makes no event here.   *)

Becomes(p, new) == pods' = [pods EXCEPT ![p] = new]

Modified(p, full) == [type |-> "MODIFIED", pod |-> p, full |-> full, stamp |-> pods'[p].started]
Deleted(p, full) == [type |-> "DELETED", pod |-> p, full |-> full, stamp |-> pods[p].deleted]

MaySend == Len(sent) < MaxSent /\ UNCHANGED <<nodes, replicas, clock, watcher, mainVars>>

\* The controller makes the pods that are missing, in order. One that runs is not ready yet.
Run(p) ==
    /\ pods[p].is = "none" /\ \A q \in 1 .. p - 1 : pods[q].is # "none"
    /\ Cardinality(Kept) < replicas
    /\ \E h \in nodes :
          Becomes(p, [pods[p] EXCEPT !.is = "running", !.started = clock, !.host = h])
    /\ UNCHANGED streamVars /\ MaySend

\* A pod that is ready may be modified again, for whatever reason.
Ready(p) ==
    /\ pods[p].is \in {"running", "ready"}
    /\ Becomes(p, [pods[p] EXCEPT !.is = "ready"])
    /\ Send(Modified(p, TRUE)) /\ MaySend

\* A container that failed is started again. (bound) Once a second.
Restart(p) ==
    /\ pods[p].is \in {"running", "ready"} /\ pods[p].started < clock
    /\ Becomes(p, [pods[p] EXCEPT !.is = "running", !.started = clock])
    /\ UNCHANGED streamVars /\ MaySend

MustStop(p) ==
    Cardinality(Kept) > replicas \/ pods[p].host \notin nodes \/ p \in picked.pods

\* The controller or the killer deletes a pod. Its deletionTimestamp is the time by which
\* it has to stop.
StopPod(p) ==
    /\ p \in Kept /\ MustStop(p)
    /\ Becomes(p, [pods[p] EXCEPT !.is = "stopping", !.deleted = clock + Grace])
    /\ Send(Modified(p, pods[p].is = "ready")) /\ MaySend

\* Whether its containers were seen to terminate is another matter.
Gone(p) ==
    /\ pods[p].is = "stopping"
    /\ Becomes(p, [pods[p] EXCEPT !.is = "gone"])
    /\ \E full \in BOOLEAN : Send(Deleted(p, full))
    /\ MaySend

Tick ==
    /\ pc # "start" /\ clock < MaxClock /\ clock' = clock + 1
    /\ UNCHANGED <<pods, nodes, replicas, streamVars, watcher, mainVars>>

Cluster == Tick \/ \E p \in PodNames : Run(p) \/ Ready(p) \/ Restart(p) \/ StopPod(p) \/ Gone(p)

-----------------------------------------------------------------------------
(* The thread that watches.                                                *)

Watch ==
    /\ watcher = "connect" /\ watcher' = "watch"
    /\ Open /\ UNCHANGED <<clusterVars, mainVars>>

\* The server does not answer, or the case names no api_server or namespace: case.py has
\* defaults for them, but the thread looks into the case itself.
WatchFails ==
    /\ watcher = "connect" /\ watcher' = "dead"
    /\ UNCHANGED <<streamVars, clusterVars, mainVars>>

WatchEnds == EndStream /\ UNCHANGED <<clusterVars, watcher, mainVars>>

ReadEvents ==
    /\ watcher = "watch" /\ (ReadByte \/ ReadChunk)
    /\ UNCHANGED <<clusterVars, watcher, mainVars>>

-----------------------------------------------------------------------------
(* The main thread.                                                        *)

\* sys.exit() without a command, then the finally clause raises: no end_time was assigned.
Start ==
    /\ pc = "start"
    /\ IF case.command = "none"
         THEN pc' = "dead" /\ UNCHANGED watcher
         ELSE /\ pc' = "command"
              /\ watcher' = IF case.checker = "none" THEN watcher ELSE "connect"
    /\ UNCHANGED <<streamVars, clusterVars, case, picked, definition, mishap>>
    /\ UNCHANGED <<left, taken, counted, end>>

\* The command has ended, with or without a target in its output. Without a checker the
\* finally clause raises, and for target 0 processEvents() returns None.
Await(target) ==
    /\ left' = target
    /\ pc' = IF case.checker = "none" THEN "dead" ELSE IF target = 0 THEN "stop" ELSE "process"
    /\ UNCHANGED <<streamVars, watcher, case, pods, clock, taken, counted, end>>

Scale ==
    /\ pc = "command" /\ case.command = "scale"
    /\ replicas' = case.replicas
    /\ UNCHANGED <<nodes, picked, definition, mishap>> /\ Await(case.target)

\* killpod.py gathers the pods, killnode.py the nodes and then the pods of one of them.
Gather ==
    /\ pc = "command" /\ pc' = "kill"
    /\ \/ case.command = "killpod" /\ \E p \in Live : picked' = [Nothing EXCEPT !.pods = {p}]
       \/ /\ case.command = "killnode" /\ Cardinality(nodes) > 1
          /\ \E n \in nodes : picked' = [Nothing EXCEPT !.nodes = {n}]
    /\ left' = Cardinality({p \in Live : pods[p].host \in picked'.nodes})
    /\ UNCHANGED <<streamVars, clusterVars, watcher, case, definition, mishap>>
    /\ UNCHANGED <<taken, counted, end>>

\* A cluster of one node is left alone.
GatherNothing ==
    /\ pc = "command" /\ case.command = "killnode" /\ Cardinality(nodes) <= 1
    /\ UNCHANGED <<nodes, replicas, picked, definition, mishap>> /\ Await(0)

KillPods ==
    /\ pc = "kill" /\ case.command = "killpod"
    /\ UNCHANGED <<nodes, replicas, picked, definition, mishap>> /\ Await(case.target)

\* Nobody looks at the exit codes of kubectl and of template.sh, which writes the file:
\* the node may be left, and the file as it was, or empty. And without an answer to the
\* query for the pods the script raises once the node is gone, before it writes the
\* file and the target.
KillNode ==
    /\ pc = "kill" /\ case.command = "killnode"
    /\ nodes' \in {nodes, nodes \ picked.nodes}
    /\ \/ definition' = picked.nodes /\ UNCHANGED mishap /\ Await(left)
       \/ definition' \in {definition, {}} /\ mishap' = TRUE /\ Await(left)
       \/ UNCHANGED definition /\ mishap' = TRUE /\ Await(case.target)
    /\ UNCHANGED <<replicas, picked>>

\* communicate() does not return the exit code: a command that fails before it changes
\* anything is not noticed. (killpod.py exits with 1 if there are not enough pods, and
\* killnode.py takes a list of nodes that kubectl did not give for an empty one.)
CommandFails ==
    /\ pc \in {"command", "kill"}
    /\ picked' = Nothing /\ UNCHANGED <<nodes, replicas, definition, mishap>>
    /\ \/ Await(case.target)
       \/ pc = "command" /\ case.command = "killnode" /\ Await(0)

CheckedType == IF case.checker = "creation" THEN "MODIFIED" ELSE "DELETED"

\* Every container is ready, or is seen to have terminated.
MatchesAnyTime(e) == e.full /\ e.type = CheckedType

\* Stamps are whole seconds: the second of begin_time itself is before it.
Matches(e) == MatchesAnyTime(e) /\ e.stamp > 0

LastOf(stamp) == stamp

LaterOf(stamp) == IF stamp > end THEN stamp ELSE end

AfterRecordGoOn(n) == "process"

AfterRecordOneLess(n) == IF n <= 1 THEN "stop" ELSE "process"

AfterRecord(n) == IF n = 0 THEN "stop" ELSE "process"

EventsQueued == taken + 1 < Len(put)

EventQueued == taken < Len(put)

\* get_nowait() polls for ever.
ProcessEvent ==
    /\ pc = "process" /\ EventQueued /\ taken' = taken + 1
    /\ LET counts == IsWhole(put[taken']) /\ Matches(sent[taken']) IN
         \/ /\ counts
            /\ left' = left - 1 /\ end' = LaterOf(sent[taken'].stamp)
            /\ counted' = Append(counted, taken')
            /\ pc' = AfterRecord(left')
         \/ ~counts /\ UNCHANGED <<pc, left, end, counted>>
         \/ \* the part of an event may be enough to match its type: json.loads() raises
            /\ put[taken'] # <<>> /\ ~IsWhole(put[taken']) /\ sent[taken'].type = CheckedType
            /\ pc' = "dead" /\ UNCHANGED <<left, end, counted>>
    /\ UNCHANGED <<streamVars, clusterVars, watcher, case, picked, definition, mishap>>

ClearedIfMeasured == IF end > 0 THEN nodes \cup definition ELSE nodes

\* The clear_command of the node test: create the node that the file names.
Cleared == nodes \cup definition

\* The finally clause. Nobody looks at the exit code of clear_command.
Stop ==
    /\ pc = "stop" /\ pc' = "done"
    /\ \/ nodes' = Cleared /\ UNCHANGED mishap
       \/ case.command = "killnode" /\ mishap' = TRUE /\ UNCHANGED nodes
    /\ UNCHANGED <<streamVars, pods, replicas, clock, watcher>>
    /\ UNCHANGED <<case, picked, definition, left, taken, counted, end>>

Command == Scale \/ Gather \/ GatherNothing \/ KillPods \/ KillNode

Next == Cluster \/ Watch \/ WatchFails \/ WatchEnds \/ ReadEvents
        \/ Start \/ Command \/ CommandFails \/ ProcessEvent \/ Stop

Spec == Init /\ [][Next]_vars

\* Both threads run, and commands end. The cluster, the server and the network owe nothing.
FairSpec == /\ Spec
            /\ WF_vars(ReadEvents) /\ WF_vars(Start) /\ WF_vars(Command)
            /\ WF_vars(ProcessEvent) /\ WF_vars(Stop)

-----------------------------------------------------------------------------
(* Properties.                                                             *)

Counted == {counted[i] : i \in 1 .. Len(counted)}
Matching == {i \in 1 .. Len(sent) : Matches(sent[i])}
WholeTaken == {i \in 1 .. taken : IsWhole(put[i])}

\* The time that is logged is that of the last of the first events that count, as many
\* as the test waits for: none is skipped or counted twice on its way through the
\* stream, the queue and the checker, and the clock of the driver does not enter.
EndIsTheLast ==
    /\ Counted = Matching \cap WholeTaken
    /\ \A i \in Counted : sent[i].stamp <= end
    /\ counted # <<>> => \E i \in Counted : sent[i].stamp = end
    /\ case.command \in {"scale", "killpod"} /\ left = 0 /\ pc \in {"stop", "done"} =>
          Len(counted) = case.target

\* "checkDeletionEvent": when a test that waits for pods to go has ended, as many pods as
\* it waited for are gone, whatever pods come, restart or are modified meanwhile: none that
\* merely stops, and none twice. (They may be pods that an earlier case deleted.)
DeletedPodsAreGone ==
    case.checker = "deletion" /\ pc \in {"stop", "done"} =>
        Cardinality({p \in PodNames : pods[p].is = "gone"}) >= case.target

\* A test ends once the events it waits for were sent, if the watch goes on.
EnoughEventsEnd ==
    pc = "process" /\ Cardinality(Matching) >= Len(counted) + left ~> pc # "process" \/ ~open

\* "clear_command": the node that a test killed is there again after the test, also if
\* there were no pods to wait for, unless killnode.py or the clear_command itself failed
\* unnoticed, or an event that was cut off ended the test.
NodeComesBack ==
    /\ pc = "done" /\ ~mishap => picked.nodes \subseteq nodes
    /\ pc = "dead" /\ ~mishap => picked.nodes \subseteq nodes \/ (~open /\ taken = Len(put))
=============================================================================
