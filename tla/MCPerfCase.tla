----------------------------- MODULE MCPerfCase -----------------------------
(* Finite instances of PerfCase for TLC. *)
EXTENDS PerfCase, TLC

\* The loop of the watch touches nothing but the stream: to let it read what was sent
\* before the cluster or the clock moves on loses no sequence of chunks. And what
\* the cluster does after a test is not looked at, nor what it does before, but for Init.
OneEventAtATime ==
    clusterVars' # clusterVars /\ UNCHANGED mainVars =>
        /\ wire = <<>> /\ ~HasLength /\ pc \notin {"start", "done", "dead"}
        /\ pc = "process" => open \/ watcher = "connect"

\* A test of the nodes is about commands that fail, not about the pods that count, and
\* containers that start again are left to the tests that wait for pods that started.
OtherTestsAreShort ==
    /\ case.command = "killnode" => Len(sent') <= 1
    /\ case.command # "scale" \/ case.checker # "creation" =>
          \A p \in PodNames : pods[p].is = "ready" => pods'[p].is # "running"
=============================================================================
