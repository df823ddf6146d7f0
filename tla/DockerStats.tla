----------------------------- MODULE DockerStats -----------------------------
(***************************************************************************)
(* prod/k8s_prod/roles/docker/files/dockerplugin.py: collectd calls        *)
(* read_callback() again and again; for every running container the plugin *)
(* keeps a ContainerStats thread that consumes the stats stream of the     *)
(* Docker daemon, and read_callback() takes the newest sample from it.     *)
(* A sample is abstracted to its presence.                                 *)
(***************************************************************************)
EXTENDS Naturals, FiniteSets

CONSTANTS Containers,   \* ids of containers
          MaxThreads,   \* bound on the threads the plugin ever starts
          NoContainer   \* read_callback() is not waiting for a sample

ASSUME ContainerAssumption == NoContainer \notin Containers
ASSUME ThreadAssumption == MaxThreads \in Nat

VARIABLES
    up,        \* containers the daemon reports as 'Up'
    registry,  \* DockerPlugin.stats: the thread of a container, 0: no entry
    call,      \* where read_callback() is
    listed,    \* its list of running containers not served yet
    cur,       \* the container whose sample it waits for
    started,   \* threads started so far
    of,        \* ContainerStats._container
    pc,        \* what run() does next
    stop,      \* ContainerStats.stop
    feed,      \* ContainerStats._feed is open
    failures,  \* consecutive failures of run()
    cached     \* ContainerStats._stats is there

callVars   == <<registry, call, listed, cur, started, of>>
threadVars == <<pc, feed, failures, cached>>
vars == <<up, callVars, threadVars, stop>>

Threads == 1 .. MaxThreads

TypeOK ==
    /\ up \in SUBSET Containers
    /\ registry \in [Containers -> 0 .. started]
    /\ call \in {"idle", "drop", "loop"}
    /\ listed \in SUBSET Containers
    /\ cur \in Containers \cup {NoContainer}
    /\ started \in 0 .. MaxThreads
    /\ of \in [Threads -> Containers \cup {NoContainer}]
    /\ pc \in [Threads -> {"check", "open", "next", "sleep", "ended"}]
    /\ stop \in [Threads -> BOOLEAN]
    /\ feed \in [Threads -> BOOLEAN]
    /\ failures \in [Threads -> 0 .. 4]
    /\ cached \in [Threads -> BOOLEAN]

Init ==
    /\ up \in SUBSET Containers
    /\ registry = [c \in Containers |-> 0]
    /\ call = "idle" /\ listed = {} /\ cur = NoContainer
    /\ started = 0
    /\ of = [t \in Threads |-> NoContainer]
    /\ pc = [t \in Threads |-> "check"]
    /\ stop = [t \in Threads |-> FALSE]
    /\ feed = [t \in Threads |-> FALSE]
    /\ failures = [t \in Threads |-> 0]
    /\ cached = [t \in Threads |-> FALSE]

-----------------------------------------------------------------------------
(* Containers start, stop and come back under the same id (external).      *)

ContainerChanges(c) ==
    /\ up' = IF c \in up THEN up \ {c} ELSE up \cup {c}
    /\ UNCHANGED <<callVars, threadVars, stop>>

-----------------------------------------------------------------------------
(* read_callback().                                                        *)

ListContainers ==
    /\ call = "idle"
    /\ listed' = up /\ call' = "drop"
    /\ UNCHANGED <<up, registry, cur, started, of, threadVars, stop>>

ForgetStop(gone) == stop

StopThreads(gone) ==
    [t \in Threads |-> stop[t] \/ \E c \in gone : registry[c] = t]

\* Threads of containers that do not run any more are stopped and forgotten.
DropGone ==
    /\ call = "drop" /\ call' = "loop"
    /\ LET gone == {c \in Containers : registry[c] # 0} \ listed IN
         /\ stop' = StopThreads(gone)
         /\ registry' = [c \in Containers |-> IF c \in gone THEN 0 ELSE registry[c]]
    /\ UNCHANGED <<up, listed, cur, started, of, threadVars>>

NeedsThread(c) == registry[c] = 0

\* A container that has no thread yet gets one, which starts at once.
Serve(c) ==
    /\ call = "loop" /\ cur = NoContainer /\ c \in listed
    /\ cur' = c
    /\ \/ /\ NeedsThread(c) /\ started < MaxThreads
          /\ started' = started + 1
          /\ registry' = [registry EXCEPT ![c] = started + 1]
          /\ of' = [of EXCEPT ![started + 1] = c]
       \/ ~NeedsThread(c) /\ UNCHANGED <<started, registry, of>>
    /\ UNCHANGED <<up, call, listed, threadVars, stop>>

\* ContainerStats.stats spins until _stats is there; then it is dispatched.
TakeStats ==
    /\ cur # NoContainer /\ cached[registry[cur]]
    /\ cur' = NoContainer /\ listed' = listed \ {cur}
    /\ UNCHANGED <<up, registry, call, started, of, threadVars, stop>>

CallReturns ==
    /\ call = "loop" /\ cur = NoContainer /\ listed = {}
    /\ call' = "idle"
    /\ UNCHANGED <<up, registry, listed, cur, started, of, threadVars, stop>>

-----------------------------------------------------------------------------
(* ContainerStats.run() of thread t.                                       *)

Goto(t, from, to) ==
    t <= started /\ pc[t] = from /\ pc' = [pc EXCEPT ![t] = to]

ToldToStop(t) == stop[t]

CheckStop(t) ==
    /\ Goto(t, "check", IF ToldToStop(t) THEN "ended" ELSE IF feed[t] THEN "next" ELSE "open")
    /\ UNCHANGED <<up, callVars, stop, feed, failures, cached>>

OpenFeed(t) ==
    /\ Goto(t, "open", "next")
    /\ feed' = [feed EXCEPT ![t] = TRUE]
    /\ UNCHANGED <<up, callVars, stop, failures, cached>>

ResetCount(t) == [failures EXCEPT ![t] = 0]

NextStats(t) ==
    /\ of[t] \in up
    /\ Goto(t, "next", "check")
    /\ cached' = [cached EXCEPT ![t] = TRUE]
    /\ failures' = ResetCount(t)
    /\ UNCHANGED <<up, callVars, stop, feed>>

\* Opening or reading the stream may fail at any time: the daemon is restarted,
\* the client times out, the container is gone.
ReadFails(t) ==
    /\ Goto(t, pc[t], "sleep") /\ pc[t] \in {"open", "next"}
    /\ UNCHANGED <<up, callVars, stop, feed, failures, cached>>

NeverTooMany(n) == FALSE

TooMany(n) == n > 3

NotCounted(t) == failures[t]

Counted(t) == failures[t] + 1

AfterSleep(t) ==
    /\ Goto(t, "sleep", "check")
    /\ failures' = [failures EXCEPT ![t] = Counted(t)]
    /\ stop' = [stop EXCEPT ![t] = @ \/ TooMany(Counted(t))]
    /\ feed' = [feed EXCEPT ![t] = FALSE]
    /\ UNCHANGED <<up, callVars, cached>>

-----------------------------------------------------------------------------
Callback == ListContainers \/ DropGone \/ (\E c \in Containers : Serve(c))
            \/ TakeStats \/ CallReturns

Thread(t) == CheckStop(t) \/ OpenFeed(t) \/ NextStats(t) \/ ReadFails(t) \/ AfterSleep(t)

Next == Callback \/ (\E c \in Containers : ContainerChanges(c))
        \/ \E t \in Threads : Thread(t)

Spec == Init /\ [][Next]_vars

\* collectd calls at every interval; every thread is scheduled, and a read of
\* the stream ends at the latest with the timeout of the docker client.
Fairness == WF_vars(Callback) /\ \A t \in Threads : WF_vars(Thread(t))

FairSpec == Spec /\ Fairness

-----------------------------------------------------------------------------
(* Properties.                                                             *)

\* No thread is leaked: one that was not told to stop is the registered thread
\* of its container, so there is at most one per container, and a registered
\* thread reads the container it is registered for.
NoLeakedThread ==
    /\ \A t \in 1 .. started : ~stop[t] => registry[of[t]] = t
    /\ \A c \in Containers : registry[c] # 0 => of[registry[c]] = c

\* A thread that is still registered has stopped for one reason only: its
\* fourth failure in a row. (The comment at dockerplugin.py:217-218 says "After three
\* consecutive failures, we'll stop the thread", but line 223 asks for more than three.)
StopHasACause ==
    \A c \in Containers :
        registry[c] # 0 => (stop[registry[c]] <=> failures[registry[c]] = 4)

\* The busy wait of read_callback() for a sample ends or its thread gives up:
\* failures cannot go on for ever.
WaitEndsOrThreadGivesUp ==
    \A c \in Containers :
        cur = c ~> cur # c \/ (registry[c] # 0 /\ stop[registry[c]])

-----------------------------------------------------------------------------
(* What the comments of the source say and the code does not do.           *)

\* "If the container is still there, we'll spin up a new stats gathering
\* thread the next time read_callback() gets called": read_callback() never
\* goes on to a container with a thread that had already ended.
DeadThreadIsReplaced ==
    [][\A c \in Containers : cur # c /\ cur' = c => pc'[registry'[c]] # "ended"]_vars

\* "Wait, if needed, for stats to be available and return the most recently
\* read stats data": the wait of read_callback() ends.
StatsReturned == \A c \in Containers : cur = c ~> cur # c
=============================================================================
