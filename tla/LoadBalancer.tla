---------------------------- MODULE LoadBalancer ----------------------------
(***************************************************************************)
(* docker/haproxy/1.0.0/loadbalancer.py with reload.sh: a watch on the     *)
(* Endpoints of the Kubernetes API drives a debounced regeneration of the  *)
(* haproxy configuration.  Every event read by main() cancels the pending  *)
(* threading.Timer and starts a new one; a timer that fires runs           *)
(* reloadbalancer() in a thread of its own.  cancel() does nothing to a    *)
(* timer that already fired, so reloads may overlap: they share the        *)
(* configuration file and /var/run/haproxy.pid.                            *)
(*                                                                         *)
(* The address lists are abstracted to the revision of the Endpoints       *)
(* object they come from; the text of the configuration to a function from *)
(* services to revisions, 0 standing for "no backend for this service".    *)
(***************************************************************************)
EXTENDS Naturals, Sequences, FiniteSets

CONSTANTS Services,    \* names a service of the default namespace can have
          MaxRev,      \* bound on the revisions of the API server
          MaxReloads   \* bound on the chunks of the watch, thus on the timers

ASSUME BoundsAssumption ==
    /\ IsFiniteSet(Services)
    /\ MaxRev \in Nat \ {0}
    /\ MaxReloads \in Nat
    /\ Cardinality(Services) <= MaxReloads

VARIABLES
    svc,         \* the services the API server lists
    ep,          \* revision of the Endpoints object of a service, 0: none
    unready,     \* services whose Endpoints object has no ready address
    rev,         \* revision of the API server
    svcRev,      \* (history) revision of the last change of svc
    connected,   \* the watch connection is open
    chunks,      \* revisions of the events sent on the watch, not yet read
    handled,     \* chunks main() has read: the timer made last has this number
    pc,          \* what each timer or reload thread does next
    trig,        \* (history) revision of the event that made the timer
    todo,        \* services whose endpoints the thread has yet to GET
    snap,        \* the services and endpoints the thread has read
    oldpid,      \* the pid reload.sh read, 0: no pid file
    image,       \* the reload whose configuration a haproxy runs, 0: a torn one
    file,        \* the configuration file: last touched by "of", and its state
    pidfile,     \* /var/run/haproxy.pid, 0: absent
    serving,     \* the haproxy processes accepting connections
    overlapped   \* (history) reloads that ran while another one was running

apiVars    == <<svc, ep, unready, rev, svcRev>>
watchVars  == <<connected, chunks, handled>>
threadVars == <<trig, todo, snap, oldpid, image>>
proxyVars  == <<pidfile, serving>>
vars == <<apiVars, watchVars, pc, threadVars, file, proxyVars, overlapped>>

\* A reload, and the haproxy it starts, bears the number of its timer.
Reloads == 1 .. MaxReloads

Active(t) == pc[t] \in {"list", "endpoints", "open", "write", "close",
                        "pid", "parse", "takeover"}
Readable(s) == ep[s] # 0 /\ s \notin unready

TypeOK ==
    /\ svc \in SUBSET Services /\ unready \in SUBSET Services
    /\ rev \in 1 .. MaxRev /\ svcRev \in 1 .. MaxRev
    /\ ep \in [Services -> 0 .. MaxRev]
    /\ connected \in BOOLEAN
    /\ chunks \in Seq(Nat)
    /\ handled \in Nat /\ handled + Len(chunks) <= MaxReloads
    /\ pc \in [Reloads -> {"none", "timer", "cancelled", "list", "endpoints",
                           "open", "write", "close", "pid", "parse",
                           "takeover", "done", "failed"}]
    /\ trig \in [Reloads -> Nat]
    /\ todo \in [Reloads -> SUBSET Services]
    /\ snap \in [Reloads -> [Services -> 0 .. MaxRev]]
    /\ oldpid \in [Reloads -> {0} \cup Reloads]
    /\ image \in [Reloads -> {0} \cup Reloads]
    /\ file \in [of : {0} \cup Reloads, state : {"empty", "torn", "whole"}]
    /\ pidfile \in {0} \cup Reloads
    /\ serving \in SUBSET Reloads
    /\ overlapped \in SUBSET Reloads

Init ==
    /\ svc \in SUBSET Services /\ unready = {}
    /\ rev = 1 /\ svcRev = 1
    /\ ep = [s \in Services |-> IF s \in svc THEN 1 ELSE 0]
    \* A watch without resourceVersion starts with every existing object.
    /\ connected = TRUE
    /\ chunks = [i \in 1 .. Cardinality(svc) |-> 1]
    /\ handled = 0
    /\ pc = [t \in Reloads |-> "none"]
    /\ trig = [t \in Reloads |-> 0]
    /\ todo = [t \in Reloads |-> {}]
    /\ snap = [t \in Reloads |-> [s \in Services |-> 0]]
    /\ oldpid = [t \in Reloads |-> 0]
    /\ image = [t \in Reloads |-> 0]
    /\ file = [of |-> 0, state |-> "whole"]    \* the haproxy.cfg of the image
    /\ pidfile = 0 /\ serving = {} /\ overlapped = {}

-----------------------------------------------------------------------------
(* The API server, its endpoints controller and the watch (external).      *)

ServiceChange(new) ==
    /\ rev < MaxRev
    /\ rev' = rev + 1 /\ svcRev' = rev + 1 /\ svc' = new
    /\ UNCHANGED <<ep, unready, watchVars, pc, threadVars, file, proxyVars, overlapped>>

CreateService(s) == s \notin svc /\ ServiceChange(svc \cup {s})
DeleteService(s) == s \in svc /\ ServiceChange(svc \ {s})

\* (bound) the chunks of a behaviour, read or not, have a timer each.
Room == handled + Len(chunks) < MaxReloads

\* Only a change of an Endpoints object is an event of the watch.
EndpointsChange(s, r) ==
    /\ rev < MaxRev /\ Room
    /\ rev' = rev + 1 /\ ep' = [ep EXCEPT ![s] = r]
    /\ chunks' = IF connected THEN Append(chunks, rev + 1) ELSE chunks
    /\ UNCHANGED <<svc, svcRev, connected, handled, pc, threadVars, file,
                   proxyVars, overlapped>>

SyncEndpoints(s) ==
    /\ s \in svc
    /\ EndpointsChange(s, rev + 1)
    /\ unready' \in {unready \ {s}, unready \cup {s}}

CollectEndpoints(s) ==
    /\ s \notin svc /\ ep[s] # 0
    /\ EndpointsChange(s, 0)
    /\ unready' = unready \ {s}

\* The server ends the watch: in order, with a chunk of length zero, or by a
\* broken connection that loses what was in flight.  main() then reads ''
\* for ever and never asks for another watch.
WatchEnds ==
    /\ connected /\ connected' = FALSE
    /\ \/ Room /\ chunks' = Append(chunks, rev)
       \/ \E k \in 0 .. Len(chunks) : chunks' = SubSeq(chunks, 1, k)
    /\ UNCHANGED <<apiVars, handled, pc, threadVars, file, proxyVars, overlapped>>

-----------------------------------------------------------------------------
(* main(): one chunk of the watch. cancel() only stops a waiting timer.    *)

KeepTimer(p) == p

CancelTimer(p) ==
    [t \in Reloads |-> IF t = handled /\ p[t] = "timer" THEN "cancelled" ELSE p[t]]

ForgetStart(p) == CancelTimer(p)

Rearm(p) == [CancelTimer(p) EXCEPT ![handled + 1] = "timer"]

HandleChunk ==
    /\ chunks # <<>>
    /\ chunks' = Tail(chunks)
    /\ handled' = handled + 1
    /\ pc' = Rearm(pc)
    /\ trig' = [trig EXCEPT ![handled + 1] = Head(chunks)]
    /\ UNCHANGED <<apiVars, connected, todo, snap, oldpid, image, file,
                   proxyVars, overlapped>>

-----------------------------------------------------------------------------
(* reloadbalancer(), in the thread of the timer t.                         *)

Goto(t, from, to) == pc[t] = from /\ pc' = [pc EXCEPT ![t] = to]

TimerFires(t) ==
    /\ Goto(t, "timer", "list")
    /\ LET others == {u \in Reloads : Active(u)} IN
         overlapped' = IF others = {} THEN overlapped
                                      ELSE overlapped \cup others \cup {t}
    /\ UNCHANGED <<apiVars, watchVars, threadVars, file, proxyVars>>

\* loadservices(): the list first, then one GET per service of that list.
ListServices(t) ==
    /\ Goto(t, "list", IF svc = {} THEN "open" ELSE "endpoints")
    /\ todo' = [todo EXCEPT ![t] = svc]
    /\ UNCHANGED <<apiVars, watchVars, trig, snap, oldpid, image, file,
                   proxyVars, overlapped>>

CachedEndpoints(t, s) ==
    IF t > 1 /\ snap[t - 1][s] # 0 THEN snap[t - 1][s] ELSE ep[s]

LoadEndpoints(t, s) == ep[s]

ReadEndpoints(t, s) ==
    /\ s \in todo[t] /\ Readable(s)
    /\ Goto(t, "endpoints", IF todo[t] = {s} THEN "open" ELSE "endpoints")
    /\ todo' = [todo EXCEPT ![t] = @ \ {s}]
    /\ snap' = [snap EXCEPT ![t][s] = LoadEndpoints(t, s)]
    /\ UNCHANGED <<apiVars, watchVars, trig, oldpid, image, file, proxyVars, overlapped>>

\* A service without endpoints or addresses is a KeyError, a request may fail:
\* the exception ends the thread and nobody tries again.
ReadFails(t) ==
    /\ pc[t] \in {"list", "endpoints"}
    /\ pc' = [pc EXCEPT ![t] = "failed"]
    /\ UNCHANGED <<apiVars, watchVars, threadVars, file, proxyVars, overlapped>>

OpenConfig(t) ==
    /\ Goto(t, "open", "write")
    /\ file' = [of |-> t, state |-> "empty"]
    /\ UNCHANGED <<apiVars, watchVars, threadVars, proxyVars, overlapped>>

\* write() only fills a buffer, or flushes a part of a larger configuration.
WriteConfig(t) ==
    /\ Goto(t, "write", "close")
    /\ file' \in {file, [of |-> t, state |-> "torn"]}
    /\ UNCHANGED <<apiVars, watchVars, threadVars, proxyVars, overlapped>>

UnclosedFile(t) == {file}

\* close() writes the rest at this thread's own offset: over what another
\* thread put there since, the result may be neither configuration.
ClosedFile(t) ==
    {[of |-> t, state |-> st] : st \in IF file.of = t THEN {"whole"} ELSE {"whole", "torn"}}

CloseConfig(t) ==
    /\ Goto(t, "close", "pid")
    /\ file' \in ClosedFile(t)
    /\ UNCHANGED <<apiVars, watchVars, threadVars, proxyVars, overlapped>>

ReadPid(t) ==
    /\ Goto(t, "pid", "parse")
    /\ oldpid' = [oldpid EXCEPT ![t] = pidfile]
    /\ UNCHANGED <<apiVars, watchVars, trig, todo, snap, image, file,
                   proxyVars, overlapped>>

\* haproxy -f: an empty file is refused, a torn one may pass for a valid one.
ParseConfig(t) ==
    /\ \/ /\ file.state # "empty"
          /\ Goto(t, "parse", "takeover")
          /\ image' = [image EXCEPT ![t] = IF file.state = "whole" THEN file.of ELSE 0]
       \/ /\ file.state # "whole"
          /\ Goto(t, "parse", "failed")
          /\ UNCHANGED image
    /\ UNCHANGED <<apiVars, watchVars, trig, todo, snap, oldpid, file,
                   proxyVars, overlapped>>

WithoutSf(t) == serving

RestartOld(t) == serving \cup {oldpid[t]}

Finish(t) == serving \ {oldpid[t]}

\* haproxy -p -sf: bind, tell the old process to finish, record the new pid.
TakeOver(t) ==
    /\ Goto(t, "takeover", "done")
    /\ serving' = Finish(t) \cup {t}
    /\ pidfile' = t
    /\ UNCHANGED <<apiVars, watchVars, threadVars, file, overlapped>>

-----------------------------------------------------------------------------
Api == \/ \E s \in Services : \/ CreateService(s) \/ DeleteService(s)
                              \/ SyncEndpoints(s) \/ CollectEndpoints(s)
       \/ WatchEnds

Thread(t) == \/ ListServices(t) \/ ReadFails(t)
             \/ \E s \in Services : ReadEndpoints(t, s)
             \/ OpenConfig(t) \/ WriteConfig(t) \/ CloseConfig(t)
             \/ ReadPid(t) \/ ParseConfig(t) \/ TakeOver(t)

Next == Api \/ HandleChunk \/ \E t \in Reloads : TimerFires(t) \/ Thread(t)

Spec == Init /\ [][Next]_vars

\* main() is never kept from reading, a started timer and a runnable thread
\* are run by the interpreter; the API server owes nothing.
Fairness == /\ WF_vars(HandleChunk)
            /\ \A t \in Reloads : WF_vars(TimerFires(t)) /\ WF_vars(Thread(t))

FairSpec == Spec /\ Fairness

-----------------------------------------------------------------------------
(* Properties.                                                             *)

\* The debounce: of all the timers main() ever made only the last can still
\* be waiting, whatever the order of events, firings and cancellations.
OnePendingTimer ==
    \A t \in Reloads : pc[t] = "timer" => t = handled

\* A configuration is never older than the event that asked for it: an
\* Endpoints object that is current and was already so when the event was
\* sent is the one the thread has read.
SnapshotNotStale ==
    \A t \in Reloads, s \in Services :
        snap[t][s] # 0 /\ ep[s] # 0 /\ ep[s] <= trig[t] => snap[t][s] = ep[s]

\* A haproxy started by a reload that ran alone runs exactly the
\* configuration of that reload, never a torn one or another thread's.
CleanReloadServesItsSnapshot ==
    \A t \in Reloads :
        pc[t] \in {"takeover", "done"} /\ t \notin overlapped => image[t] = t

\* As long as reloads do not overlap no haproxy is orphaned: the only process
\* that accepts connections is the one in the pid file, the next reload's -sf.
NoOrphanWithoutOverlap ==
    overlapped = {} => serving \subseteq {pidfile}

Target == [s \in Services |-> IF s \in svc THEN ep[s] ELSE 0]

\* When the watch is alive and drained, the last reload succeeded and ran
\* alone, and the list of services did not change after the last event, the
\* configuration file describes the API server as it is now.
CurrentWhenQuiet ==
    \A t \in Reloads :
        /\ t = handled /\ pc[t] = "done" /\ t \notin overlapped
        /\ connected /\ chunks = <<>> /\ svcRev <= trig[t]
        => file = [of |-> t, state |-> "whole"] /\ snap[t] = Target

\* Every event main() reads is followed by the end, in success or failure, of
\* a reload that started after the event was read.
EventsAreReloaded ==
    \A n \in Reloads :
        handled >= n ~> \E m \in Reloads : m >= n /\ pc[m] \in {"done", "failed"}

\* The timer alone: of the events read, those some started reload answers.
Fired(t) == pc[t] \notin {"none", "timer", "cancelled"}

Covered == CHOOSE n \in 0 .. handled :
              /\ n = 0 \/ Fired(n)
              /\ \A m \in n + 1 .. handled : ~Fired(m)

Debounced == INSTANCE Debounce WITH seen <- handled, covered <- Covered

\* main() and its timers coalesce events without losing one: a reload that
\* starts does so after every event read so far, and a due reload starts.
ImplementsDebounce == Debounced!FairSpec
=============================================================================
