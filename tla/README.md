# Verification of mesos-poc

mesos-poc is an operations repository: Ansible roles, Dockerfiles and Salt states, and between them a
number of small programs that do the real work. This directory models those programs in TLA+,
model-checks them with TLC and proves properties of the most important ones with TLAPS. Every definition
is translated from the code; `PROJECT.json` names the lines for each of them.

Run from this directory:

    tlc -workers 2 -config LoadBalancer_safety.cfg MCLoadBalancer.tla     # any .cfg with its MC module
    tlapm LoadBalancerProofs.tla                                          # any module named *Proofs

## 1. Inventory

| component | code | state it keeps | operations | what makes it correct |
|---|---|---|---|---|
| haproxy load balancer | `docker/haproxy/1.0.0/loadbalancer.py`, `reload.sh` | watch stream, the newest `threading.Timer`, the configuration file, the pid file, running haproxy processes | read a chunk of the watch, re-arm the timer, reload (list, GET, write, start haproxy) | one timer pending; no stale or torn configuration in service; no orphaned haproxy; every event answered by a reload |
| boot queue receiver | `vm_booting/poc/Queue.py` 14-169, `main.py`, `poc/Ansible.py` | connection, channel, `_closing`, the queue of the broker | set-up callbacks, run a play, acknowledge, stop, react to closed channel or connection | no job lost, repeated only after redelivery, in order; ends when told to |
| boot queue publisher | `vm_booting/poc/Queue.py` 172-386 | connection, `_message_number`, `_deliveries`, counters, the pending timeout | set-up callbacks, publish, handle confirmation, reopen, stop | one publishing chain; counters that add up; unconfirmed means unconfirmed |
| collectd docker plugin | `prod/k8s_prod/roles/docker/files/dockerplugin.py` | registry of threads, per thread: stop flag, feed, failures, cached sample | `read_callback()`, `ContainerStats.run()` | no leaked thread; waiting ends; threads stop for a cause |
| kube Ansible module | `prod/k8s_prod/library/kube.py` | none of its own, the resources of the cluster | present, absent, latest, reloaded, stopped | check-then-act against other clients; idempotence |
| performance test driver | `tools/k8s-performance/case.py`, `killnode.py`, `killpod.py`, `*.sh` | event queue, pods left | watch thread, start command, count down | every event counted once; a test of deletions ends when the pods are gone; the test ends; a killed node comes back |
| MySQL containers | `docker/mysql-master/0.0.3`, `docker/mysql-slave/0.0.2` | data directory, users, replication | initialise, create the replication user, start the slave | a set-up that ended is complete; the master gets into service again after a crash |
| demo site | `demo/demosite` | none, the two databases | write to the master, read from the slave | a read may be stale, a write may not be lost |
| consul rolling restart | `prod/k8s_prod/roles/consul/files` | the lock, the servers | lock, wait for a leader, restart | one server down at a time |
| container start-up | `docker/k8s`, `docker/km`, etcd, zookeeper | processes | start, poll, time out | order of the start |

The remaining parts keep no state that a step of theirs changes (metric readers for Mesos and ZooKeeper,
`HttpServer.py`, registry test scripts), are declarative (roles, templates, Salt states), or are copies of
third-party code (urlgrabber, get-pip). They are listed in `PROJECT.json` as not modelled.

How the components interact:

* `loadbalancer.py` and `case.py` read a chunked watch of the Kubernetes API; the load balancer reacts by
  further requests to the same API, so it reads later states than the one the event announced.
* Reload threads of the load balancer interact through the configuration file and `/var/run/haproxy.pid`
  only, without a lock.
* Publisher and Receiver interact through a RabbitMQ queue; each of them is one thread, whose pika callbacks
  never interrupt one another, but a play blocks the loop while the network and the broker go on.
* collectd calls `read_callback()` in one thread; every container has another one; they share
  `DockerPlugin.stats`, `ContainerStats.stop` and `ContainerStats._stats` without a lock.
* The slave container and the demo site depend on users that the master creates.

What is hard here: overlapping timer threads, check-then-act on files and resources, acknowledgements on
broken connections, daemon threads that outlive their reason, crashes between the steps of a shell script,
locks released before the work. `PROJECT.json` lists these hazards at their lines, with the properties
that cover them.

## 2. Order of the work

The modules were written in this order, the most concurrent program first: `Debounce` and `LoadBalancer`,
`DockerStats`, `Receiver`, `Publisher`; then `KubeModule`, `WatchStream` and `PerfCase`, `AtLeastOnce` and
`JobQueue`, which composes `Publisher` and `Receiver`, and `MysqlInit`. Proofs are in a module of their
own beside the component's (`LoadBalancerProofs`, `DockerStatsProofs`, `PublisherProofs`, `ReceiverProofs`,
`JobQueueProofs`, `KubeModuleProofs`, `MysqlInitProofs`, `PerfCaseProofs`).

| composition | how |
|---|---|
| `PerfCase` on `WatchStream` | `EXTENDS`: the watch thread's steps are the reader's steps on the stream the cluster writes |
| `JobQueue` of `Publisher` and `Receiver` | two `INSTANCE`s; every action conjoins one program's action with what is on the way between the two |
| `JobQueue` implements `AtLeastOnce` | `INSTANCE ... WITH place <- ..., ran <- ...`, checked as a property |
| `LoadBalancer` implements `Debounce` | `INSTANCE ... WITH seen <- ..., covered <- ...`, checked and, for its safety part, proved |

What could follow: the slave container next to the master (its `CHANGE MASTER` needs the replication user
that the master may not have yet); the restart script of consul with a model of consul's lock. Both
are mostly about programs that are not in this repository.

## 3. Modules

### LoadBalancer

`main()` is one sequential process; a timer with its reload is a process named by its number (1 for the
first timer). `pc[t]` is the next step of the timer or thread `t`.

| TLA+ | code |
|---|---|
| `HandleChunk`, `CancelTimer`, `Rearm` | `main()` 129-149: a whole chunk, `cancel()`, `Timer(...)`, `start()` |
| `TimerFires` | the timer calls `reloadbalancer()`; from here `cancel()` does nothing |
| `ListServices`, `ReadEndpoints`, `ReadFails` | `loadservices()`, one request each; any exception ends the thread |
| `OpenConfig`, `WriteConfig`, `CloseConfig` | `generateconfig()` 40-44; `write()` fills a buffer that may be flushed, `close()` writes the rest |
| `ReadPid`, `ParseConfig`, `TakeOver` | `reload.sh`: `cat` of the pid, haproxy reads its configuration, then binds, signals the old process and writes its pid |
| `CreateService`, `DeleteService`, `SyncEndpoints`, `CollectEndpoints`, `WatchEnds` | the API server and its endpoints controller (external) |

Data: an address list is the revision of the Endpoints object it comes from; a configuration is a function
from services to revisions; the file is empty, torn or whole and remembers who touched it last. A service
whose endpoints object has no ready address cannot be read (`KeyError`, line 79). Bytes of two writers
that interleave are a torn or a whole file, nondeterministically.

`Debounce` is the abstract specification of the timer: events are counted, a start covers all events seen.
`LoadBalancer` implements it with `seen <- handled` and `covered <-` the number of the newest timer that
fired.

### DockerStats

`read_callback()` is one process (`call`, `listed`, `cur`), every `ContainerStats` thread another
(`pc[t]`). Threads are numbered in the order of their start; `registry` is `DockerPlugin.stats`. A sample
is only present or absent. `ReadFails` may happen at any opening or read of the stream; `NextStats` only
while the container runs. The thread's loop test, the opening of the feed, the read and the sleep are
separate steps, so the stop flag can change between any two of them. The busy wait of `stats` is the absence
of `TakeStats`.

### Receiver

The broker (queue, unacknowledged deliveries, its end of the connection) and the receiver's loop.
`stage` is the reply the receiver waits for; the set-up callbacks form one chain, so they are one action
with the position as parameter. `inbox` and `acks` are what is under way in either direction. A play takes
two steps, so that the connection can break, the broker restart and `KeyboardInterrupt` arrive while it
runs. `OnConnectionClosed` includes the two undefined names of lines 96 and 97: without `_closing` the
process is dead afterwards. A process that ended may be started again. That a closed channel returns
unacknowledged messages to their old places in the queue is RabbitMQ's behaviour for a single consumer.
The broker's closing of a channel is one step with the receiver's reaction; a cancelled consumer takes the
same path (`on_consumer_cancelled()` closes the channel).

An assumption: the broker requeues what was unacknowledged no later than the receiver notices that the connection is
lost (`LoseConnection`). With the heartbeat of an hour that `main.py` (18, 23) asks for, a broker may keep a
half-open connection after its host crashed for up to two of them, and until then the earlier jobs of that receiver
are held back while a new one consumes the later ones. `FirstRunsInOrder` and `RunsFollowPublication` are about
the connections that the broker sees break; `NoJobLost` and `RepeatsAreRedeliveries` do not need the assumption.

### Publisher

The same connection life cycle with delivery confirmations. A message is its delivery tag, which starts at
one on every connection. `Confirm(t, TRUE)` is a frame with the multiple flag. `Reopen` is the timeout that
stops the loop together with the next round of `run()`. `timers` counts pending `publish_message()`
timeouts of the current ioloop; each connection of pika has an ioloop of its own, which is why they do not
survive it. `_deliveries` is a set in the model: `CountersAddUp` would fail if a tag was removed twice, where
the code's `list.remove()` would raise.

### WatchStream and PerfCase

`WatchStream` is the loop that `loadbalancer.py` (131-143) and `case.py` (64-79) share: a response in chunked
encoding, read byte by byte up to the end of a length line and then by the chunk. A byte is a record of its
kind and a number, an event is two bytes long, so that it can be cut off, and the radix of the length is a
constant: with radix 2 every length has two digits. `ReadByte` at the end of the stream is the
`read(1)` that returns `''`. `Digits` and `Number` are recursive functions, the server's and the reader's view of a
length. `LoadBalancer` takes a chunk at once; `EventsIntact` is why it may.

`PerfCase` is one test case: `pc` is the main thread of `case.py` (`start`, `command`, `kill` inside the
command, `process` in `processEvents()`, `stop` for the finally clause), `watcher` the thread of
`watchEvents()`, and the rest the cluster. `left` is `target`, `end` is `end_time`. Time is in whole seconds since the
second in which the test began, as the stamps of the events are; a stamp of 0 may lie before `begin_time`.
An event is reduced to its type, its pod, whether all containers match, and its stamp.

The cluster (external) begins with pods that are ready and, as `suit.sh` runs one case after another, with pods that the case before
deleted and that still stop. A deletion stamps the moment it was asked for plus `Grace`, as Kubernetes does, so a pod of an
earlier case can still go, and its stamp lie in this test. A container may restart, and its pod is then ready once more.

The shell command of a case is `Scale` (kubectl), or `Gather` and then `KillPods` (`killpod.py`) or `KillNode`
(`killnode.py`). No exit code is looked at, neither in the scripts nor in `case.py`, because `communicate()` does not
return it. `CommandFails` is a command that fails before it changes anything. `KillNode` has three outcomes: the
node is killed, or not, and its definition written (`definition`, the file that names it); or the file is left as it
was, or empty; or the script raises after the kill, because it has no answer to its query for the pods, and prints no
target. `Stop` runs the `clear_command`, which creates what the file names (`Cleared`), or fails. `mishap` records the
failures after the kill that nobody notices; `NodeComesBack` excuses them and shows that there is no other way to
lose the node but an event that was cut off.

What the properties of `PerfCase` do not claim, because the code does not do it: that the pods counted belong to this case, that the
number `killnode.py` prints is right (it is counted before the kill and printed although the kill failed), and that events which were
sent before the watch was open are seen.

### AtLeastOnce and JobQueue

`AtLeastOnce` says where a job can be (`new`, `sent`, `lost`, `waiting`, `wiped`, `done`) and which moves there are.
`JobQueue` runs `Publisher` and `Receiver` at one broker. A job is a pair of the publisher's connection and a delivery tag;
`transit` holds the jobs between `basic_publish()` and the queue. The broker confirms a job only after it
arrived, and may refuse one. A connection that breaks loses the end of what is in transit, as TCP does.
`told` collects the jobs that `_acked` counted.

### KubeModule

A run of `library/kube.py` is `begin`, at most one `kubectl get` (`exists`), at most one `kubectl` that
writes, and the exit. `Chosen` is the table of what the module does for each state, with the parameters
`force`, `filename` and `resource` present or not. `log` is the history of the resource: the run that
wrote and the definition it wrote. `replace --force` is two writes, because kubectl deletes and creates.
A kubectl that fails (`CommandFails`) may have done nothing, everything, if only its answer was lost, or a part
(`MayHaveWritten`): a deletion scales to zero first and can stop there (`Halted`). The module sees no more than that the
exit code is not zero. So `ResultIsHonest` does not say that a run which fails wrote nothing; it says that whoever wrote reports
a change or a failure, that a reported change was made, and that a resource is taken away only by a run whose task allows it.
What a failing kubectl does happens at the latest when it fails. `GetFails` is a
failing `kubectl get`, which `exists()` takes for absence. A run with a filename and no resource
never sees anything: `exists()` is then always False, so `absent` without `force` reports success and leaves the
resource in place; the properties excuse such runs and name them.
One resource stands for all that a file or a selector names: a file with several of them, created in part, is a run that failed
and, for each resource alone, either wrote or did not. A deletion is complete when kubectl returns; with a
graceful deletion `kubectl get` may still see the pod afterwards, and `SecondRunIsQuiet` is not about that time.

### MysqlInit

`entry` is the next step of `entrypoint.sh`, `script` that of `my_entrypoint.sh`, which runs it in the
background; `server` is the temporary or the real mysqld. The disk (`system`, `root`, `peter`, `demo`) survives the
container, all else does not. Each SQL statement is a step, since each is committed by itself. The temporary server is
stopped by `TERM`: a statement of the other script that is under way is lost. `InitFails` and the second outcome of
`StopTemporary` are the commands that end `entrypoint.sh` (`set -e`, and the `exit 1` of line 100). `prompt` is an assumption
of the liveness property: a server that will take connections does so before the fifteen logins of
`my_entrypoint.sh` are used up; without it the script goes on without a server and ends the container, which
costs a restart.

Two losses are excused by the properties, not refuted: a crash or a failure after the system database and before root's rights leaves
the master out of service for ever (`ServesInTheEnd` starts with root's rights), and a crash between the replication user and the
table leaves no table (`cut` in `SetUpIsComplete`). The properties show that these are the only ways.

## 4. Runs

| run | instance | what it shows |
|---|---|---|
| `lb_safety` | 2 services, 3 revisions, 3 timers, symmetry, 4.7 million states | `OnePendingTimer`, `SnapshotNotStale`, `CleanReloadServesItsSnapshot`, `NoOrphanWithoutOverlap`, `CurrentWhenQuiet` hold although reloads overlap and a snapshot takes several requests |
| `lb_liveness` | 1 service, 2 revisions, 3 timers, fair | `EventsAreReloaded`, refinement of `Debounce` including its fairness |
| `stats` | 2 containers, 2 threads, fair, 279 thousand states | `NoLeakedThread`, `StopHasACause`, `WaitEndsOrThreadGivesUp` |
| `receiver` | 3 jobs, window 2, 2 starts, fair, 143 thousand states | `NoJobLost`, `RepeatsAreRedeliveries`, `FirstRunsInOrder`, `JobsRun`, `StopEnds` |
| `publisher` | 3 messages on each of 3 connections, fair | `OneChain`, `CountersAddUp`, `DeliveriesAreUnconfirmed`, `PublishesAgain` |
| `jobqueue` | 2 jobs, of one connection or two, window 2, one restart or reconnection, 1.4 million states | `ToldIsKept`, `RunsFollowPublication`, refinement of `AtLeastOnce` |
| `perf` | 2 pods, 2 nodes, 2 seconds and 1 of grace, 3 events, radix 2, fair, 1.6 million states | `EventsIntact`, `EndIsTheLast`, `DeletedPodsAreGone`, `NodeComesBack`, `EnoughEventsEnd` |
| `kube` | 2 runs with all parameters, 2 writes by others, symmetry, 1.2 million states | `GoalWitnessed`, `ResultIsHonest`, `NobodyUndoesIt`, `SecondRunIsQuiet` |
| `mysql_init` | 3 logins, 2 waits, 3 crashes, fair, 6 593 states | `SetUpIsComplete`, `ServesInTheEnd` |

Three runs end with a violation, each of one statement that the repository makes about itself:

* `stats_not_replaced`: a thread that gave up is never replaced, because it stays registered.
* `stats_wait`: the wait for a sample never ends when the thread gave up before the first one.
* `receiver_reopens`: "reopening in 5 seconds" ends in a `NameError`.

One more statement is wrong and has no run of its own. "After three consecutive failures, we'll stop the thread" says the
comment in `dockerplugin.py` (217-218), but line 223 compares with `> 3` after the failure was counted: the thread
stops at the fourth. `StopHasACause` states what the code does, the fourth failure in a row, and so refutes the comment:
with three it would be violated. The same comment goes on to say that the thread is replaced, which `stats_not_replaced` refutes.

Two more observations are no properties: the publisher's log line "have yet to be confirmed" also counts messages that a
`multiple` confirmation covered (`settled` in `Publisher`; `DeliveriesAreUnconfirmed` is looser than the wording there), and the
`--ignore-not-found` flag of `kube.py` is never given together with a filename (`IgnoreNotFound`).

Some hazards are excused by the properties that come closest to them, since the code does go wrong there; `PROJECT.json` says so at
each of them. `CleanReloadServesItsSnapshot` and `NoOrphanWithoutOverlap` are about reloads that ran alone, and
`CurrentWhenQuiet` about a last reload that did: overlapping reloads can tear the file, leave the older snapshot or orphan a
haproxy. `StopHasACause` does not mind that a thread which gave up is never replaced (the violation run is about that).
`EnoughEventsEnd` starts from the events sent on the watch.

### Bounds

`MaxRev`, `MaxReloads`: three timers are the smallest number with one reload that overlaps an earlier one
while a third timer waits; three revisions allow a change between and after the requests of a
snapshot of two services. Every chunk has its own timer, so `MaxReloads` also bounds the watch. `MaxThreads`: two threads
are a leaving thread and its successor; numbers are never reused, so the bound ends the behaviour, and
`Serve` waits for ever for a third. `MaxStarts`, `MaxConnections`, `MaxNumber` bound restarts,
connections and messages. A connection fails only while another one can follow (`MayBreak`), so that the
bound does not look like a failure to reconnect. The safety theorems of section 5 have no such bounds: the
constants are arbitrary.

`PerfCase`: a length of two digits, two pods of which one can replace the other or count twice, two nodes so that
one can be killed, and one event more than the largest target. The clock has the second in which the test
begins, whose stamps do not count, and one after it; with a second of grace, stamps of deletions go one further, so that events
come out of stamp order and a pod of an earlier case has a stamp before or in this one. `OneEventAtATime` (an action constraint of the run)
lets the reader take what was sent before the
cluster moves on. The reader's steps change only the stream and are enabled whatever the cluster does, so every
sequence of chunks that the queue can hold is still reached, and what the cluster does after the test is not looked at;
`EndStream` may still cut the stream at any byte. `OtherTestsAreShort` keeps the combinations apart: a test of nodes sends one
event, which is enough to be counted, cut off or awaited, and containers restart only in the tests that wait for pods
that started. The theorems of section 5 have neither constraint.

`JobQueue`: two jobs are the least that can be reordered, overtaken or lost one without the other, and one extra
connection or start is the least for a redelivery (`FewFaults`). `SetUpFirst` (an action constraint) lets a
set-up of one program go on, or be interrupted, before anything else happens: between its replies nothing that
the other program can see changes.

`KubeModule`: with two runs and two foreign writes the resource can appear and vanish between the look and the act
of each run. `MysqlInit`: three crashes allow one in each of the phases before root, before the user and before the
table; the bounds of the two loops are small, because only the last try is special.

Deadlock is checked for `DockerStats`, whose containers always can change. The other programs stop by
design: the load balancer waits on a silent watch, the receiver and the publisher end, so do a performance test and a run of
the Ansible module, and a master in service has nothing more to do.

### Fairness

* `LoadBalancer`: `HandleChunk`, each timer and each thread are weakly fair: the interpreter schedules
  every thread and a started timer fires. For a thread inside a request this assumes that the API server
  answers or refuses; `requests.get()` has no timeout of its own. The API server has no fairness. The number of
  chunks is bounded, so `EventsAreReloaded` says nothing of a stream of events that never pauses for half a
  second: there the debounce may postpone a reload for ever.
* `DockerStats`: `read_callback()` is called at every interval, threads are scheduled, and a blocking read
  ends at the latest with the client's timeout. Containers have no fairness.
* `Receiver`: the broker delivers and takes acknowledgements while the connection is up, its replies arrive,
  plays end. Faults, interrupts and restarts have no fairness.
* `PerfCase`: both threads of `case.py` are scheduled and commands end. The cluster, the server of the watch and
  the network owe nothing: `EnoughEventsEnd` starts from the events that were sent.
* `MysqlInit`: both scripts go on, a started mysqld takes connections, and the kubelet restarts a container that
  ended. Crashes have no fairness.
* `Publisher`: replies of the set-up arrive and due timeouts run. Confirmations and faults have no fairness.

## 5. Proofs

All theorems hold for every value of the constants under the named `ASSUME`s of the modules: finite sets of
services and nodes, bounds that are natural numbers, a radix of at least two, room for the initial events, a clock that
ticks, at least one run of the kube module, names that differ.

`LoadBalancerProofs`. The properties are not inductive alone. `IInv` adds: timers above `handled` do not exist
yet and none but the newest waits (numbering); every chunk and every snapshot is of a revision the API server
reached, at least as new as what existed when its event was sent (revisions); an overlap is recorded for both reloads as
soon as the later one starts (overlaps); while a reload that is not recorded as overlapped is at work, the
file is its own and the process in the pid file is the only one serving (file, pid). Each group of
conjuncts has a lemma with one case per action. From `IInv` follow `DebounceIsSafe`, `SnapshotsFollowEvents`,
`CleanReloads` and `Convergence`. `Refinement` maps every step to an event, a start or a stutter of
`Debounce`: the crucial fact is that a timer that fires is the newest one (`OnePendingTimer`), so a start
always covers everything seen.

`DockerStatsProofs`. `ThreadsAccounted` needs that threads above `started` are fresh, that four failures imply a
stop, and that the container `read_callback()` waits for is registered; with these, every thread that
was not told to stop is the registered thread of its container.

`PublisherProofs`. `Accounting` proves `OneChain`, `CountersAddUp` and `DeliveriesAreUnconfirmed` together. Its
`IInv` adds: nothing is counted and no timeout is pending before the publisher publishes (`Phases`), a
publisher told to stop opens no connection (`Spare`, which also keeps the bound on connections), and no tag is
answered twice: the frames on their way have different tags, which the publisher still counts, and none of
them is outstanding or was covered by a frame for a later tag (`Answers`). The lemmas on `Append`, `Tail` and
prefixes say which tags a sequence of frames keeps. The answers are those of the external broker: that it
answers no tag twice is an assumption about RabbitMQ, made by `Confirm`.

`ReceiverProofs`. The backlog of the broker is `unacked \o queue`, so that a requeue leaves it alone. `IInv` adds:
the two parts have no job in common and none twice (`Kept`); without a connection nothing is unacknowledged and a dead
process has nothing in hand (`Channel`); an acknowledgement under way is for an unacknowledged job, and on an
open connection a job in hand is one of those whose acknowledgement is still to come (`Answers`); a job that is in
hand or in the queue has run less often than `RepeatsAreRedeliveries` allows, and one that is in both, left over
from a broken connection, has two runs to spare (`Redelivered`). `JobsAreKept` and `RepeatsHaveACause` follow, for any number of jobs and any window.

The second part of `ReceiverProofs` proves `FirstRunsInOrder`. `OrderInv` follows two jobs on their way, in terms of `Precedes`, one before
the other in a sequence: in the backlog the earlier one comes first unless it was acknowledged or forgotten (`Queued`),
what the program has in hand comes after jobs that ran or are in hand before it (`HandedOver`), and a consuming
program has run whatever is unacknowledged and no longer in its hands (`Consumed`). The last part is why a redelivery
cannot reverse two first runs: what goes back to the queue goes back in front, in its old order.

`JobQueueProofs` takes the invariants of both programs from `PublisherProofs` and `ReceiverProofs` by `INSTANCE`:
every step of the whole is a step of each program or leaves it alone (`PublisherStep`, `ReceiverStep`), so both
invariants hold in company. `Linked` joins them: what the broker has not answered reached it or is in transit,
a positive answer on its way is for a job that reached it, and so is everything in `told`. With `NoJobLost`
this is `ToldIsTrue`. `Sequential` adds the order: the jobs of a connection are in transit in the order of their tags, and
one that arrived has no earlier one behind it that was not refused; with `OrderInv` this is `RunsAreInOrder`.
`Refinement` maps every step to one of `AtLeastOnce`, which states no liveness, or to a stutter.

`KubeModuleProofs`. `IInv` says what a run at each step may have written and what it saw since it began; from it
follow `GoalsAreReached` and `RunsAreHonest` for any number of runs and foreign writes, with a kubectl that fails before, after or
in the middle of its work. `QInv` adds the moment of the
look: a run that could look and acts has an entry of the log before its own writes that gave it its reason
(`Looked`), and it leaves what it was asked for at its end (`LeavesIt`, `LeavesNone`). If nobody wrote between two runs of the
same task, the second one looked at what the first left, so it had no reason to act: `SecondRunDoesNothing`. For
`RunsDoNotUndo`, the resource that all runs want is away only while a run is between the halves of its forced
replacement, or after a run failed (`MissingHasACause`).

`MysqlInitProofs`. `IInv` says which parts of the disk exist at each step of either script: above all
that the replication user, and with it the end of the set-up, is never there before root's rights, although the polling
script may meet the temporary server at any moment.

`PerfCaseProofs`, from the bytes of the watch up to what a test measures, for any radix, cluster and case.

* Lengths. `LengthsAreRead` says that `Number(Digits[n]) = n` for every `n`. The provers cannot instantiate an
  induction theorem, so `SetInduction` states induction for a set in the place of a predicate and derives it from the pigeonhole
  principle of `FiniteSetTheorems`. With it, `DigitsEquation` and `ValueExists` show that the two recursive
  functions exist and solve their equations, which TLA+ does not grant: they are defined by `CHOOSE`.
* The stream. `EventsIntact` is not inductive: it says nothing of the bytes under way. `StreamInv` sees the
  stream as a row of units, a line break, a length, a line break and an event each, the last of which is
  the empty chunk. While the reader is in step it is `o` bytes into the unit after those it has handed on
  (`Reads(o)`): `text` is what it read of the unit, and the byte at distance `Place(m, j) - o` on the wire is
  the `j`-th byte of the `m`-th unit from here. `Send` adds a unit at the end, a break of the connection at any byte keeps what is
  before it, a byte read adds one to `o`, and a chunk read leads to the next unit or, if it was cut off, to
  `Over`, after which only line breaks follow and never a length.
* The driver. `Driver` adds that the stream is untouched until the thread reads it and that pods left and
  events counted add up; `EventsTrue` that a pod whose deletion was announced is gone and that it is announced once; `Counts`
  that exactly the whole events taken so far that match were counted, and `CountedOnce` each of them once; `Back` that
  the node is there or in the file that `clear_command` reads, unless a mishap was recorded, and what ended a test that did not bring its
  node back: the queue ends with a chunk that was cut off, to which nothing can be added (`CutOffStays`). From
  these follow `TypeOK`, `EndIsTheLast`, `DeletedPodsAreGone` (`EndedTestsDeleted`: the events counted are as many as the
  test waited for, and their pods differ and are gone) and `NodeComesBack`.

Only model-checked: all liveness (`EventsAreReloaded`, `WaitEndsOrThreadGivesUp`, `JobsRun`, `PublishesAgain`,
`StopEnds`, `EnoughEventsEnd`, `ServesInTheEnd`) and the fairness half of `ImplementsDebounce`, because the prover does
not handle `ENABLED`.

## 6. Not modelled

* The components without a module in section 1, each with its reason in `PROJECT.json`: they keep no state, or what
  they do is decided by a program that is not in this repository (consul, MySQL's replication, Ansible, Salt).
* By lines, nearly all of the repository's Python is third-party code that was copied into it: two copies of `get-pip.py` (17 759
  lines each, a zip file in text form) and three of urlgrabber. Of the own programs, some three
  thousand lines, the parts that keep state are modelled; the metric readers, test stubs and templates are not.
* Inside the modelled ones: the text of the haproxy configuration, the translation of samples into collectd
  values, log output, the contents of jobs and plays, AMQP heartbeats, a second `KeyboardInterrupt` during
  `stop()`, a restart of the load balancer's container, the shell scripts that run one test case after another,
  `--selector` and `--all` of the Ansible module (one resource stands for what they select), the branches of
  `entrypoint.sh` for variables that no manifest sets, and the slave container: its data is not on a volume, so that
  every restart begins from nothing.
