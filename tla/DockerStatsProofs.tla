-------------------------- MODULE DockerStatsProofs --------------------------
(* Thread bookkeeping of DockerStats, for any containers and threads. *)
EXTENDS DockerStats, TLAPS

\* The numbers beyond started are threads that do not exist yet.
Fresh ==
    \A t \in Threads : t > started => ~stop[t] /\ failures[t] = 0 /\ pc[t] = "check"

Owned == \A t \in 1 .. started : of[t] \in Containers

\* The fourth failure in a row is the last step of a thread but for its end.
GaveUp ==
    \A t \in Threads : failures[t] = 4 => stop[t] /\ pc[t] \in {"check", "ended"}

\* The container read_callback() waits for has a thread.
ServedHasThread == cur # NoContainer => call = "loop" /\ registry[cur] # 0

IInv == TypeOK /\ Fresh /\ Owned /\ GaveUp /\ ServedHasThread
        /\ NoLeakedThread /\ StopHasACause

LEMMA InitInv == Init => IInv
  BY ThreadAssumption DEF Init, IInv, TypeOK, Fresh, Owned, GaveUp, ServedHasThread,
     NoLeakedThread, StopHasACause, Threads

\* What AfterSleep does to its thread, which has failed three times at most.
LEMMA AfterSleepEffect ==
    ASSUME IInv, NEW t \in Threads, AfterSleep(t)
    PROVE  /\ failures[t] \in 0 .. 3
           /\ failures' = [failures EXCEPT ![t] = failures[t] + 1]
           /\ stop' \in [Threads -> BOOLEAN]
           /\ \A u \in Threads \ {t} : stop'[u] = stop[u]
           /\ stop'[t] <=> stop[t] \/ failures[t] = 3
           /\ pc' = [pc EXCEPT ![t] = "check"]
           /\ feed' \in [Threads -> BOOLEAN]
           /\ UNCHANGED <<up, callVars, cached>>
<1>1. /\ failures[t] \in 0 .. 4 /\ pc[t] = "sleep"
      /\ stop \in [Threads -> BOOLEAN] /\ feed \in [Threads -> BOOLEAN]
  BY DEF AfterSleep, Counted, Goto, IInv, TypeOK
<1>2. failures[t] # 4
  BY <1>1 DEF IInv, GaveUp
<1>3. TooMany(failures[t] + 1) <=> failures[t] = 3
  BY <1>1, <1>2 DEF TooMany
<1>4. TooMany(failures[t] + 1) \in BOOLEAN
  BY DEF TooMany
<1>5. stop' = [stop EXCEPT ![t] = stop[t] \/ TooMany(failures[t] + 1)]
  BY DEF AfterSleep, Counted
<1>6. stop'[t] <=> stop[t] \/ TooMany(failures[t] + 1)
  BY <1>1, <1>5, Zenon
<1>7. stop' \in [Threads -> BOOLEAN] /\ \A u \in Threads \ {t} : stop'[u] = stop[u]
  BY <1>1, <1>5
<1> QED
  BY <1>1, <1>2, <1>3, <1>6, <1>7 DEF AfterSleep, Counted, Goto

\* A step of run() changes nothing but the state of its own thread; it keeps the
\* link between the count of failures and stop.
LEMMA ThreadEffect ==
    ASSUME IInv, NEW t \in Threads, Thread(t)
    PROVE  /\ t \in 1 .. started
           /\ UNCHANGED <<up, callVars>>
           /\ TypeOK'
           /\ \A u \in Threads \ {t} : UNCHANGED <<pc[u], stop[u], failures[u]>>
           /\ stop[t] => stop'[t]
           /\ failures'[t] = 4 => stop'[t] /\ pc'[t] \in {"check", "ended"}
           /\ (stop[t] <=> failures[t] = 4) => (stop'[t] <=> failures'[t] = 4)
<1>1. /\ TypeOK /\ started \in Nat
      /\ failures[t] = 4 => stop[t] /\ pc[t] \in {"check", "ended"}
  BY ThreadAssumption DEF IInv, TypeOK, GaveUp
<1>2. t \in 1 .. started
  BY <1>1 DEF Thread, CheckStop, ToldToStop, Counted, OpenFeed, NextStats, ReadFails, AfterSleep, Goto, Threads
<1>3. CASE AfterSleep(t)
  <2>1. TypeOK' /\ UNCHANGED <<up, callVars>> /\ failures'[t] = failures[t] + 1
    BY <1>1, <1>3, AfterSleepEffect DEF TypeOK, callVars
  <2>2. \A u \in Threads \ {t} : UNCHANGED <<pc[u], stop[u], failures[u]>>
    BY <1>1, <1>3, AfterSleepEffect DEF TypeOK
  <2>3. pc'[t] = "check" /\ failures[t] \in 0 .. 3 /\ (stop'[t] <=> stop[t] \/ failures[t] = 3)
    BY <1>1, <1>3, AfterSleepEffect DEF TypeOK
  <2>4. failures[t] # 4 /\ (failures'[t] = 4 <=> failures[t] = 3)
    BY <2>1, <2>3
  <2>5. failures'[t] = 4 => stop'[t] /\ pc'[t] \in {"check", "ended"}
    BY <2>3, <2>4
  <2>6. (stop[t] <=> failures[t] = 4) => (stop'[t] <=> failures'[t] = 4)
    BY <2>3, <2>4
  <2>7. stop[t] => stop'[t]
    BY <2>3
  <2> QED
    BY <1>2, <2>1, <2>2, <2>5, <2>6, <2>7
<1>4. CASE CheckStop(t)
  <2>1. /\ TypeOK' /\ UNCHANGED <<up, callVars, stop, failures>>
        /\ \A u \in Threads \ {t} : pc'[u] = pc[u]
        /\ stop[t] => pc'[t] = "ended"
    BY <1>1, <1>4 DEF CheckStop, ToldToStop, Goto, TypeOK, callVars
  <2> QED
    BY <1>1, <1>2, <2>1
<1>5. CASE OpenFeed(t) \/ ReadFails(t)
  <2>1. /\ TypeOK' /\ UNCHANGED <<up, callVars, stop, failures>>
        /\ \A u \in Threads \ {t} : pc'[u] = pc[u]
        /\ pc[t] \in {"open", "next"}
    BY <1>1, <1>5 DEF OpenFeed, ReadFails, Goto, TypeOK, callVars
  <2> QED
    BY <1>1, <1>2, <2>1
<1>6. CASE NextStats(t)
  <2>1. /\ TypeOK' /\ UNCHANGED <<up, callVars, stop>> /\ failures'[t] = 0
        /\ \A u \in Threads \ {t} : pc'[u] = pc[u] /\ failures'[u] = failures[u]
        /\ pc[t] = "next"
    BY <1>1, <1>6 DEF NextStats, ResetCount, Goto, TypeOK, callVars
  <2> QED
    BY <1>1, <1>2, <2>1
<1> QED
  BY <1>3, <1>4, <1>5, <1>6 DEF Thread

LEMMA ThreadStep ==
    ASSUME IInv, NEW t \in Threads, Thread(t)
    PROVE  IInv'
<1>1. /\ t \in 1 .. started /\ TypeOK'
      /\ UNCHANGED <<registry, call, cur, started, of>>
      /\ \A u \in Threads \ {t} : UNCHANGED <<pc[u], stop[u], failures[u]>>
      /\ stop[t] => stop'[t]
      /\ failures'[t] = 4 => stop'[t] /\ pc'[t] \in {"check", "ended"}
      /\ (stop[t] <=> failures[t] = 4) => (stop'[t] <=> failures'[t] = 4)
  BY ThreadEffect DEF callVars
<1>2. started \in 0 .. MaxThreads /\ registry \in [Containers -> 0 .. started]
  BY DEF IInv, TypeOK
<1>3. Fresh'
  BY <1>1, <1>2, ThreadAssumption DEF IInv, Fresh, Threads
<1>4. Owned' /\ ServedHasThread'
  BY <1>1 DEF IInv, Owned, ServedHasThread
<1>5. GaveUp'
  BY <1>1 DEF IInv, GaveUp
<1>6. StopHasACause'
  <2> SUFFICES ASSUME NEW c \in Containers, registry[c] # 0
               PROVE  stop'[registry[c]] <=> failures'[registry[c]] = 4
    BY <1>1 DEF StopHasACause
  <2>1. registry[c] \in Threads
    BY <1>2, ThreadAssumption DEF Threads
  <2>2. stop[registry[c]] <=> failures[registry[c]] = 4
    BY DEF IInv, StopHasACause
  <2> QED
    BY <1>1, <2>1, <2>2
<1>7. NoLeakedThread'
  BY <1>1, <1>2, ThreadAssumption DEF IInv, NoLeakedThread, Threads
<1> QED
  BY <1>1, <1>3, <1>4, <1>5, <1>6, <1>7 DEF IInv

\* So does read_callback(), which writes no thread but by stop and creation.
LEMMA CallbackStep ==
    ASSUME IInv, Callback PROVE IInv'
<1>1. /\ TypeOK /\ Fresh /\ Owned /\ GaveUp /\ ServedHasThread
      /\ NoLeakedThread /\ StopHasACause
  BY DEF IInv
<1>2. /\ started \in Nat /\ started \in 0 .. MaxThreads
      /\ registry \in [Containers -> 0 .. started]
      /\ \A c \in Containers : registry[c] # 0 => registry[c] \in Threads
      /\ NoContainer \notin Containers
  BY <1>1, ThreadAssumption, ContainerAssumption DEF TypeOK, Threads
<1>3. ASSUME ListContainers \/ TakeStats \/ CallReturns PROVE IInv'
  <2>1. /\ TypeOK' /\ ServedHasThread'
        /\ UNCHANGED <<registry, started, of, pc, stop, failures>>
    BY <1>1, <1>3 DEF TypeOK, ServedHasThread, ListContainers, TakeStats, CallReturns,
                      threadVars
  <2> QED
    BY <1>1, <2>1 DEF IInv, Fresh, Owned, GaveUp, NoLeakedThread, StopHasACause
<1>4. ASSUME NEW c \in Containers, Serve(c), NeedsThread(c) PROVE IInv'
  <2>1. /\ started' = started + 1 /\ started + 1 \in Threads /\ cur' = c
        /\ registry[c] = 0
        /\ registry' = [registry EXCEPT ![c] = started + 1]
        /\ of' = [of EXCEPT ![started + 1] = c]
        /\ UNCHANGED <<up, call, listed, pc, feed, failures, cached, stop>>
        /\ call = "loop"
    BY <1>2, <1>4, ThreadAssumption DEF Serve, NeedsThread, threadVars, Threads
  <2>2. TypeOK'
    BY <1>1, <1>2, <2>1, ThreadAssumption DEF TypeOK, Threads
  <2>3. \A t \in 1 .. started : of'[t] = of[t] /\ t \in Threads
    BY <1>1, <1>2, <2>1, ThreadAssumption DEF TypeOK, Threads
  <2>4. of'[started + 1] = c
    BY <1>1, <2>1 DEF TypeOK
  <2>5. Fresh' /\ GaveUp'
    BY <1>1, <1>2, <2>1, ThreadAssumption DEF Fresh, GaveUp, Threads
  <2>6. Owned'
    BY <1>1, <1>2, <2>1, <2>3, <2>4 DEF Owned
  <2>7. ServedHasThread'
    BY <1>2, <2>1 DEF ServedHasThread
  <2>8. NoLeakedThread'
    <3>1. ASSUME NEW t \in 1 .. started', ~stop'[t] PROVE registry'[of'[t]] = t
      <4>1. CASE t = started + 1
        BY <1>2, <2>1, <2>4, <4>1
      <4>2. CASE t \in 1 .. started
        <5>1. registry[of[t]] = t /\ of[t] \in Containers
          BY <1>1, <2>1, <3>1, <4>2 DEF NoLeakedThread, Owned
        <5> QED
          BY <1>2, <2>1, <2>3, <4>2, <5>1
      <4> QED
        BY <1>2, <2>1, <4>1, <4>2
    <3>2. ASSUME NEW d \in Containers, registry'[d] # 0 PROVE of'[registry'[d]] = d
      <4>1. CASE d = c
        BY <1>2, <2>1, <2>4, <4>1
      <4>2. CASE d # c
        BY <1>1, <1>2, <2>1, <2>3, <3>2, <4>2 DEF NoLeakedThread
      <4> QED
        BY <4>1, <4>2
    <3> QED
      BY <3>1, <3>2 DEF NoLeakedThread
  <2>9. StopHasACause'
    <3>1. ~stop[started + 1] /\ failures[started + 1] = 0
      BY <1>1, <1>2, <2>1 DEF Fresh
    <3> QED
      BY <1>1, <1>2, <2>1, <3>1 DEF StopHasACause
  <2> QED
    BY <2>2, <2>5, <2>6, <2>7, <2>8, <2>9 DEF IInv
<1>5. ASSUME NEW c \in Containers, Serve(c), ~NeedsThread(c) PROVE IInv'
  <2>1. /\ cur' = c /\ registry[c] # 0 /\ call = "loop"
        /\ UNCHANGED <<registry, started, of, up, call, listed, pc, feed, failures,
                       cached, stop>>
    BY <1>5 DEF Serve, NeedsThread, threadVars
  <2>2. TypeOK' /\ ServedHasThread'
    BY <1>1, <2>1 DEF TypeOK, ServedHasThread
  <2> QED
    BY <1>1, <2>1, <2>2 DEF IInv, Fresh, Owned, GaveUp, NoLeakedThread, StopHasACause
<1>6. CASE DropGone
  <2> DEFINE gone == {c \in Containers : registry[c] # 0} \ listed
  <2>1. /\ stop' = StopThreads(gone) /\ call' = "loop" /\ call = "drop"
        /\ registry' = [c \in Containers |-> IF c \in gone THEN 0 ELSE registry[c]]
        /\ UNCHANGED <<up, listed, cur, started, of, pc, feed, failures, cached>>
    BY <1>6 DEF DropGone, threadVars
  <2>2. \A t \in Threads :
            stop'[t] <=> stop[t] \/ \E c \in Containers : c \in gone /\ registry[c] = t
    BY <2>1 DEF StopThreads
  <2>3. stop' \in [Threads -> BOOLEAN]
    BY <2>1 DEF StopThreads
  <2>4. cur = NoContainer
    BY <1>1, <2>1 DEF ServedHasThread
  <2>5. \A c \in Containers : registry'[c] = IF c \in gone THEN 0 ELSE registry[c]
    BY <2>1
  <2> HIDE DEF gone
  <2>6. TypeOK' /\ ServedHasThread'
    BY <1>1, <1>2, <2>1, <2>3, <2>4 DEF TypeOK, ServedHasThread
  <2>7. \A t \in Threads : t > started => ~\E c \in Containers : registry[c] = t
    BY <1>2
  <2>8. Fresh' /\ Owned' /\ GaveUp'
    BY <1>1, <2>1, <2>2, <2>7 DEF Fresh, Owned, GaveUp
  <2>9. NoLeakedThread'
    <3>1. ASSUME NEW t \in 1 .. started, ~stop'[t] PROVE registry'[of[t]] = t
      <4>1. t \in Threads /\ of[t] \in Containers
        BY <1>1, <1>2, ThreadAssumption DEF Owned, Threads
      <4>2. ~stop[t] /\ registry[of[t]] = t
        BY <1>1, <2>2, <3>1, <4>1 DEF NoLeakedThread
      <4> QED
        BY <2>2, <2>5, <3>1, <4>1, <4>2
    <3> QED
      BY <1>1, <2>1, <2>5, <3>1 DEF NoLeakedThread
  <2>10. StopHasACause'
    <3> SUFFICES ASSUME NEW c \in Containers, registry'[c] # 0
                 PROVE  stop'[registry[c]] <=> failures[registry[c]] = 4
      BY <2>1, <2>5 DEF StopHasACause
    <3>1. c \notin gone /\ registry[c] # 0 /\ registry[c] \in Threads
      BY <1>2, <2>5
    <3>2. \A d \in Containers : registry[d] = registry[c] => d = c
      BY <1>1, <3>1 DEF NoLeakedThread
    <3>3. stop'[registry[c]] <=> stop[registry[c]]
      BY <2>2, <3>1, <3>2
    <3> QED
      BY <1>1, <3>1, <3>3 DEF StopHasACause
  <2> QED
    BY <2>6, <2>8, <2>9, <2>10 DEF IInv
<1> QED
  BY <1>3, <1>4, <1>5, <1>6 DEF Callback

\* For every number of containers and threads: no thread is leaked, and a
\* registered thread stops only after four failures in a row.
THEOREM ThreadsAccounted == Spec => [](TypeOK /\ NoLeakedThread /\ StopHasACause)
<1>1. IInv /\ [Next]_vars => IInv'
  <2> SUFFICES ASSUME IInv, [Next]_vars PROVE IInv'
    OBVIOUS
  <2>1. CASE \E c \in Containers : ContainerChanges(c)
    BY <2>1 DEF ContainerChanges, callVars, threadVars, IInv, TypeOK, Fresh, Owned,
                GaveUp, ServedHasThread, NoLeakedThread, StopHasACause
  <2>2. CASE UNCHANGED vars
    BY <2>2 DEF vars, callVars, threadVars, IInv, TypeOK, Fresh, Owned, GaveUp,
                ServedHasThread, NoLeakedThread, StopHasACause
  <2> QED
    BY <2>1, <2>2, ThreadStep, CallbackStep DEF Next
<1>2. IInv => TypeOK /\ NoLeakedThread /\ StopHasACause
  BY DEF IInv
<1> QED
  BY InitInv, <1>1, <1>2, PTL DEF Spec

\* Every variable keeps its type, for any number of containers and threads.
THEOREM TypeCorrect == Spec => []TypeOK
  BY ThreadsAccounted, PTL

\* A thread that is still registered stopped for its fourth failure in a row or not at all.
THEOREM StopsHaveACause == Spec => []StopHasACause
  BY ThreadsAccounted, PTL
=============================================================================
