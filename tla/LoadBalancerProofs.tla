------------------------- MODULE LoadBalancerProofs -------------------------
(* The safety properties of LoadBalancer, for all values of the constants. *)
EXTENDS LoadBalancer, FiniteSetTheorems, TLAPS

\* n equal elements make a sequence of length n.
LEMMA Repeated ==
    ASSUME NEW n \in Nat, NEW S, NEW e \in S
    PROVE  [i \in 1 .. n |-> e] \in Seq(S) /\ Len([i \in 1 .. n |-> e]) = n
  OBVIOUS

\* Init is a possible state of the types: the chunks of the objects that exist.
LEMMA InitType == Init => TypeOK
<1> SUFFICES ASSUME Init PROVE TypeOK
  OBVIOUS
<1>1. svc \in SUBSET Services /\ Cardinality(svc) \in Nat /\ Cardinality(svc) <= MaxReloads
  BY BoundsAssumption, FS_Subset, FS_CardinalityType DEF Init
<1>2. chunks \in Seq(Nat) /\ Len(chunks) = Cardinality(svc)
  <2>1. chunks = [i \in 1 .. Cardinality(svc) |-> 1]
    BY DEF Init
  <2> QED
    BY <1>1, <2>1, Repeated
<1> QED
  BY <1>1, <1>2, BoundsAssumption DEF Init, TypeOK, Reloads

\* The API server and the watch keep the types.
LEMMA ApiType == TypeOK /\ Api => TypeOK'
<1> SUFFICES ASSUME TypeOK, Api PROVE TypeOK'
  OBVIOUS
<1> USE BoundsAssumption DEF TypeOK
<1>1. ASSUME NEW new \in SUBSET Services, ServiceChange(new) PROVE TypeOK'
  BY <1>1 DEF ServiceChange, watchVars, threadVars, proxyVars
<1>2. ASSUME NEW s \in Services, NEW r \in {0, rev + 1}, EndpointsChange(s, r),
             unready' \in SUBSET Services
      PROVE  TypeOK'
  <2>1. rev + 1 \in 1 .. MaxRev /\ r \in 0 .. MaxRev
    BY <1>2 DEF EndpointsChange
  <2>2. chunks' \in Seq(Nat) /\ handled' + Len(chunks') <= MaxReloads
    <3>1. CASE connected
      BY <1>2, <2>1, <3>1 DEF EndpointsChange, Room
    <3>2. CASE ~connected
      BY <1>2, <3>2 DEF EndpointsChange
    <3> QED
      BY <3>1, <3>2
  <2> QED
    BY <1>2, <2>1, <2>2 DEF EndpointsChange, threadVars, proxyVars
<1>3. ASSUME NEW s \in Services, SyncEndpoints(s) PROVE TypeOK'
  BY <1>2, <1>3 DEF SyncEndpoints
<1>4. ASSUME NEW s \in Services, CollectEndpoints(s) PROVE TypeOK'
  BY <1>2, <1>4 DEF CollectEndpoints
<1>5. CASE WatchEnds
  <2>1. chunks' \in Seq(Nat) /\ handled' + Len(chunks') <= MaxReloads
    <3>1. CASE Room /\ chunks' = Append(chunks, rev)
      BY <1>5, <3>1 DEF WatchEnds, Room
    <3>2. ASSUME NEW k \in 0 .. Len(chunks), chunks' = SubSeq(chunks, 1, k)
          PROVE  chunks' \in Seq(Nat) /\ Len(chunks') <= Len(chunks)
      BY <3>2
    <3> QED
      BY <1>5, <3>1, <3>2 DEF WatchEnds
  <2> QED
    BY <1>5, <2>1 DEF WatchEnds, apiVars, threadVars, proxyVars
<1> QED
  BY <1>1, <1>3, <1>4, <1>5 DEF Api, CreateService, DeleteService

\* main() keeps the types: there is a timer for every chunk.
LEMMA MainType == TypeOK /\ HandleChunk => TypeOK'
<1> SUFFICES ASSUME TypeOK, HandleChunk PROVE TypeOK'
  OBVIOUS
<1> USE BoundsAssumption DEF TypeOK
<1>1. /\ Head(chunks) \in Nat
      /\ chunks' \in Seq(Nat)
      /\ Len(chunks) = Len(chunks') + 1
  BY DEF HandleChunk
<1>2. handled + 1 \in Reloads /\ handled' + Len(chunks') <= MaxReloads
  BY <1>1 DEF HandleChunk, Reloads
<1>3. pc' \in [Reloads -> {"none", "timer", "cancelled", "list", "endpoints",
                          "open", "write", "close", "pid", "parse",
                          "takeover", "done", "failed"}]
  BY <1>2 DEF HandleChunk, Rearm, CancelTimer
<1>4. trig' \in [Reloads -> Nat]
  BY <1>1, <1>2 DEF HandleChunk
<1> QED
  BY <1>1, <1>2, <1>3, <1>4 DEF HandleChunk, apiVars, proxyVars

\* A timer that fires and each step of a reload thread keep the types.
LEMMA ThreadType ==
    ASSUME NEW t \in Reloads, TypeOK, TimerFires(t) \/ Thread(t)
    PROVE  TypeOK'
<1> USE DEF TypeOK, Goto, apiVars, watchVars, threadVars, proxyVars
<1>1. CASE TimerFires(t)
  BY <1>1 DEF TimerFires
<1>2. CASE ListServices(t)
  BY <1>2 DEF ListServices
<1>3. CASE ReadFails(t)
  BY <1>3 DEF ReadFails
<1>4. ASSUME NEW s \in Services, ReadEndpoints(t, s) PROVE TypeOK'
  <2>1. snap' \in [Reloads -> [Services -> 0 .. MaxRev]]
    BY <1>4 DEF ReadEndpoints, LoadEndpoints
  <2> QED
    BY <1>4, <2>1 DEF ReadEndpoints
<1>5. CASE OpenConfig(t)
  BY <1>5 DEF OpenConfig
<1>6. CASE WriteConfig(t)
  BY <1>6 DEF WriteConfig
<1>7. CASE CloseConfig(t)
  BY <1>7 DEF CloseConfig, ClosedFile
<1>8. CASE ReadPid(t)
  BY <1>8 DEF ReadPid
<1>9. CASE ParseConfig(t)
  BY <1>9 DEF ParseConfig
<1>10. CASE TakeOver(t)
  BY <1>10 DEF TakeOver, Finish
<1> QED
  BY <1>1, <1>2, <1>3, <1>4, <1>5, <1>6, <1>7, <1>8, <1>9, <1>10 DEF Thread

\* Every reachable state has the types TypeOK gives.
THEOREM TypeCorrect == Spec => []TypeOK
<1>1. TypeOK /\ UNCHANGED vars => TypeOK'
  BY DEF TypeOK, vars, apiVars, watchVars, threadVars, proxyVars
<1>2. TypeOK /\ Next => TypeOK'
  BY ApiType, MainType, ThreadType DEF Next
<1> QED
  BY InitType, <1>1, <1>2, PTL DEF Spec

-----------------------------------------------------------------------------
(* The inductive invariant. Its parts, besides the properties themselves:  *)

\* Timers are numbered in the order main() made them.
Numbering == \A t \in Reloads : pc[t] = "none" <=> t > handled

\* No event is newer than the API server, nor is a change of the services.
RevisionsPast == svcRev <= rev /\ (\A t \in Reloads : trig[t] <= rev)
                 /\ \A i \in 1 .. Len(chunks) : chunks[i] <= rev

\* Before it reads its first endpoints a thread has none.
NothingRead ==
    \A t \in Reloads, s \in Services :
        pc[t] \in {"none", "timer", "list"} => snap[t][s] = 0

\* Two reloads that run at once are in overlapped, and so is one that started
\* while an older one was running.
OverlapsRecorded ==
    /\ \A t, u \in Reloads : t # u /\ Active(t) /\ Active(u) => t \in overlapped
    /\ \A t, u \in Reloads : u < t /\ Fired(t) /\ t \notin overlapped => ~Active(u)

\* The file is the one of a reload that runs alone from its open() on, and
\* stays so after the last reload until the next one starts.
FileOfCleanReload ==
    \A t \in Reloads :
        (Active(t) \/ t = handled) /\ t \notin overlapped =>
            /\ pc[t] \in {"write", "close"} => file.of = t
            /\ pc[t] \in {"pid", "parse", "takeover", "done"} =>
                   file = [of |-> t, state |-> "whole"]

\* What the last reload has read is current as long as no event is due.
SnapshotOfLast ==
    \A t \in Reloads :
        t = handled /\ connected /\ chunks = <<>> /\ svcRev <= trig[t] =>
            /\ pc[t] = "endpoints" =>
                 /\ todo[t] \subseteq svc
                 /\ \A s \in Services : s \in todo[t] \/ snap[t][s] = Target[s]
            /\ pc[t] \in {"open", "write", "close", "pid", "parse", "takeover", "done"} =>
                 \A s \in Services : snap[t][s] = Target[s]

\* Without overlap the pid a reload read is the one of the serving haproxy.
PidOfCleanReload ==
    overlapped = {} =>
        \A t \in Reloads : pc[t] \in {"parse", "takeover"} => oldpid[t] = pidfile

IInv == /\ TypeOK /\ Numbering /\ OnePendingTimer
        /\ RevisionsPast /\ NothingRead /\ SnapshotNotStale /\ SnapshotOfLast
        /\ OverlapsRecorded /\ FileOfCleanReload /\ CleanReloadServesItsSnapshot
        /\ PidOfCleanReload /\ NoOrphanWithoutOverlap

-----------------------------------------------------------------------------
(* What the steps have in common.                                          *)

\* The API server touches no timer, thread, file or haproxy.
LEMMA ApiStep ==
    ASSUME Api
    PROVE  UNCHANGED <<handled, pc, threadVars, file, proxyVars, overlapped>>
  BY DEF Api, CreateService, DeleteService, ServiceChange, SyncEndpoints,
         CollectEndpoints, EndpointsChange, WatchEnds, watchVars

\* A reload thread is active before its step, and started after it; it touches
\* neither the API server, nor the watch, nor the history.
LEMMA ThreadStep ==
    ASSUME NEW t \in Reloads, TypeOK, Thread(t)
    PROVE  /\ Active(t)
           /\ UNCHANGED <<apiVars, watchVars, trig, overlapped>>
           /\ \E x \in {"endpoints", "open", "write", "close", "pid", "parse",
                        "takeover", "done", "failed"} : pc' = [pc EXCEPT ![t] = x]
  BY DEF Thread, ListServices, ReadFails, ReadEndpoints, OpenConfig, WriteConfig,
         CloseConfig, ReadPid, ParseConfig, TakeOver, Goto, Active, threadVars

\* main() makes the timer of the next number and cancels at most the last one.
LEMMA MainStep ==
    ASSUME TypeOK, HandleChunk
    PROVE  /\ handled + 1 \in Reloads /\ handled' = handled + 1
           /\ pc' = Rearm(pc)
           /\ \A t \in Reloads :
                 pc'[t] = IF t = handled + 1 THEN "timer"
                          ELSE IF t = handled /\ pc[t] = "timer" THEN "cancelled"
                          ELSE pc[t]
           /\ UNCHANGED <<apiVars, connected, todo, snap, oldpid, image, file,
                          proxyVars, overlapped>>
<1>1. chunks # <<>> /\ Len(chunks) \in Nat \ {0}
  BY DEF HandleChunk, TypeOK
<1>2. handled + 1 \in Reloads
  BY <1>1, BoundsAssumption DEF TypeOK, Reloads
<1>3. \A t \in Reloads : CancelTimer(pc)[t] =
          IF t = handled /\ pc[t] = "timer" THEN "cancelled" ELSE pc[t]
  BY DEF CancelTimer
<1>4. pc' = [CancelTimer(pc) EXCEPT ![handled + 1] = "timer"]
      /\ DOMAIN CancelTimer(pc) = Reloads
  BY DEF HandleChunk, Rearm, CancelTimer
<1>5. \A t \in Reloads :
          pc'[t] = IF t = handled + 1 THEN "timer" ELSE CancelTimer(pc)[t]
  BY <1>4
<1> QED
  BY <1>2, <1>3, <1>5 DEF HandleChunk

-----------------------------------------------------------------------------
(* One lemma per part of the invariant.                                    *)

LEMMA NumberingStep ==
    ASSUME IInv, [Next]_vars PROVE Numbering' /\ OnePendingTimer'
<1> USE DEF IInv, Numbering, OnePendingTimer
<1>1. CASE Api
  BY <1>1, ApiStep
<1>2. CASE HandleChunk
  <2>1. /\ handled' = handled + 1 /\ handled \in Nat
        /\ \A t \in Reloads :
              pc'[t] = IF t = handled + 1 THEN "timer"
                       ELSE IF t = handled /\ pc[t] = "timer" THEN "cancelled"
                       ELSE pc[t]
    BY <1>2, MainStep DEF TypeOK
  <2> QED
    BY <2>1 DEF Reloads
<1>3. ASSUME NEW t \in Reloads, TimerFires(t)
      PROVE  Numbering' /\ OnePendingTimer'
  BY <1>3 DEF TypeOK, TimerFires, Goto, watchVars
<1>4. ASSUME NEW t \in Reloads, Thread(t)
      PROVE  Numbering' /\ OnePendingTimer'
  <2>1. PICK x \in {"endpoints", "open", "write", "close", "pid", "parse",
                    "takeover", "done", "failed"} : pc' = [pc EXCEPT ![t] = x]
    BY <1>4, ThreadStep
  <2>2. Active(t) /\ handled' = handled
    BY <1>4, ThreadStep DEF watchVars
  <2> QED
    BY <2>1, <2>2 DEF TypeOK, Active
<1>5. CASE UNCHANGED vars
  BY <1>5 DEF vars, watchVars
<1> QED
  BY <1>1, <1>2, <1>3, <1>4, <1>5 DEF Next

LEMMA OverlapsStep ==
    ASSUME IInv, [Next]_vars PROVE OverlapsRecorded'
<1> USE DEF IInv, OverlapsRecorded, Active, Fired
<1>1. CASE Api
  BY <1>1, ApiStep
<1>2. CASE HandleChunk
  BY <1>2, MainStep DEF Reloads, TypeOK, Numbering
<1>3. ASSUME NEW t \in Reloads, TimerFires(t)
      PROVE  OverlapsRecorded'
  <2>1. pc' = [pc EXCEPT ![t] = "list"] /\ pc[t] = "timer" /\ t = handled
    BY <1>3 DEF TimerFires, Goto, OnePendingTimer
  <2>2. \A u \in Reloads : pc[u] # "none" => u <= t
    BY <2>1 DEF Numbering, TypeOK, Reloads
  <2>3. CASE \A u \in Reloads : ~Active(u)
    <3>1. overlapped' = overlapped
      BY <1>3, <2>3 DEF TimerFires
    <3> QED
      BY <2>1, <2>2, <2>3, <3>1 DEF TypeOK, Reloads
  <2>4. CASE \E u \in Reloads : Active(u)
    <3>1. overlapped' = overlapped \cup {u \in Reloads : Active(u)} \cup {t}
      BY <1>3, <2>4 DEF TimerFires
    <3> QED
      BY <2>1, <2>2, <3>1 DEF TypeOK, Reloads
  <2> QED
    BY <2>3, <2>4
<1>4. ASSUME NEW t \in Reloads, Thread(t)
      PROVE  OverlapsRecorded'
  <2>1. PICK x \in {"endpoints", "open", "write", "close", "pid", "parse",
                    "takeover", "done", "failed"} : pc' = [pc EXCEPT ![t] = x]
    BY <1>4, ThreadStep
  <2>2. Active(t) /\ overlapped' = overlapped
    BY <1>4, ThreadStep
  <2> QED
    BY <2>1, <2>2 DEF TypeOK
<1>5. CASE UNCHANGED vars
  BY <1>5 DEF vars
<1> QED
  BY <1>1, <1>2, <1>3, <1>4, <1>5 DEF Next

\* Sequences of numbers up to n stay so when a number up to n is appended, and
\* when they are cut or their head is removed.
LEMMA AppendBound ==
    ASSUME NEW n \in Nat, NEW q \in Seq(Nat), NEW r \in Nat, r <= n,
           \A i \in 1 .. Len(q) : q[i] <= n
    PROVE  /\ Append(q, r) # <<>>
           /\ \A i \in 1 .. Len(Append(q, r)) : Append(q, r)[i] <= n
<1>1. Append(q, r) # <<>> /\ Len(Append(q, r)) = Len(q) + 1 /\ Len(q) \in Nat
  OBVIOUS
<1>2. ASSUME NEW i \in 1 .. Len(q) + 1 PROVE Append(q, r)[i] <= n
  <2>1. CASE i = Len(q) + 1
    BY <2>1
  <2>2. CASE i \in 1 .. Len(q)
    BY <2>2
  <2> QED
    BY <1>1, <2>1, <2>2
<1> QED
  BY <1>1, <1>2

LEMMA PrefixBound ==
    ASSUME NEW n \in Nat, NEW q \in Seq(Nat), NEW k \in 0 .. Len(q),
           \A i \in 1 .. Len(q) : q[i] <= n
    PROVE  \A i \in 1 .. Len(SubSeq(q, 1, k)) : SubSeq(q, 1, k)[i] <= n
  OBVIOUS

LEMMA TailBound ==
    ASSUME NEW n \in Nat, NEW q \in Seq(Nat), q # <<>>,
           \A i \in 1 .. Len(q) : q[i] <= n
    PROVE  Head(q) <= n /\ \A i \in 1 .. Len(Tail(q)) : Tail(q)[i] <= n
  OBVIOUS

EventsPast == \A i \in 1 .. Len(chunks) : chunks[i] <= rev

\* A change of the service list is a new revision and no event.
LEMMA ServiceStep ==
    ASSUME TypeOK, NEW new, ServiceChange(new)
    PROVE  /\ rev' = rev + 1 /\ svcRev' = rev + 1
           /\ UNCHANGED <<ep, connected, chunks>>
  BY DEF TypeOK, ServiceChange, watchVars

\* A change of an Endpoints object is a new revision and, while the watch is
\* open, an event.
LEMMA EndpointsStep ==
    ASSUME TypeOK, EventsPast, NEW s \in Services, NEW r \in {0, rev + 1},
           EndpointsChange(s, r)
    PROVE  /\ rev' = rev + 1 /\ UNCHANGED <<svc, svcRev, connected>>
           /\ ep' = [ep EXCEPT ![s] = r]
           /\ connected => chunks' # <<>>
           /\ EventsPast'
<1>1. /\ rev' = rev + 1 /\ rev \in Nat /\ chunks \in Seq(Nat)
      /\ ep' = [ep EXCEPT ![s] = r]
      /\ UNCHANGED <<svc, svcRev, connected>>
      /\ chunks' = IF connected THEN Append(chunks, rev + 1) ELSE chunks
  BY DEF TypeOK, EndpointsChange
<1>2. \A i \in 1 .. Len(chunks) : chunks[i] <= rev + 1
  BY <1>1 DEF EventsPast, TypeOK
<1>3. /\ Append(chunks, rev + 1) # <<>>
      /\ \A i \in 1 .. Len(Append(chunks, rev + 1)) :
             Append(chunks, rev + 1)[i] <= rev + 1
  <2>1. rev + 1 \in Nat /\ rev + 1 <= rev + 1 /\ chunks \in Seq(Nat)
    BY <1>1
  <2> QED
    BY <1>2, <2>1, AppendBound
<1>4. connected => chunks' # <<>>
  BY <1>1, <1>3
<1>5. \A i \in 1 .. Len(chunks') : chunks'[i] <= rev'
  <2>1. CASE connected
    <3>1. chunks' = Append(chunks, rev + 1) /\ rev' = rev + 1
      BY <1>1, <2>1
    <3> QED
      BY <1>3, <3>1
  <2>2. CASE ~connected
    <3>1. chunks' = chunks /\ rev' = rev + 1
      BY <1>1, <2>2
    <3> QED
      BY <1>2, <3>1
  <2> QED
    BY <2>1, <2>2
<1> QED
  BY <1>1, <1>4, <1>5 DEF EventsPast

\* The end of the watch changes nothing of the API server.
LEMMA WatchStep ==
    ASSUME TypeOK, EventsPast, WatchEnds
    PROVE  ~connected' /\ UNCHANGED apiVars /\ EventsPast'
<1>1. rev \in Nat /\ chunks \in Seq(Nat) /\ ~connected' /\ UNCHANGED apiVars
  BY DEF TypeOK, WatchEnds
<1>2. CASE chunks' = Append(chunks, rev)
  BY <1>1, <1>2, AppendBound DEF EventsPast, apiVars
<1>3. ASSUME NEW k \in 0 .. Len(chunks), chunks' = SubSeq(chunks, 1, k)
      PROVE  EventsPast'
  BY <1>1, <1>3, PrefixBound DEF EventsPast, apiVars
<1> QED
  BY <1>1, <1>2, <1>3 DEF WatchEnds

\* The three kinds of step the API server takes.
LEMMA ApiCases ==
    ASSUME Api
    PROVE  \/ \E new : ServiceChange(new)
           \/ \E s \in Services, r \in {0, rev + 1} : EndpointsChange(s, r)
           \/ WatchEnds
  BY DEF Api, CreateService, DeleteService, SyncEndpoints, CollectEndpoints

LEMMA RevisionsStep ==
    ASSUME IInv, [Next]_vars PROVE RevisionsPast'
<1> USE DEF RevisionsPast
<1>1. TypeOK /\ EventsPast /\ RevisionsPast
  BY DEF IInv, EventsPast
<1>2. CASE \E new : ServiceChange(new)
  BY <1>1, <1>2, ServiceStep DEF TypeOK, ServiceChange, threadVars
<1>3. CASE \E s \in Services, r \in {0, rev + 1} : EndpointsChange(s, r)
  <2>1. rev' = rev + 1 /\ svcRev' = svcRev /\ EventsPast' /\ trig' = trig
    BY <1>1, <1>3, EndpointsStep DEF EndpointsChange, threadVars
  <2> QED
    BY <1>1, <2>1 DEF TypeOK, EventsPast
<1>4. CASE WatchEnds
  <2>1. rev' = rev /\ svcRev' = svcRev /\ EventsPast' /\ trig' = trig
    BY <1>1, <1>4, WatchStep DEF WatchEnds, apiVars, threadVars
  <2> QED
    BY <1>1, <2>1 DEF EventsPast
<1>5. CASE HandleChunk
  <2>1. /\ rev \in Nat /\ chunks \in Seq(Nat) /\ chunks # <<>>
        /\ chunks' = Tail(chunks) /\ rev' = rev /\ svcRev' = svcRev
        /\ trig' = [trig EXCEPT ![handled + 1] = Head(chunks)]
    BY <1>1, <1>5 DEF TypeOK, HandleChunk, apiVars
  <2>2. Head(chunks) <= rev /\ EventsPast'
    BY <1>1, <2>1, TailBound DEF EventsPast
  <2> QED
    BY <1>1, <2>1, <2>2 DEF EventsPast, TypeOK
<1>6. ASSUME NEW t \in Reloads, TimerFires(t) \/ Thread(t)
      PROVE  RevisionsPast'
  <2>1. UNCHANGED <<apiVars, watchVars, trig>>
    BY <1>1, <1>6, ThreadStep DEF TimerFires, threadVars
  <2> QED
    BY <1>1, <2>1 DEF apiVars, watchVars
<1>7. CASE UNCHANGED vars
  BY <1>1, <1>7 DEF vars, apiVars, watchVars, threadVars
<1> QED
  BY <1>2, <1>3, <1>4, <1>5, <1>6, <1>7, ApiCases DEF Next

\* A thread only ever writes in its snapshot what the API server holds.
LEMMA ThreadReads ==
    ASSUME NEW t \in Reloads, TypeOK, Thread(t)
    PROVE  /\ \A u \in Reloads, s \in Services :
                 snap'[u][s] = snap[u][s] \/ snap'[u][s] = ep[s]
           /\ \A u \in Reloads : u # t => snap'[u] = snap[u]
<1>1. ASSUME NEW s \in Services, ReadEndpoints(t, s)
      PROVE  snap' = [snap EXCEPT ![t] = [snap[t] EXCEPT ![s] = ep[s]]]
  BY <1>1 DEF ReadEndpoints, LoadEndpoints
<1>2. ASSUME ~\E s \in Services : ReadEndpoints(t, s) PROVE snap' = snap
  BY <1>2 DEF Thread, ListServices, ReadFails, OpenConfig, WriteConfig,
              CloseConfig, ReadPid, ParseConfig, TakeOver, threadVars
<1>3. CASE snap' = snap
  BY <1>3
<1>4. ASSUME NEW s \in Services,
             snap' = [snap EXCEPT ![t] = [snap[t] EXCEPT ![s] = ep[s]]]
      PROVE  /\ \A u \in Reloads, x \in Services :
                   snap'[u][x] = snap[u][x] \/ snap'[u][x] = ep[x]
             /\ \A u \in Reloads : u # t => snap'[u] = snap[u]
  BY <1>4 DEF TypeOK
<1> QED
  BY <1>1, <1>2, <1>3, <1>4

LEMMA SnapshotStep ==
    ASSUME IInv, [Next]_vars PROVE NothingRead' /\ SnapshotNotStale'
<1> USE DEF NothingRead, SnapshotNotStale
<1>1. /\ TypeOK /\ Numbering /\ RevisionsPast /\ EventsPast
      /\ NothingRead /\ SnapshotNotStale
  BY DEF IInv, RevisionsPast, EventsPast
<1>2. CASE Api
  <2>1. \A s \in Services : ep'[s] = ep[s] \/ ep'[s] = 0 \/ ep'[s] = rev + 1
    <3>1. CASE \E new : ServiceChange(new)
      BY <1>1, <3>1, ServiceStep
    <3>2. CASE \E s \in Services, r \in {0, rev + 1} : EndpointsChange(s, r)
      BY <1>1, <3>2 DEF EndpointsChange, TypeOK
    <3>3. CASE WatchEnds
      BY <1>1, <3>3, WatchStep DEF apiVars
    <3> QED
      BY <1>2, <3>1, <3>2, <3>3, ApiCases
  <2>2. UNCHANGED <<pc, trig, snap>>
    BY <1>2, ApiStep DEF threadVars
  <2>3. \A t \in Reloads : trig[t] \in Nat /\ trig[t] <= rev /\ rev \in Nat
    BY <1>1 DEF TypeOK, RevisionsPast
  <2> QED
    BY <1>1, <2>1, <2>2, <2>3
<1>3. CASE HandleChunk
  <2>1. /\ handled + 1 \in Reloads /\ UNCHANGED <<snap, ep>>
        /\ trig' = [trig EXCEPT ![handled + 1] = Head(chunks)]
        /\ \A t \in Reloads : (pc'[t] = "timer" /\ t = handled + 1)
                             \/ pc'[t] = "cancelled" \/ pc'[t] = pc[t]
    BY <1>1, <1>3, MainStep DEF HandleChunk, apiVars
  <2>2. pc[handled + 1] = "none"
    BY <1>1, <2>1 DEF Numbering, TypeOK
  <2> QED
    BY <1>1, <2>1, <2>2 DEF TypeOK
<1>4. ASSUME NEW t \in Reloads, TimerFires(t)
      PROVE  NothingRead' /\ SnapshotNotStale'
  BY <1>1, <1>4 DEF TimerFires, Goto, TypeOK, threadVars, apiVars
<1>5. ASSUME NEW t \in Reloads, Thread(t)
      PROVE  NothingRead' /\ SnapshotNotStale'
  <2>1. PICK x \in {"endpoints", "open", "write", "close", "pid", "parse",
                    "takeover", "done", "failed"} : pc' = [pc EXCEPT ![t] = x]
    BY <1>1, <1>5, ThreadStep
  <2>2. UNCHANGED <<ep, trig>>
    BY <1>1, <1>5, ThreadStep DEF apiVars
  <2>3. /\ \A u \in Reloads, s \in Services :
               snap'[u][s] = snap[u][s] \/ snap'[u][s] = ep[s]
        /\ \A u \in Reloads : u # t => snap'[u] = snap[u]
    BY <1>1, <1>5, ThreadReads
  <2>4. /\ pc'[t] \notin {"none", "timer", "list"}
        /\ \A u \in Reloads : u # t => pc'[u] = pc[u] /\ snap'[u] = snap[u]
    BY <1>1, <2>1, <2>3 DEF TypeOK
  <2>5. NothingRead'
    BY <1>1, <2>4
  <2>6. ASSUME NEW u \in Reloads, NEW s \in Services,
               snap'[u][s] # 0, ep'[s] # 0, ep'[s] <= trig'[u]
        PROVE  snap'[u][s] = ep'[s]
    <3>1. ep'[s] = ep[s] /\ trig'[u] = trig[u]
      BY <2>2
    <3>2. CASE snap'[u][s] = ep[s]
      BY <3>1, <3>2
    <3>3. CASE snap'[u][s] = snap[u][s]
      BY <1>1, <2>6, <3>1, <3>3
    <3> QED
      BY <2>3, <3>2, <3>3
  <2> QED
    BY <2>5, <2>6
<1>6. CASE UNCHANGED vars
  BY <1>1, <1>6 DEF vars, threadVars, apiVars
<1> QED
  BY <1>2, <1>3, <1>4, <1>5, <1>6 DEF Next

LEMMA LastSnapshotStep ==
    ASSUME IInv, [Next]_vars PROVE SnapshotOfLast'
<1> USE DEF SnapshotOfLast
<1>1. /\ TypeOK /\ Numbering /\ RevisionsPast /\ EventsPast
      /\ NothingRead /\ SnapshotOfLast
  BY DEF IInv, RevisionsPast, EventsPast
<1>2. CASE Api
  <2>1. CASE \E new : ServiceChange(new)
    <3>1. svcRev' = rev + 1 /\ trig' = trig
      BY <1>1, <1>2, <2>1, ServiceStep, ApiStep DEF threadVars
    <3> QED
      BY <1>1, <3>1 DEF RevisionsPast, TypeOK
  <2>2. CASE \E s \in Services, r \in {0, rev + 1} : EndpointsChange(s, r)
    BY <1>1, <2>2, EndpointsStep
  <2>3. CASE WatchEnds
    BY <1>1, <2>3, WatchStep
  <2> QED
    BY <1>2, <2>1, <2>2, <2>3, ApiCases
<1>3. CASE HandleChunk
  <2>1. handled' \in Reloads /\ pc'[handled'] = "timer"
    BY <1>1, <1>3, MainStep
  <2> QED
    BY <2>1
<1>4. ASSUME NEW t \in Reloads, TimerFires(t) PROVE SnapshotOfLast'
  BY <1>1, <1>4 DEF TimerFires, Goto, TypeOK, Target, threadVars, apiVars, watchVars
<1>5. ASSUME NEW t \in Reloads, ListServices(t) PROVE SnapshotOfLast'
  <2>1. \A s \in Services : snap[t][s] = 0
    BY <1>1, <1>5 DEF NothingRead, ListServices, Goto
  <2> QED
    BY <1>1, <1>5, <2>1 DEF ListServices, Goto, TypeOK, Target, apiVars, watchVars
<1>6. ASSUME NEW t \in Reloads, NEW s \in Services, ReadEndpoints(t, s)
      PROVE  SnapshotOfLast'
  <2>1. /\ todo' = [todo EXCEPT ![t] = todo[t] \ {s}]
        /\ snap' = [snap EXCEPT ![t] = [snap[t] EXCEPT ![s] = ep[s]]]
        /\ s \in todo[t]
        /\ pc[t] = "endpoints"
        /\ pc' = [pc EXCEPT ![t] = IF todo[t] = {s} THEN "open" ELSE "endpoints"]
        /\ UNCHANGED <<svc, ep, svcRev, connected, chunks, handled, trig>>
    BY <1>6 DEF ReadEndpoints, LoadEndpoints, Goto, apiVars, watchVars
  <2> QED
    BY <1>1, <2>1 DEF TypeOK, Target
<1>7. ASSUME NEW t \in Reloads, ReadFails(t) PROVE SnapshotOfLast'
  BY <1>1, <1>7 DEF ReadFails, TypeOK, Target, apiVars, watchVars, threadVars
<1>8. ASSUME NEW t \in Reloads,
             \/ OpenConfig(t) \/ WriteConfig(t) \/ CloseConfig(t)
             \/ ReadPid(t) \/ ParseConfig(t) \/ TakeOver(t)
      PROVE  SnapshotOfLast'
  <2>1. /\ UNCHANGED <<apiVars, watchVars, trig, todo, snap>>
        /\ pc[t] \in {"open", "write", "close", "pid", "parse", "takeover"}
        /\ \E x \in {"write", "close", "pid", "parse", "takeover", "done", "failed"} :
               pc' = [pc EXCEPT ![t] = x]
    BY <1>8 DEF OpenConfig, WriteConfig, CloseConfig, ReadPid, ParseConfig,
                TakeOver, Goto, threadVars
  <2> QED
    BY <1>1, <2>1 DEF TypeOK, Target, apiVars, watchVars
<1>9. CASE UNCHANGED vars
  BY <1>1, <1>9 DEF vars, threadVars, apiVars, watchVars, Target
<1> QED
  BY <1>2, <1>3, <1>4, <1>5, <1>6, <1>7, <1>8, <1>9 DEF Next, Thread

\* While a thread runs, no other reload without overlap is running or last.
LEMMA SoleWriter ==
    ASSUME IInv, NEW u \in Reloads, Active(u),
           NEW t \in Reloads, t # u, t \notin overlapped
    PROVE  ~Active(t) /\ (t = handled => ~Fired(t))
<1>1. ~Active(t)
  BY DEF IInv, OverlapsRecorded
<1>2. ASSUME t = handled, Fired(t) PROVE FALSE
  <2>1. u < t
    BY <1>2 DEF IInv, Numbering, Active, Reloads
  <2> QED
    BY <1>2, <2>1 DEF IInv, OverlapsRecorded
<1> QED
  BY <1>1, <1>2

LEMMA FileStep ==
    ASSUME IInv, [Next]_vars PROVE FileOfCleanReload' /\ CleanReloadServesItsSnapshot'
<1> USE DEF FileOfCleanReload, CleanReloadServesItsSnapshot
<1>1. TypeOK /\ FileOfCleanReload /\ CleanReloadServesItsSnapshot
  BY DEF IInv
<1>2. CASE Api
  BY <1>1, <1>2, ApiStep DEF Active, threadVars
<1>3. CASE HandleChunk
  <2>1. UNCHANGED <<image, file, overlapped>>
    BY <1>1, <1>3, MainStep
  <2>2. \A t \in Reloads : t = handled' => pc'[t] = "timer"
    BY <1>1, <1>3, MainStep
  <2>3. \A t \in Reloads : pc'[t] = "timer" \/ pc'[t] = "cancelled" \/ pc'[t] = pc[t]
    BY <1>1, <1>3, MainStep
  <2> QED
    BY <1>1, <2>1, <2>2, <2>3 DEF Active
<1>4. ASSUME NEW t \in Reloads, TimerFires(t)
      PROVE  FileOfCleanReload' /\ CleanReloadServesItsSnapshot'
  <2>1. /\ pc' = [pc EXCEPT ![t] = "list"] /\ overlapped \subseteq overlapped'
        /\ UNCHANGED <<handled, image, file>>
    BY <1>4 DEF TimerFires, Goto, threadVars, watchVars
  <2> QED
    BY <1>1, <2>1 DEF TypeOK, Active
<1>5. ASSUME NEW u \in Reloads, Thread(u)
      PROVE  FileOfCleanReload' /\ CleanReloadServesItsSnapshot'
  <2>1. Active(u) /\ UNCHANGED <<handled, overlapped>>
    BY <1>1, <1>5, ThreadStep DEF watchVars
  <2>2. \A t \in Reloads : t # u => pc'[t] = pc[t] /\ image'[t] = image[t]
    <3>1. \A t \in Reloads : t # u => pc'[t] = pc[t]
      <4>1. \E x : pc' = [pc EXCEPT ![u] = x]
        BY <1>1, <1>5, ThreadStep
      <4> QED
        BY <1>1, <4>1 DEF TypeOK
    <3>2. \A t \in Reloads : t # u => image'[t] = image[t]
      BY <1>1, <1>5 DEF TypeOK, Thread, ListServices, ReadFails, ReadEndpoints,
                        OpenConfig, WriteConfig, CloseConfig, ReadPid,
                        ParseConfig, TakeOver, threadVars
    <3> QED
      BY <3>1, <3>2
  <2>3. \A t \in Reloads : t # u /\ t \notin overlapped =>
            ~Active(t) /\ (t = handled => ~Fired(t))
    BY <2>1, SoleWriter
  <2>4. u \notin overlapped =>
            /\ pc'[u] \in {"write", "close"} => file'.of = u
            /\ pc'[u] \in {"pid", "parse", "takeover", "done"} =>
                   file' = [of |-> u, state |-> "whole"]
            /\ pc'[u] \in {"takeover", "done"} => image'[u] = u
    <3> USE <1>1, <2>1 DEF TypeOK, Goto, Active, threadVars
    <3>1. CASE ListServices(u)
      BY <3>1 DEF ListServices
    <3>2. CASE ReadFails(u)
      BY <3>2 DEF ReadFails
    <3>3. ASSUME NEW s \in Services, ReadEndpoints(u, s)
          PROVE  pc'[u] \in {"endpoints", "open"}
      BY <3>3 DEF ReadEndpoints
    <3>4. CASE OpenConfig(u)
      BY <3>4 DEF OpenConfig
    <3>5. CASE WriteConfig(u)
      BY <3>5 DEF WriteConfig
    <3>6. CASE CloseConfig(u)
      BY <3>6 DEF CloseConfig, ClosedFile
    <3>7. CASE ReadPid(u)
      BY <3>7 DEF ReadPid
    <3>8. CASE ParseConfig(u)
      BY <3>8 DEF ParseConfig
    <3>9. CASE TakeOver(u)
      BY <3>9 DEF TakeOver
    <3> QED
      BY <1>5, <3>1, <3>2, <3>3, <3>4, <3>5, <3>6, <3>7, <3>8, <3>9 DEF Thread
  <2> QED
    BY <1>1, <2>1, <2>2, <2>3, <2>4 DEF Active, Fired
<1>6. CASE UNCHANGED vars
  BY <1>1, <1>6 DEF vars, threadVars, watchVars, Active
<1> QED
  BY <1>2, <1>3, <1>4, <1>5, <1>6 DEF Next

LEMMA PidStep ==
    ASSUME IInv, [Next]_vars PROVE PidOfCleanReload' /\ NoOrphanWithoutOverlap'
<1> USE DEF PidOfCleanReload, NoOrphanWithoutOverlap
<1>1. TypeOK /\ PidOfCleanReload /\ NoOrphanWithoutOverlap
  BY DEF IInv
<1>2. CASE Api
  BY <1>1, <1>2, ApiStep DEF threadVars, proxyVars
<1>3. CASE HandleChunk
  <2>1. /\ UNCHANGED <<oldpid, proxyVars, overlapped>>
        /\ \A t \in Reloads : pc'[t] \in {"timer", "cancelled", pc[t]}
    BY <1>1, <1>3, MainStep
  <2> QED
    BY <1>1, <2>1 DEF proxyVars
<1>4. ASSUME NEW t \in Reloads, TimerFires(t)
      PROVE  PidOfCleanReload' /\ NoOrphanWithoutOverlap'
  <2>1. /\ pc' = [pc EXCEPT ![t] = "list"] /\ overlapped \subseteq overlapped'
        /\ UNCHANGED <<oldpid, proxyVars>>
    BY <1>4 DEF TimerFires, Goto, threadVars
  <2> QED
    BY <1>1, <2>1 DEF TypeOK, proxyVars
<1>5. ASSUME NEW u \in Reloads, Thread(u)
      PROVE  PidOfCleanReload' /\ NoOrphanWithoutOverlap'
  <2>1. SUFFICES ASSUME overlapped = {}
        PROVE  PidOfCleanReload' /\ NoOrphanWithoutOverlap'
    BY <1>1, <1>5, ThreadStep
  <2>2. Active(u) /\ \A t \in Reloads : t # u => ~Active(t)
    BY <1>1, <1>5, <2>1, ThreadStep, SoleWriter
  <2>3. CASE ReadPid(u)
    BY <1>1, <2>2, <2>3 DEF ReadPid, Goto, TypeOK, Active, proxyVars
  <2>4. CASE ParseConfig(u)
    BY <1>1, <2>2, <2>4 DEF ParseConfig, Goto, TypeOK, Active, proxyVars
  <2>5. CASE TakeOver(u)
    <3>1. /\ pc' = [pc EXCEPT ![u] = "done"] /\ oldpid' = oldpid
          /\ serving' = (serving \ {oldpid[u]}) \cup {u} /\ pidfile' = u
          /\ oldpid[u] = pidfile
      BY <1>1, <2>1, <2>5 DEF TakeOver, Finish, Goto, threadVars
    <3>2. serving' \subseteq {pidfile'}
      BY <1>1, <2>1, <3>1
    <3> QED
      BY <1>1, <2>2, <3>1, <3>2 DEF TypeOK, Active
  <2>6. ASSUME \/ ListServices(u) \/ ReadFails(u)
               \/ \E s \in Services : ReadEndpoints(u, s)
               \/ OpenConfig(u) \/ WriteConfig(u) \/ CloseConfig(u)
        PROVE  PidOfCleanReload' /\ NoOrphanWithoutOverlap'
    <3>1. /\ UNCHANGED <<oldpid, pidfile, serving>>
          /\ \E x \in {"endpoints", "open", "write", "close", "pid", "failed"} :
                 pc' = [pc EXCEPT ![u] = x]
      BY <2>6 DEF ListServices, ReadFails, ReadEndpoints, OpenConfig,
                  WriteConfig, CloseConfig, Goto, threadVars, proxyVars
    <3> QED
      BY <1>1, <2>1, <3>1 DEF TypeOK
  <2> QED
    BY <1>5, <2>3, <2>4, <2>5, <2>6 DEF Thread
<1>6. CASE UNCHANGED vars
  BY <1>1, <1>6 DEF vars, threadVars, proxyVars
<1> QED
  BY <1>2, <1>3, <1>4, <1>5, <1>6 DEF Next

-----------------------------------------------------------------------------
(* The theorems.                                                           *)

LEMMA InitInv == Init => IInv
<1> SUFFICES ASSUME Init PROVE IInv
  OBVIOUS
<1>1. TypeOK
  BY InitType
<1>2. Numbering /\ OnePendingTimer /\ NothingRead /\ SnapshotNotStale
  BY DEF Init, Numbering, OnePendingTimer, NothingRead, SnapshotNotStale, Reloads
<1>3. RevisionsPast
  <2>1. Cardinality(svc) \in Nat
    BY BoundsAssumption, FS_Subset, FS_CardinalityType DEF Init
  <2>2. \A i \in 1 .. Len(chunks) : chunks[i] = 1
    BY <2>1, Repeated DEF Init
  <2>3. rev = 1 /\ svcRev = 1 /\ \A t \in Reloads : trig[t] = 0
    BY DEF Init
  <2> QED
    BY <2>2, <2>3 DEF RevisionsPast
<1>4. /\ SnapshotOfLast /\ OverlapsRecorded /\ FileOfCleanReload
      /\ CleanReloadServesItsSnapshot /\ PidOfCleanReload /\ NoOrphanWithoutOverlap
  BY DEF Init, SnapshotOfLast, OverlapsRecorded, FileOfCleanReload, Active, Fired,
         CleanReloadServesItsSnapshot, PidOfCleanReload, NoOrphanWithoutOverlap
<1> QED
  BY <1>1, <1>2, <1>3, <1>4 DEF IInv

\* The invariant is inductive.
THEOREM Invariance == Spec => []IInv
<1>1. IInv /\ [Next]_vars => IInv'
  <2> SUFFICES ASSUME IInv, [Next]_vars PROVE IInv'
    OBVIOUS
  <2>1. TypeOK'
    <3>1. CASE UNCHANGED vars
      BY <3>1 DEF IInv, TypeOK, vars, apiVars, watchVars, threadVars, proxyVars
    <3> QED
      BY <3>1, ApiType, MainType, ThreadType DEF IInv, Next
  <2> QED
    BY <2>1, NumberingStep, OverlapsStep, RevisionsStep, SnapshotStep,
       LastSnapshotStep, FileStep, PidStep DEF IInv
<1> QED
  BY InitInv, <1>1, PTL DEF Spec

\* Of all timers only the one made last can be waiting.
THEOREM DebounceIsSafe == Spec => []OnePendingTimer
<1>1. IInv => OnePendingTimer
  BY DEF IInv
<1> QED
  BY Invariance, <1>1, PTL

\* No reload uses endpoints older than the event that started it.
THEOREM SnapshotsFollowEvents == Spec => []SnapshotNotStale
<1>1. IInv => SnapshotNotStale
  BY DEF IInv
<1> QED
  BY Invariance, <1>1, PTL

\* A reload that runs alone puts exactly its own snapshot in service, and as
\* long as no two overlap no haproxy is left behind.
THEOREM CleanReloads ==
    Spec => [](CleanReloadServesItsSnapshot /\ NoOrphanWithoutOverlap)
<1>1. IInv => CleanReloadServesItsSnapshot /\ NoOrphanWithoutOverlap
  BY DEF IInv
<1> QED
  BY Invariance, <1>1, PTL

\* Without overlapping reloads the process in the pid file is the only one that serves.
THEOREM NoneIsOrphaned == Spec => []NoOrphanWithoutOverlap
  BY CleanReloads, PTL

\* Convergence: a quiet balancer whose last reload ran alone has written the
\* services and endpoints the API server holds.
THEOREM Convergence == Spec => []CurrentWhenQuiet
<1>1. IInv => CurrentWhenQuiet
  <2> SUFFICES ASSUME IInv, NEW t \in Reloads,
                      t = handled, pc[t] = "done", t \notin overlapped,
                      connected, chunks = <<>>, svcRev <= trig[t]
               PROVE  file = [of |-> t, state |-> "whole"] /\ snap[t] = Target
    BY DEF CurrentWhenQuiet
  <2>1. file = [of |-> t, state |-> "whole"]
    BY DEF IInv, FileOfCleanReload
  <2>2. \A s \in Services : snap[t][s] = Target[s]
    BY DEF IInv, SnapshotOfLast
  <2>3. snap[t] \in [Services -> 0 .. MaxRev]
    BY DEF IInv, TypeOK
  <2>4. Target = [s \in Services |-> Target[s]]
    BY DEF Target
  <2> QED
    BY <2>1, <2>2, <2>3, <2>4
<1> QED
  BY Invariance, <1>1, PTL

-----------------------------------------------------------------------------
(* The refinement of Debounce.                                             *)

Newest(n) == /\ n \in 0 .. handled
             /\ n = 0 \/ Fired(n)
             /\ \A m \in n + 1 .. handled : ~Fired(m)

\* At most one number is the newest reload that started; Covered is that one.
LEMMA CoveredIsNewest ==
    ASSUME handled \in Nat, NEW n, Newest(n)
    PROVE  Covered = n
<1>1. \A k : Newest(k) => k = n
  <2> SUFFICES ASSUME NEW k, Newest(k), k # n PROVE FALSE
    OBVIOUS
  <2>1. CASE k < n
    BY <2>1 DEF Newest
  <2>2. CASE n < k
    BY <2>2 DEF Newest
  <2> QED
    BY <2>1, <2>2 DEF Newest
<1>2. Covered = CHOOSE k \in 0 .. handled : Newest(k)
  BY DEF Covered, Newest
<1> QED
  BY <1>1, <1>2 DEF Newest

HasNewest == handled \in Nat /\ \E n : Newest(n)

\* Each step of the balancer is a step of Debounce or changes nothing of it.
LEMMA DebounceStep ==
    ASSUME IInv, HasNewest, [Next]_vars
    PROVE  HasNewest' /\ [Debounced!Next]_<<handled, Covered>>
<1> PICK n : Newest(n)
  BY DEF HasNewest
<1>1. handled \in Nat /\ Covered = n /\ TypeOK
  BY CoveredIsNewest DEF HasNewest, IInv
<1>2. ASSUME NEW k, Newest(k)', handled' \in Nat PROVE HasNewest' /\ Covered' = k
  <2>1. \A j : Newest(j)' => j = k
    <3> SUFFICES ASSUME NEW j, Newest(j)', j # k PROVE FALSE
      OBVIOUS
    <3>1. CASE j < k
      BY <1>2, <3>1 DEF Newest
    <3>2. CASE k < j
      BY <1>2, <3>2 DEF Newest
    <3> QED
      BY <1>2, <3>1, <3>2 DEF Newest
  <2>2. Covered' = CHOOSE j \in 0 .. handled' : Newest(j)'
    BY DEF Covered, Newest
  <2> QED
    BY <1>2, <2>1, <2>2 DEF HasNewest, Newest
<1>3. CASE handled' = handled /\ \A t \in 1 .. handled : Fired(t)' <=> Fired(t)
  <2>1. Newest(n)'
    BY <1>1, <1>3 DEF Newest
  <2> QED
    BY <1>1, <1>2, <1>3, <2>1
<1>4. CASE HandleChunk
  <2>1. /\ handled + 1 \in Reloads /\ handled' = handled + 1
        /\ \A t \in Reloads :
              pc'[t] = IF t = handled + 1 THEN "timer"
                       ELSE IF t = handled /\ pc[t] = "timer" THEN "cancelled"
                       ELSE pc[t]
    BY <1>1, <1>4, MainStep
  <2>2. /\ \A t \in 1 .. handled : Fired(t)' <=> Fired(t)
        /\ \A t \in Reloads : t = handled + 1 => ~Fired(t)'
    BY <1>1, <2>1, BoundsAssumption DEF Fired, Reloads
  <2>3. Newest(n)'
    <3>1. \A m \in n + 1 .. handled + 1 : m \in n + 1 .. handled \/ m = handled + 1
      BY <1>1 DEF Newest
    <3>2. n \in 0 .. handled /\ (n = 0 \/ n \in 1 .. handled)
      BY <1>1 DEF Newest
    <3>3. \A m \in n + 1 .. handled : m \in 1 .. handled
      BY <3>2
    <3> QED
      BY <1>1, <2>1, <2>2, <3>1, <3>2, <3>3 DEF Newest
  <2> QED
    BY <1>1, <1>2, <2>1, <2>3 DEF Debounced!Next, Debounced!Event
<1>5. ASSUME NEW t \in Reloads, TimerFires(t)
      PROVE  HasNewest' /\ [Debounced!Next]_<<handled, Covered>>
  <2>1. /\ t = handled /\ handled' = handled /\ ~Fired(t) /\ Fired(t)'
    BY <1>1, <1>5 DEF TimerFires, Goto, Fired, TypeOK, watchVars, IInv, OnePendingTimer
  <2>2. Newest(t)'
    BY <1>1, <2>1 DEF Newest, Reloads
  <2>3. n # t /\ n <= t
    BY <1>1, <2>1 DEF Newest, Reloads
  <2> QED
    BY <1>1, <1>2, <2>1, <2>2, <2>3 DEF Debounced!Next, Debounced!Start, Newest
<1>6. ASSUME NEW t \in Reloads, Thread(t)
      PROVE  handled' = handled /\ \A u \in 1 .. handled : Fired(u)' <=> Fired(u)
  <2>1. PICK x \in {"endpoints", "open", "write", "close", "pid", "parse",
                    "takeover", "done", "failed"} : pc' = [pc EXCEPT ![t] = x]
    BY <1>1, <1>6, ThreadStep
  <2>2. Active(t) /\ handled' = handled
    BY <1>1, <1>6, ThreadStep DEF watchVars
  <2> QED
    BY <1>1, <2>1, <2>2 DEF TypeOK, Active, Fired
<1>7. CASE Api
  BY <1>3, <1>7, ApiStep DEF Fired
<1>8. CASE UNCHANGED vars
  BY <1>3, <1>8 DEF vars, watchVars, Fired
<1> QED
  BY <1>3, <1>4, <1>5, <1>6, <1>7, <1>8 DEF Next

\* The balancer implements Debounce: a reload that starts answers every event
\* read before, and no event is forgotten.
THEOREM Refinement == Spec => Debounced!Spec
<1>1. Init => HasNewest /\ Debounced!Init
  <2> SUFFICES ASSUME Init PROVE HasNewest /\ Debounced!Init
    OBVIOUS
  <2>1. handled = 0 /\ Newest(0)
    BY DEF Init, Newest
  <2> QED
    BY <2>1, CoveredIsNewest DEF HasNewest, Debounced!Init
<1>2. IInv /\ HasNewest /\ [Next]_vars =>
          HasNewest' /\ [Debounced!Next]_(Debounced!vars)
  BY DebounceStep DEF Debounced!vars
<1> QED
  BY Invariance, <1>1, <1>2, PTL DEF Spec, Debounced!Spec
=============================================================================
