-------------------------- MODULE MysqlInitProofs --------------------------
(* That a set-up of the MySQL master that was finished is complete, for any *)
(* number of polls, waits and crashes.                                      *)
EXTENDS MysqlInit, TLAPS

\* Why peter and demo appear in this order, on initialised tables only, and why what is
\* missing was cut: root is created once on whole tables; the script creates the user
\* before the database, and ends or goes on when it created both.
Order ==
    /\ root # "empty" => system = "whole"
    /\ entry \in {"wait", "create root", "grant root", "stop"} => system = "whole"
    /\ entry \in {"initialize", "wait", "create root"} /\ up => root = "empty"
    /\ entry = "grant root" /\ up => root = "bare"
    /\ system = "absent" => root = "empty"
    /\ script \in Creating => peter
    /\ script = "create table" => demo # "none"
    /\ peter /\ demo # "table" => cut \/ (up /\ script \in Creating)

IInv == TypeOK /\ SetUpIsComplete /\ Order

-----------------------------------------------------------------------------
(* Bounded counters.                                                       *)

LEMMA Zero == ASSUME NEW n \in Nat PROVE 0 \in 0 .. n
  OBVIOUS

LEMMA CountsOn == ASSUME NEW n \in Nat, NEW i \in 0 .. n, i < n \/ i # n PROVE i + 1 \in 0 .. n
  OBVIOUS

LEMMA Bounds == 0 \in 0 .. MaxTries /\ 0 \in 0 .. MaxWaits /\ 0 \in 0 .. MaxCrashes
  BY BoundsAssumption, Zero

-----------------------------------------------------------------------------
(* The invariant in two parts: what the scripts and the server are at, and *)
(* the counters.                                                           *)

Modes ==
    /\ system \in {"absent", "partial", "whole"}
    /\ root \in {"empty", "bare", "full"}
    /\ demo \in {"none", "database", "table"}
    /\ entry \in {"begin", "initialize", "wait", "create root", "grant root", "stop",
                  "exec", "mysqld", "failed"}
    /\ server \in {"none", "temporary", "real"}
    /\ script \in {"poll", "check", "grant", "fg"} \cup Creating

Flags == peter \in BOOLEAN /\ up \in BOOLEAN /\ ready \in BOOLEAN /\ prompt \in BOOLEAN /\ cut \in BOOLEAN

Counters == tries \in 0 .. MaxTries /\ waits \in 0 .. MaxWaits /\ crashes \in 0 .. MaxCrashes

LEMMA Parts == IInv <=> Modes /\ Flags /\ Counters /\ SetUpIsComplete /\ Order
<1>1. TypeOK <=> Modes /\ Flags /\ Counters
  BY Zenon DEF TypeOK, Modes, Flags, Counters
<1>. QED  BY <1>1 DEF IInv

LEMMA PartsNext == Modes' /\ Flags' /\ Counters' /\ SetUpIsComplete' /\ Order' => IInv'
<1>1. Modes' /\ Flags' /\ Counters' => TypeOK'
  BY Zenon DEF TypeOK, Modes, Flags, Counters
<1>. QED  BY <1>1 DEF IInv

\* A step that counts nothing keeps the counters.
LEMMA NoCount == ASSUME Counters, UNCHANGED <<tries, waits, crashes>> PROVE Counters'
  BY DEF Counters

-----------------------------------------------------------------------------
(* Steps that end the container are the only ones that set "cut".          *)

LEMMA EndsInvariant == ASSUME IInv, up, ContainerEnds, crashes' \in 0 .. MaxCrashes
                       PROVE  IInv'
<1>0. Modes /\ Flags /\ Counters /\ SetUpIsComplete /\ Order
  BY Parts
<1>1. /\ UNCHANGED <<system, root, peter, demo, entry, script, tries, waits, prompt>>
      /\ up' = FALSE /\ server' = "none" /\ ready' = FALSE /\ cut' = (cut \/ Unfinished)
  BY DEF ContainerEnds, Serve, disk, counts
<1>2. Modes'
  BY <1>0, <1>1 DEF Modes, Creating
<1>3. Flags'
  <2>1. cut' \in BOOLEAN /\ up' \in BOOLEAN /\ ready' \in BOOLEAN
    BY <1>0, <1>1 DEF Flags, Unfinished
  <2>2. peter' \in BOOLEAN /\ prompt' \in BOOLEAN
    BY <1>0, <1>1, Zenon DEF Flags
  <2>. QED  BY <2>1, <2>2 DEF Flags
<1>4. Counters'
  BY <1>0, <1>1 DEF Counters
<1>5. cut => cut'
  BY <1>1
<1>6. SetUpIsComplete'
  BY <1>0, <1>1, <1>5 DEF SetUpIsComplete
<1>7. Order'
  BY <1>0, <1>1, <1>5 DEF Order, Unfinished, Creating, Modes
<1>. QED  BY <1>2, <1>3, <1>4, <1>6, <1>7, PartsNext

\* The steps of entrypoint.sh change the tables and root before there is a user.
LEMMA EntrypointInvariant == ASSUME IInv, Entrypoint PROVE IInv'
<1>0. Modes /\ Flags /\ Counters /\ SetUpIsComplete /\ Order
  BY Parts
<1>. DEFINE Rest == Modes' /\ SetUpIsComplete' /\ Order'
<1>1. Rest
  <2>. USE <1>0 DEF Modes, SetUpIsComplete, Order, Creating, disk, faults, counts
  <2>1. CASE Begin  BY <2>1 DEF Begin, Uninitialised
  <2>2. CASE Initialize  BY <2>2 DEF Initialize, Serve
  <2>3. CASE WaitEnds  BY <2>3 DEF WaitEnds, LastWait
  <2>4. CASE WaitMore  BY <2>4 DEF WaitMore
  <2>5. CASE CreateRoot  BY <2>5 DEF CreateRoot
  <2>6. CASE GrantRoot  BY <2>6 DEF GrantRoot
  <2>9. CASE InitFails  BY <2>9 DEF InitFails
  <2>7. CASE StopTemporary  BY <2>7 DEF StopTemporary, Serve
  <2>8. CASE Exec  BY <2>8 DEF Exec, Serve
  <2>. QED  BY <2>1, <2>2, <2>3, <2>4, <2>5, <2>6, <2>7, <2>8, <2>9 DEF Entrypoint
<1>2. Flags'
  <2>1. UNCHANGED <<peter, up, prompt, cut>> /\ (ready' = ready \/ ready' = FALSE)
    BY DEF Entrypoint, Begin, Initialize, WaitEnds, WaitMore, CreateRoot, GrantRoot, InitFails,
           StopTemporary, Exec, Serve, disk, faults
  <2>. QED  BY <1>0, <2>1, Zenon DEF Flags
<1>3. Counters'
  <2>1. CASE WaitMore
    <3>1. waits \in 0 .. MaxWaits /\ waits # MaxWaits /\ waits' = waits + 1
          /\ UNCHANGED <<tries, crashes>>
      BY <1>0, <2>1 DEF WaitMore, LastWait, Counters, faults
    <3>2. waits' \in 0 .. MaxWaits  BY <3>1, CountsOn, BoundsAssumption
    <3>. QED  BY <1>0, <3>1, <3>2 DEF Counters
  <2>2. CASE ~WaitMore
    <3>1. UNCHANGED <<tries, waits, crashes>>
      BY <2>2 DEF Entrypoint, Begin, Initialize, WaitEnds, CreateRoot, GrantRoot, InitFails,
                  StopTemporary, Exec, faults, counts
    <3>. QED  BY <1>0, <3>1, NoCount
  <2>. QED  BY <2>1, <2>2
<1>. QED  BY <1>1, <1>2, <1>3, PartsNext

\* The steps of my_entrypoint.sh that do not end it.
LEMMA ScriptInvariant == ASSUME IInv, Script, ~ScriptEnds PROVE IInv'
<1>0. Modes /\ Flags /\ Counters /\ SetUpIsComplete /\ Order
  BY Parts
<1>. DEFINE Rest == Modes' /\ SetUpIsComplete' /\ Order'
<1>1. Rest
  <2>. USE <1>0 DEF Modes, SetUpIsComplete, Order, Creating, disk, faults, counts
  <2>1. CASE Login  BY <2>1 DEF Login
  <2>2. CASE TryAgain
    <3>1. script = "poll" /\ script' \in {"poll", "check"}
      BY <2>2 DEF TryAgain
    <3>2. UNCHANGED <<system, root, peter, demo, up, entry, server, ready, cut>>
      BY <2>2 DEF TryAgain
    <3>. QED  BY <3>1, <3>2
  <2>3. CASE Check  BY <2>3 DEF Check, PeterLogsIn
  <2>4. CASE Grant  BY <2>4 DEF Grant, CanWrite
  <2>5. CASE CreateDatabase  BY <2>5 DEF CreateDatabase
  <2>6. CASE CreateTable  BY <2>6 DEF CreateTable
  <2>. QED  BY <2>1, <2>2, <2>3, <2>4, <2>5, <2>6 DEF Script
<1>2. Flags'
  <2>1. UNCHANGED <<up, ready, prompt, cut>> /\ (peter' = peter \/ peter' = TRUE)
    BY DEF Script, Login, TryAgain, Check, Grant, CreateDatabase, CreateTable, disk, faults
  <2>. QED  BY <1>0, <2>1, Zenon DEF Flags
<1>3. Counters'
  <2>1. CASE TryAgain
    <3>1. tries \in 0 .. MaxTries /\ tries < MaxTries /\ tries' = tries + 1
          /\ UNCHANGED <<waits, crashes>>
      BY <1>0, <2>1 DEF TryAgain, Counters, faults
    <3>2. tries' \in 0 .. MaxTries  BY <3>1, CountsOn, BoundsAssumption
    <3>. QED  BY <1>0, <3>1, <3>2 DEF Counters
  <2>2. CASE ~TryAgain
    <3>1. UNCHANGED <<tries, waits, crashes>>
      BY <2>2 DEF Script, Login, Check, Grant, CreateDatabase, CreateTable, faults, counts
    <3>. QED  BY <1>0, <3>1, NoCount
  <2>. QED  BY <2>1, <2>2
<1>. QED  BY <1>1, <1>2, <1>3, PartsNext

-----------------------------------------------------------------------------

\* Every reachable state has the user only after root and on whole tables, and misses
\* the table of the demo site only if a script was cut.
THEOREM Invariance == Spec => []IInv
<1>1. Init => IInv
  BY Bounds DEF Init, IInv, TypeOK, SetUpIsComplete, Order, Creating
<1>2. IInv /\ [Next]_vars => IInv'
  <2>. SUFFICES ASSUME IInv, [Next]_vars PROVE IInv'  OBVIOUS
  <2>0. Modes /\ Flags /\ Counters /\ SetUpIsComplete /\ Order
    BY Parts
  <2>1. CASE Accept \/ UNCHANGED vars
    <3>1. /\ UNCHANGED <<system, root, demo, entry, server, script, tries, waits, crashes>>
          /\ UNCHANGED <<peter, up, prompt, cut>> /\ (ready' = ready \/ ready' = TRUE)
      BY <2>1 DEF Accept, vars, disk, counts, faults
    <3>2. Modes'
      <4>1. /\ (system \in {"absent", "partial", "whole"})'
            /\ (root \in {"empty", "bare", "full"})' /\ (demo \in {"none", "database", "table"})'
        BY <2>0, <3>1 DEF Modes
      <4>2. (entry \in {"begin", "initialize", "wait", "create root", "grant root", "stop",
                        "exec", "mysqld", "failed"})'
        BY <2>0, <3>1 DEF Modes
      <4>3. /\ (server \in {"none", "temporary", "real"})'
            /\ (script \in {"poll", "check", "grant", "fg"} \cup Creating)'
        BY <2>0, <3>1 DEF Modes
      <4>. QED  BY <4>1, <4>2, <4>3 DEF Modes
    <3>3. Flags'  BY <2>0, <3>1, Zenon DEF Flags
    <3>4. Counters'  BY <2>0, <3>1, NoCount
    <3>5. SetUpIsComplete'  BY <2>0, <3>1 DEF SetUpIsComplete
    <3>6. Order'  BY <2>0, <3>1 DEF Order, Creating
    <3>. QED  BY <3>2, <3>3, <3>4, <3>5, <3>6, PartsNext
  <2>2. CASE Entrypoint  BY <2>2, EntrypointInvariant
  <2>3. CASE Script /\ ~ScriptEnds  BY <2>3, ScriptInvariant
  <2>4. CASE ScriptEnds
    <3>1. up /\ ContainerEnds /\ crashes' \in 0 .. MaxCrashes
      BY <2>0, <2>4 DEF ScriptEnds, Counters
    <3>. QED  BY <3>1, EndsInvariant
  <2>5. CASE Crash
    <3>1. up /\ ContainerEnds
          /\ crashes \in 0 .. MaxCrashes /\ crashes < MaxCrashes /\ crashes' = crashes + 1
      BY <2>0, <2>5 DEF Crash, Counters
    <3>2. crashes' \in 0 .. MaxCrashes  BY <3>1, CountsOn, BoundsAssumption
    <3>. QED  BY <3>1, <3>2, EndsInvariant
  <2>6. CASE Restart
    <3>1. /\ UNCHANGED <<system, root, peter, demo, server, ready, prompt, crashes, cut>>
          /\ ~up /\ up' = TRUE /\ entry' = "begin" /\ script' = "poll" /\ tries' = 0 /\ waits' = 0
      BY <2>6 DEF Restart, disk, faults
    <3>2. Modes'  BY <2>0, <3>1 DEF Modes
    <3>3. Flags'
      <4>1. up' \in BOOLEAN  BY <3>1
      <4>2. peter' \in BOOLEAN /\ ready' \in BOOLEAN  BY <2>0, <3>1, Zenon DEF Flags
      <4>3. prompt' \in BOOLEAN /\ cut' \in BOOLEAN  BY <2>0, <3>1, Zenon DEF Flags
      <4>. QED  BY <4>1, <4>2, <4>3, Zenon DEF Flags
    <3>4. Counters'  BY <2>0, <3>1, Bounds DEF Counters
    <3>5. SetUpIsComplete'  BY <2>0, <3>1 DEF SetUpIsComplete
    <3>6. Order'  BY <2>0, <3>1 DEF Order, Creating
    <3>. QED  BY <3>2, <3>3, <3>4, <3>5, <3>6, PartsNext
  <2>. QED  BY <2>1, <2>2, <2>3, <2>4, <2>5, <2>6 DEF Next, Script
<1>. QED  BY <1>1, <1>2, PTL DEF Spec

\* Every reachable state is of the declared types.
THEOREM TypeCorrect == Spec => []TypeOK
<1>1. IInv => TypeOK  BY DEF IInv
<1>. QED  BY <1>1, Invariance, PTL

\* my_entrypoint.sh reaches its end with the user, and with the table unless it was cut.
THEOREM FinishedMeansComplete == Spec => []SetUpIsComplete
<1>1. IInv => SetUpIsComplete  BY DEF IInv
<1>. QED  BY <1>1, Invariance, PTL
=============================================================================
