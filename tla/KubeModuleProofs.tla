-------------------------- MODULE KubeModuleProofs --------------------------
(***************************************************************************)
(* For any number of runs of the module and any bound on what others do: a *)
(* run does not hide what it did, and one that exits well reached its goal. *)
(***************************************************************************)
EXTENDS KubeModule, TLAPS

\* What the state asked for lets kubectl do.
Allowed(state) ==
    CASE state = "present" -> {"create"}
      [] state = "latest" -> {"create", "replace --force"}
      [] state = "reloaded" -> {"replace", "replace --force"}
      [] state \in {"absent", "stopped"} -> {"delete", "delete --ignore-not-found"}

\* What a run that exits well has seen or made.
Goal(r) ==
    CASE task[r].state = "present" -> \E d \in During(r) : d # Absent
      [] task[r].state = "latest" -> Applied(r)
      [] task[r].state \in {"absent", "stopped"} ->
            Absent \in During(r) \/ r \in blind \/ ~task[r].resource
      [] task[r].state = "reloaded" ->
            Applied(r) \/ Absent \in During(r) \/ r \in blind \/ ~task[r].resource

\* A run takes away or halts the resource only if that is what it is for, or on the way
\* of a forced replacement.
TakesAway(r) ==
    \A i \in WritesOf(r) :
        log[i].object # r =>
           \/ task[r].state \in {"absent", "stopped"}
           \/ log[i].object = Absent /\ command[r] = "replace --force"

\* The progress of one run: what it may have written so far, and why it may end.
Progress(r) ==
    /\ pc[r] \in {"begin", "exists", "command"} => WritesOf(r) = {} /\ ~changed[r]
    /\ pc[r] # "begin" => began[r] \in 1 .. Len(log)
    /\ pc[r] = "command" => command[r] \in Allowed(task[r].state)
    /\ pc[r] = "recreate" =>
          /\ command[r] = "replace --force" /\ ~changed[r]
          /\ task[r].state \in {"latest", "reloaded"}
    /\ pc[r] = "ok" =>
          /\ ended[r] \in began[r] .. Len(log)
          /\ changed[r] <=> WritesOf(r) # {}
          /\ Goal(r)
    /\ pc[r] = "failed" => ~changed[r]
    /\ TakesAway(r)

IInv == TypeOK /\ \A r \in Runs : Progress(r)

-----------------------------------------------------------------------------
\* The log keeps what was written, and gets at most one entry more.
Grows == log' = log \/ \E w \in Writes : log' = Append(log, w)

LEMMA LogKeeps ==
    ASSUME TypeOK, Grows
    PROVE  /\ log' \in Seq(Writes) /\ log' # <<>> /\ Len(log) \in Nat \ {0}
           /\ Len(log') \in {Len(log), Len(log) + 1}
           /\ \A i \in 1 .. Len(log) : log'[i] = log[i]
  <1>1. log \in Seq(Writes) /\ log # <<>>
    BY DEF TypeOK
  <1>2. Len(log) \in Nat \ {0}
    BY <1>1
  <1>3. CASE log' = log
    BY <1>1, <1>2, <1>3
  <1>4. CASE \E w \in Writes : log' = Append(log, w)
    <2>1. PICK w \in Writes : log' = Append(log, w)
      BY <1>4
    <2>2. Len(log') = Len(log) + 1 /\ log' \in Seq(Writes) /\ log' # <<>>
      BY <1>1, <1>2, <2>1
    <2>3. \A i \in 1 .. Len(log) : log'[i] = log[i]
      BY <1>1, <1>2, <2>1
    <2> QED
      BY <1>2, <2>2, <2>3
  <1> QED
    BY <1>3, <1>4 DEF Grows

LEMMA LogLength ==
    ASSUME TypeOK PROVE log \in Seq(Writes) /\ Len(log) \in Nat \ {0} /\ Len(log) \in 1 .. Len(log)
  <1>1. log \in Seq(Writes) /\ log # <<>>
    BY DEF TypeOK
  <1> QED
    BY <1>1

\* The last entry is a write like the others.
LEMMA LastObject ==
    ASSUME TypeOK PROVE object \in Definitions
  <1>1. log \in Seq(Writes) /\ Len(log) \in 1 .. Len(log)
    BY LogLength
  <1>2. log[Len(log)] \in Writes
    BY <1>1
  <1> QED
    BY <1>2 DEF object, Writes

\* The entry that a write adds.
LEMMA Written ==
    ASSUME TypeOK, NEW who \in Runs \cup {Foreign}, NEW d \in Definitions, Write(who, d)
    PROVE  /\ Grows
           /\ Len(log') = Len(log) + 1
           /\ log'[Len(log')].by = who /\ log'[Len(log')].object = d
  <1>1. [by |-> who, object |-> d] \in Writes
    BY DEF Writes
  <1>2. log' = Append(log, [by |-> who, object |-> d])
    BY DEF Write
  <1> QED
    BY <1>1, <1>2 DEF Grows, TypeOK

\* A write by somebody else is not one's own.
LEMMA ForeignWrites ==
    ASSUME TypeOK, Grows, NEW q \in Runs,
           log' = log \/ log'[Len(log')].by # q
    PROVE  WritesOf(q)' = WritesOf(q)
  <1>1. \A i \in 1 .. Len(log) : log'[i] = log[i]
    BY LogKeeps
  <1>2. Len(log') \in {Len(log), Len(log) + 1} /\ Len(log) \in Nat \ {0}
    BY LogKeeps
  <1>3. CASE log' = log
    BY <1>3 DEF WritesOf
  <1>4. CASE log' # log
    <2>1. Len(log') = Len(log) + 1 /\ log'[Len(log')].by # q
      BY <1>4 DEF Grows, TypeOK
    <2> QED
      BY <1>1, <1>2, <2>1 DEF WritesOf
  <1> QED
    BY <1>3, <1>4

\* What a run saw and applied stays seen and applied.
LEMMA GoalStays ==
    ASSUME TypeOK, Grows, NEW q \in Runs, WritesOf(q)' = WritesOf(q),
           task'[q] = task[q], began'[q] = began[q], ended'[q] = ended[q],
           began[q] \in 1 .. Len(log), ended[q] \in began[q] .. Len(log),
           q \in blind' <=> q \in blind, Goal(q)
    PROVE  Goal(q)'
  <1>1. \A i \in 1 .. Len(log) : log'[i] = log[i]
    BY LogKeeps
  <1>2. began[q] .. ended[q] \subseteq 1 .. Len(log)
    BY LogKeeps
  <1>3. During(q)' = During(q)
    BY <1>1, <1>2 DEF During
  <1>4. WritesOf(q) \subseteq 1 .. Len(log)
    BY LogKeeps DEF WritesOf
  <1>5. Applied(q)' <=> Applied(q)
    BY <1>1, <1>4 DEF Applied
  <1> QED
    BY <1>3, <1>5 DEF Goal, TypeOK, Tasks, States

\* A step of somebody else leaves the progress of a run as it is.
LEMMA OthersProgress ==
    ASSUME TypeOK, Grows, NEW q \in Runs, log' = log \/ log'[Len(log')].by # q,
           task'[q] = task[q], pc'[q] = pc[q], command'[q] = command[q],
           changed'[q] = changed[q], began'[q] = began[q], ended'[q] = ended[q],
           q \in blind' <=> q \in blind, Progress(q)
    PROVE  Progress(q)'
  <1>1. WritesOf(q)' = WritesOf(q)
    BY ForeignWrites
  <1>2. Len(log) \in Nat \ {0} /\ Len(log') \in {Len(log), Len(log) + 1}
    BY LogKeeps
  <1>3. ASSUME pc[q] # "begin" PROVE began'[q] \in 1 .. Len(log')
    <2>1. began[q] \in 1 .. Len(log)
      BY <1>3 DEF Progress
    <2> QED
      BY <1>2, <2>1
  <1>4. ASSUME pc[q] = "ok" PROVE Goal(q)'
    BY <1>4, <1>1, GoalStays DEF Progress
  <1>5. ASSUME pc[q] = "ok" PROVE ended'[q] \in began'[q] .. Len(log')
    BY <1>5, <1>2 DEF Progress, TypeOK
  <1>6. TakesAway(q)'
    <2>2. \A i \in 2 .. Len(log) : i \in 1 .. Len(log)
      BY <1>2
    <2>1. \A i \in WritesOf(q) : log'[i] = log[i]
      BY <2>2, LogKeeps DEF WritesOf
    <2>3. TakesAway(q)
      BY DEF Progress
    <2> QED
      BY <1>1, <2>1, <2>3 DEF TakesAway
  <1> QED
    BY <1>1, <1>3, <1>4, <1>5, <1>6 DEF Progress

\* The entries but the last were there before a write.
LEMMA WrittenBefore ==
    ASSUME TypeOK, NEW who \in Runs \cup {Foreign}, NEW d \in Definitions, Write(who, d)
    PROVE  \A j \in 2 .. Len(log') :
              j # Len(log') => j \in 1 .. Len(log) /\ j \in 2 .. Len(log)
  <1>1. Len(log') = Len(log) + 1 /\ Len(log) \in Nat \ {0}
    BY Written, LogLength
  <1> QED
    BY <1>1

\* A write of a run that may make it.
LEMMA WriteTakesAway ==
    ASSUME TypeOK, NEW r \in Runs, NEW d \in Definitions, Write(r, d), TakesAway(r),
           task'[r] = task[r], command'[r] = command[r],
           d # r => \/ task[r].state \in {"absent", "stopped"}
                    \/ d = Absent /\ command[r] = "replace --force"
    PROVE  TakesAway(r)'
  <1>1. Grows /\ Len(log') = Len(log) + 1 /\ log'[Len(log')].object = d
    BY Written
  <1>2. Len(log) \in Nat \ {0} /\ \A i \in 1 .. Len(log) : log'[i] = log[i]
    BY <1>1, LogKeeps
  <1>3. \A j \in 2 .. Len(log') : j # Len(log') => j \in 1 .. Len(log) /\ j \in 2 .. Len(log)
    BY WrittenBefore
  <1> SUFFICES ASSUME NEW i \in 2 .. Len(log'), log'[i].by = r, log'[i].object # r
               PROVE  \/ task[r].state \in {"absent", "stopped"}
                      \/ log'[i].object = Absent /\ command[r] = "replace --force"
    BY DEF TakesAway, WritesOf
  <1>4. CASE i = Len(log')
    BY <1>1, <1>4
  <1>5. CASE i # Len(log')
    <2>1. i \in 1 .. Len(log) /\ i \in 2 .. Len(log)
      BY <1>3, <1>5
    <2>2. i \in WritesOf(r) /\ log'[i] = log[i]
      BY <1>2, <2>1 DEF WritesOf
    <2> QED
      BY <2>2 DEF TakesAway
  <1> QED
    BY <1>4, <1>5

\* A step of a run is somebody else's for the other runs.
LEMMA StepOfRun ==
    ASSUME TypeOK, \A q \in Runs : Progress(q), NEW r \in Runs, Grows,
           log' = log \/ log'[Len(log')].by = r,
           \A q \in Runs \ {r} :
              /\ task'[q] = task[q] /\ pc'[q] = pc[q] /\ command'[q] = command[q]
              /\ changed'[q] = changed[q] /\ began'[q] = began[q] /\ ended'[q] = ended[q]
              /\ q \in blind' <=> q \in blind,
           Progress(r)'
    PROVE  \A q \in Runs : Progress(q)'
  <1> SUFFICES ASSUME NEW q \in Runs \ {r} PROVE Progress(q)'
    OBVIOUS
  <1>1. log' = log \/ log'[Len(log')].by # q
    OBVIOUS
  <1> QED
    BY <1>1, OthersProgress

\* What kubectl did or did not find, as far as the run may rely on it.
Evidence(r, found) ==
    /\ found /\ task[r].state = "present" => object # Absent
    /\ ~found => object = Absent \/ r \in blind' \/ ~task[r].resource

\* A decision is one the state allows, and a run that ends by it has its goal in sight.
LEMMA DecideProgress ==
    ASSUME TypeOK, NEW r \in Runs, NEW found \in BOOLEAN, Decide(r, found), Evidence(r, found),
           log' = log, task' = task, changed' = changed, WritesOf(r) = {}, ~changed[r],
           began'[r] \in 1 .. Len(log)
    PROVE  Progress(r)'
  <1> DEFINE c == Chosen(task[r], found)
             s == task[r].state
  <1>1. s \in States /\ Len(log) \in Nat
    BY LogLength DEF TypeOK, Tasks
  <1>2. WritesOf(r)' = {} /\ ~changed'[r] /\ Len(log') = Len(log) /\ TakesAway(r)'
    BY DEF WritesOf, TakesAway
  <1>3. CASE c = "fail"
    <2>1. pc'[r] = "failed"
      BY <1>3 DEF Decide, Exit, TypeOK, Commands
    <2> QED
      BY <1>2, <2>1 DEF Progress
  <1>4. CASE c = "none"
    <2>1. pc'[r] = "ok" /\ ended'[r] = Len(log)
      BY <1>4 DEF Decide, Exit, TypeOK, Commands
    <2>2. \/ s = "present" /\ found
          \/ s \in {"absent", "stopped", "reloaded"} /\ ~found
      BY <1>1, <1>4 DEF Chosen, States
    <2>3. object \in During(r)'
      BY <2>1, <1>1, LogLength DEF During, object
    <2>4. Goal(r)'
      BY <2>2, <2>3 DEF Goal, Evidence
    <2> QED
      BY <1>1, <1>2, <2>1, <2>4 DEF Progress
  <1>5. CASE c \in Commands \ {"none"}
    <2>1. pc'[r] = "command" /\ command'[r] = c
      BY <1>5 DEF Decide, TypeOK, Commands
    <2>2. c \in Allowed(s)
      BY <1>1, <1>5 DEF Chosen, Allowed, States, IgnoreNotFound, Commands
    <2> QED
      BY <1>2, <2>1, <2>2 DEF Progress
  <1> QED
    BY <1>3, <1>4, <1>5 DEF Decide

\* A run that writes and ends has applied its definition, or removed the resource.
LEMMA WriteProgress ==
    ASSUME TypeOK, NEW r \in Runs, NEW d \in {r, Absent}, Write(r, d), Succeed(r),
           Progress(r), pc[r] # "begin",
           d = Absent => task[r].state \in {"absent", "stopped"},
           d = r => task[r].state \in {"present", "latest", "reloaded"}
    PROVE  Progress(r)'
  <1>1. Grows /\ Len(log') = Len(log) + 1
        /\ log'[Len(log')].by = r /\ log'[Len(log')].object = d
    BY Written DEF Definitions
  <1>2. Len(log) \in Nat \ {0} /\ Len(log') \in 2 .. Len(log')
    BY <1>1, LogLength
  <1>3. pc'[r] = "ok" /\ ended'[r] = Len(log') /\ changed'[r] /\ began' = began /\ task' = task
    BY DEF Succeed, Exit, TypeOK
  <1>4. began[r] \in 1 .. Len(log)
    BY DEF Progress
  <1>5. Len(log') \in WritesOf(r)'
    BY <1>1, <1>2 DEF WritesOf
  <1>6. d \in During(r)'
    BY <1>1, <1>2, <1>3, <1>4 DEF During
  <1>7. d = r => Applied(r)'
    BY <1>1, <1>5 DEF Applied
  <1>8. Goal(r)'
    BY <1>3, <1>6, <1>7, NamesAssumption DEF Goal
  <1>10. TakesAway(r)'
    BY <1>3, WriteTakesAway DEF Definitions, Progress, Succeed
  <1>9. WritesOf(r)' # {} /\ ended'[r] \in began'[r] .. Len(log')
        /\ began'[r] \in 1 .. Len(log')
    BY <1>1, <1>2, <1>3, <1>4, <1>5
  <1> QED
    BY <1>3, <1>8, <1>9, <1>10 DEF Progress

-----------------------------------------------------------------------------
\* Every step keeps the types.
LEMMA TypeStep == TypeOK /\ [Next]_vars => TypeOK'
  <1> SUFFICES ASSUME TypeOK, [Next]_vars PROVE TypeOK'
    OBVIOUS
  <1>0. Len(log) \in Nat \ {0} /\ log \in Seq(Writes)
    BY LogLength
  <1>14. ASSUME task' = task, command' = command PROVE \A q \in Runs : IsNamed(q)'
    BY <1>14 DEF TypeOK, IsNamed
  <1>1. ASSUME NEW r \in Runs, NEW found \in BOOLEAN, Decide(r, found), log' = log
        PROVE  /\ pc' \in [Runs -> {"begin", "exists", "command", "recreate", "ok", "failed"}]
               /\ command' \in [Runs -> Commands] /\ ended' \in [Runs -> 0 .. Len(log)]
               /\ task' = task => \A q \in Runs : IsNamed(q)'
    <2> DEFINE c == Chosen(task[r], found)
    <2>1. Len(log) \in 0 .. Len(log)
      BY <1>0
    <2>2. CASE c \in {"fail", "none"} /\ UNCHANGED command
               /\ (Exit(r, "failed") \/ Exit(r, "ok"))
      BY <1>1, <2>1, <2>2 DEF Exit, TypeOK, IsNamed
    <2>3. CASE /\ c \in Commands \ {"none"} /\ command' = [command EXCEPT ![r] = c]
               /\ pc' = [pc EXCEPT ![r] = "command"] /\ UNCHANGED ended
      <3>1. task[r].filename \/ (c \in Deletions /\ task[r].resource)
        <4>1. task[r].state \in States
          BY DEF TypeOK, Tasks
        <4> QED
          BY <2>3, <4>1 DEF Chosen, States, Commands, Deletions
      <3>2. \A q \in Runs : IsNamed(q) /\ command'[q] = IF q = r THEN c ELSE command[q]
        BY <2>3 DEF TypeOK
      <3> QED
        BY <2>3, <3>1, <3>2 DEF TypeOK, IsNamed
    <2> QED
      BY <1>1, <2>2, <2>3 DEF Decide
  <1>2. ASSUME NEW r \in Runs, Begin(r) PROVE TypeOK'
    <2>1. began' \in [Runs -> 0 .. Len(log)]
      BY <1>0, <1>2 DEF Begin, TypeOK
    <2>2. CASE AsksExists(task[r]) /\ task[r].resource
      <3>1. UNCHANGED <<task, command>>
        BY <1>2, <2>2 DEF Begin
      <3> QED
        BY <1>2, <1>14, <2>1, <2>2, <3>1 DEF Begin, TypeOK
    <2>3. CASE ~(AsksExists(task[r]) /\ task[r].resource)
      BY <1>1, <1>2, <2>1, <2>3 DEF Begin, TypeOK
    <2> QED
      BY <2>2, <2>3
  <1>3. ASSUME NEW r \in Runs, Get(r) \/ GetFails(r) PROVE TypeOK'
    BY <1>1, <1>3 DEF Get, GetFails, TypeOK
  <1>4. ASSUME NEW who \in Runs \cup {Foreign}, NEW d \in Definitions, Write(who, d)
        PROVE  /\ log' \in Seq(Writes) /\ log' # <<>> /\ Len(log') = Len(log) + 1
               /\ began \in [Runs -> 0 .. Len(log')] /\ ended \in [Runs -> 0 .. Len(log')]
    <2>1. log' \in Seq(Writes) /\ log' # <<>> /\ Len(log') = Len(log) + 1
      BY <1>4, Written, LogKeeps
    <2>2. 0 .. Len(log) \subseteq 0 .. Len(log')
      BY <1>0, <2>1
    <2> QED
      BY <2>1, <2>2 DEF TypeOK
  <1>5. ASSUME NEW r \in Runs, NEW d \in {r, Absent}, Write(r, d), Succeed(r) PROVE TypeOK'
    <2>1. /\ log' \in Seq(Writes) /\ log' # <<>> /\ Len(log') = Len(log) + 1
          /\ began \in [Runs -> 0 .. Len(log')] /\ ended \in [Runs -> 0 .. Len(log')]
      BY <1>4, <1>5 DEF Definitions
    <2>2. Len(log') \in 0 .. Len(log')
      BY <1>0, <2>1
    <2> QED
      BY <1>5, <1>14, <2>1, <2>2 DEF Succeed, Exit, TypeOK
  <1>6. ASSUME NEW r \in Runs, Create(r) \/ Replace(r) \/ Delete(r) \/ Recreate(r) PROVE TypeOK'
    BY <1>5, <1>6 DEF Create, Replace, Delete, Recreate
  <1>7. ASSUME NEW r \in Runs, DeleteNothing(r) \/ CommandFails(r) PROVE TypeOK'
    <2>1. /\ Exit(r, "ok") \/ Exit(r, "failed")
          /\ UNCHANGED <<task, command, changed, blind, began, foreign>>
      BY <1>7 DEF DeleteNothing, CommandFails
    <2>2. /\ log' \in Seq(Writes) /\ log' # <<>> /\ Len(log') \in 0 .. Len(log')
          /\ began \in [Runs -> 0 .. Len(log')] /\ ended \in [Runs -> 0 .. Len(log')]
      <3>1. CASE log' = log
        BY <1>0, <3>1 DEF TypeOK
      <3>2. CASE \E d \in {r, Absent, Halted} : Write(r, d)
        BY <1>0, <1>4, <3>2 DEF Definitions
      <3> QED
        BY <1>7, <3>1, <3>2 DEF DeleteNothing, CommandFails
    <2>3. /\ pc' \in [Runs -> {"begin", "exists", "command", "recreate", "ok", "failed"}]
          /\ ended' \in [Runs -> 0 .. Len(log')]
      BY <2>1, <2>2 DEF Exit, TypeOK
    <2> QED
      BY <1>14, <2>1, <2>2, <2>3 DEF TypeOK
  <1>8. ASSUME NEW r \in Runs, ForceDelete(r) PROVE TypeOK'
    <2>1. /\ log' \in Seq(Writes) /\ log' # <<>>
          /\ began \in [Runs -> 0 .. Len(log')] /\ ended \in [Runs -> 0 .. Len(log')]
      <3>1. CASE log' = log
        BY <1>0, <3>1 DEF TypeOK
      <3>2. CASE Write(r, Absent)
        BY <1>4, <3>2 DEF Definitions
      <3> QED
        BY <1>8, <3>1, <3>2 DEF ForceDelete
    <2> QED
      BY <1>8, <1>14, <2>1 DEF ForceDelete, TypeOK
  <1>9. ASSUME ForeignWrite PROVE TypeOK'
    <2>1. PICK d \in {Absent, Foreign} : Write(Foreign, d)
      BY <1>9 DEF ForeignWrite
    <2>3. /\ log' \in Seq(Writes) /\ log' # <<>>
          /\ began \in [Runs -> 0 .. Len(log')] /\ ended \in [Runs -> 0 .. Len(log')]
      BY <1>4, <2>1 DEF Definitions
    <2>2. foreign' \in 0 .. MaxForeign
      BY <1>9, BoundAssumption DEF ForeignWrite, TypeOK
    <2> QED
      BY <1>9, <1>14, <2>2, <2>3 DEF ForeignWrite, TypeOK
  <1>10. CASE UNCHANGED vars
    BY <1>10, <1>14 DEF vars, TypeOK
  <1> QED
    BY <1>2, <1>3, <1>6, <1>7, <1>8, <1>9, <1>10 DEF Next

\* The initial states: no run has begun, one entry in the log.
LEMMA InitIInv == Init => IInv
  <1> SUFFICES ASSUME Init PROVE IInv
    OBVIOUS
  <1>1. PICK found \in {Absent, Foreign} : log = <<[by |-> Foreign, object |-> found]>>
    BY DEF Init
  <1>2. log \in Seq(Writes) /\ log # <<>> /\ Len(log) = 1
    BY <1>1 DEF Writes, Definitions
  <1>3. TypeOK
    BY <1>2, BoundAssumption DEF Init, TypeOK, Commands, IsNamed
  <1>4. \A r \in Runs : WritesOf(r) = {}
    BY <1>2 DEF WritesOf
  <1> QED
    BY <1>3, <1>4 DEF IInv, Init, Progress, TakesAway

\* A run that begins or looks decides on evidence.
LEMMA LookStep ==
    ASSUME IInv, NEW r \in Runs, Begin(r) \/ Get(r) \/ GetFails(r)
    PROVE  \A q \in Runs : Progress(q)'
  <1>1. Progress(r) /\ TypeOK
    BY DEF IInv
  <1>2. log' = log /\ task' = task /\ changed' = changed
    BY DEF Begin, Get, GetFails
  <1>3. WritesOf(r) = {} /\ ~changed[r]
    BY <1>1 DEF Begin, Get, GetFails, Progress
  <1>4. began'[r] \in 1 .. Len(log)
    BY <1>1, LogLength DEF Begin, Get, GetFails, Progress, TypeOK
  <1>5. \A q \in Runs \ {r} : began'[q] = began[q] /\ (q \in blind' <=> q \in blind)
    BY <1>1 DEF Begin, Get, GetFails, TypeOK
  <1>6. ASSUME NEW found \in BOOLEAN, Decide(r, found), Evidence(r, found)
        PROVE  \A q \in Runs : Progress(q)'
    <2>1. Progress(r)'
      BY <1>1, <1>2, <1>3, <1>4, <1>6, DecideProgress
    <2>2. \A q \in Runs \ {r} :
             pc'[q] = pc[q] /\ command'[q] = command[q] /\ ended'[q] = ended[q]
      BY <1>1, <1>6 DEF Decide, Exit, TypeOK
    <2> QED
      BY <1>1, <1>2, <1>5, <2>1, <2>2, StepOfRun DEF IInv, Grows
  <1>7. CASE Begin(r) /\ AsksExists(task[r]) /\ task[r].resource
    <2>1. pc' = [pc EXCEPT ![r] = "exists"] /\ UNCHANGED <<command, ended, blind>>
      BY <1>7 DEF Begin
    <2>2. pc'[r] = "exists" /\ \A q \in Runs \ {r} : pc'[q] = pc[q]
      BY <1>1, <2>1 DEF TypeOK
    <2>3. Progress(r)'
      BY <1>2, <1>3, <1>4, <2>2 DEF Progress, WritesOf, TakesAway
    <2> QED
      BY <1>1, <1>2, <1>5, <2>1, <2>2, <2>3, StepOfRun DEF IInv, Grows
  <1>8. CASE Begin(r) /\ ~(AsksExists(task[r]) /\ task[r].resource)
    <2>1. Decide(r, ~AsksExists(task[r]))
      BY <1>8 DEF Begin
    <2>2. Evidence(r, ~AsksExists(task[r]))
      BY <1>8 DEF Evidence, AsksExists
    <2> QED
      BY <1>6, <2>1, <2>2
  <1>9. CASE Get(r)
    BY <1>6, <1>9 DEF Get, Evidence
  <1>10. CASE GetFails(r)
    BY <1>6, <1>10 DEF GetFails, Evidence
  <1> QED
    BY <1>7, <1>8, <1>9, <1>10

\* A run that writes and ends.
LEMMA WriteStep ==
    ASSUME IInv, NEW r \in Runs, Create(r) \/ Replace(r) \/ Delete(r) \/ Recreate(r)
    PROVE  \A q \in Runs : Progress(q)'
  <1>1. Progress(r) /\ TypeOK
    BY DEF IInv
  <1>2. task[r].state \in States
    BY <1>1 DEF TypeOK, Tasks
  <1>3. Succeed(r) /\ pc[r] \in {"command", "recreate"}
    BY DEF Create, Replace, Delete, Recreate, KubectlIs
  <1>4. PICK d \in {r, Absent} :
          /\ Write(r, d)
          /\ d = Absent => task[r].state \in {"absent", "stopped"}
          /\ d = r => task[r].state \in {"present", "latest", "reloaded"}
    <2>1. CASE Create(r) \/ Replace(r) \/ Recreate(r)
      <3>1. Write(r, r)
        BY <2>1 DEF Create, Replace, Recreate
      <3>2. task[r].state \in {"present", "latest", "reloaded"}
        BY <1>1, <1>2, <2>1
        DEF Create, Replace, Recreate, KubectlIs, Progress, Allowed, States
      <3> QED
        BY <3>1, <3>2, NamesAssumption
    <2>2. CASE Delete(r)
      <3>1. Write(r, Absent)
        BY <2>2 DEF Delete
      <3>2. task[r].state \in {"absent", "stopped"}
        BY <1>1, <1>2, <2>2 DEF Delete, KubectlIs, Deletions, Progress, Allowed, States
      <3> QED
        BY <3>1, <3>2, NamesAssumption
    <2> QED
      BY <2>1, <2>2
  <1>5. Progress(r)'
    BY <1>1, <1>3, <1>4, WriteProgress
  <1>6. Grows /\ log'[Len(log')].by = r
    BY <1>1, <1>4, Written DEF Definitions
  <1>7. \A q \in Runs \ {r} :
           /\ task'[q] = task[q] /\ pc'[q] = pc[q] /\ command'[q] = command[q]
           /\ changed'[q] = changed[q] /\ began'[q] = began[q] /\ ended'[q] = ended[q]
           /\ q \in blind' <=> q \in blind
    BY <1>1, <1>3 DEF Succeed, Exit, TypeOK
  <1> QED
    BY <1>1, <1>5, <1>6, <1>7, StepOfRun DEF IInv

\* A run that ends well without a write.
LEMMA QuietStep ==
    ASSUME IInv, NEW r \in Runs, DeleteNothing(r)
    PROVE  \A q \in Runs : Progress(q)'
  <1>1. Progress(r) /\ TypeOK /\ Len(log) \in Nat
    BY LogLength DEF IInv
  <1>2. log' = log /\ UNCHANGED <<task, command, changed, blind, began, foreign>>
    BY DEF DeleteNothing
  <1>3. WritesOf(r)' = WritesOf(r) /\ pc[r] = "command"
    BY <1>2 DEF WritesOf, DeleteNothing, KubectlIs
  <1>4. began[r] \in 1 .. Len(log) /\ TakesAway(r)'
    BY <1>1, <1>2, <1>3 DEF Progress, TakesAway
  <1>5. Progress(r)'
    <2>1. pc'[r] = "ok" /\ ended'[r] = Len(log)
      BY <1>1, <1>2 DEF DeleteNothing, Exit, TypeOK
    <2>2. task[r].state \in {"absent", "stopped"}
      BY <1>1 DEF DeleteNothing, KubectlIs, Progress, Allowed, TypeOK, Tasks, States
    <2>3. Absent \in During(r)'
      <3>1. log'[Len(log)].object = Absent
        BY <1>2 DEF DeleteNothing, object
      <3>2. Len(log) \in began'[r] .. ended'[r]
        BY <1>1, <1>2, <1>4, <2>1
      <3> QED
        BY <3>1, <3>2 DEF During
    <2>4. Goal(r)'
      BY <1>2, <2>2, <2>3 DEF Goal
    <2> QED
      BY <1>1, <1>2, <1>3, <1>4, <2>1, <2>4 DEF Progress
  <1>6. \A q \in Runs \ {r} : pc'[q] = pc[q] /\ ended'[q] = ended[q]
    BY <1>1 DEF DeleteNothing, Exit, TypeOK
  <1> QED
    BY <1>1, <1>2, <1>5, <1>6, StepOfRun DEF IInv, Grows

\* What a kubectl that fails may leave is what the run may write.
LEMMA FailureWrites ==
    ASSUME TypeOK, NEW r \in Runs, Progress(r), CommandFails(r)
    PROVE  /\ Grows /\ TakesAway(r)'
           /\ \/ log' = log
              \/ /\ log'[Len(log')].by = r
                 /\ \/ log'[Len(log')].object \in {r, Absent}
                    \/ task[r].state \in {"absent", "stopped"}
  <1>1. UNCHANGED <<task, command>> /\ pc[r] \in {"command", "recreate"}
    BY DEF CommandFails
  <1>2. CASE log' = log
    BY <1>1, <1>2 DEF Grows, Progress, TakesAway, WritesOf
  <1>3. ASSUME NEW d \in {r, Absent, Halted}, MayHaveWritten(r, d), Write(r, d)
        PROVE  /\ Grows /\ TakesAway(r)'
               /\ log'[Len(log')].by = r
               /\ \/ log'[Len(log')].object \in {r, Absent}
                  \/ task[r].state \in {"absent", "stopped"}
    <2>1. d \in Definitions
      BY DEF Definitions
    <2>2. Grows /\ log'[Len(log')].by = r /\ log'[Len(log')].object = d
      BY <1>3, <2>1, Written
    <2>3. command[r] \in Deletions => task[r].state \in {"absent", "stopped"}
      BY <1>1 DEF Progress, Deletions, Allowed, TypeOK, Tasks, States
    <2>4. d # r => \/ task[r].state \in {"absent", "stopped"}
                   \/ d = Absent /\ command[r] = "replace --force"
      BY <1>3, <2>3 DEF MayHaveWritten
    <2>5. TakesAway(r)'
      BY <1>1, <1>3, <2>1, <2>4, WriteTakesAway DEF Progress
    <2> QED
      BY <2>2, <2>4, <2>5
  <1> QED
    BY <1>2, <1>3 DEF CommandFails

\* A run that fails, whatever its kubectl did.
LEMMA FailStep ==
    ASSUME IInv, NEW r \in Runs, CommandFails(r)
    PROVE  \A q \in Runs : Progress(q)'
  <1>1. Progress(r) /\ TypeOK
    BY DEF IInv
  <1>2. UNCHANGED <<task, command, changed, blind, began, foreign>>
        /\ pc[r] \in {"command", "recreate"}
    BY DEF CommandFails
  <1>3. Grows /\ TakesAway(r)' /\ (log' = log \/ log'[Len(log')].by = r)
    BY <1>1, FailureWrites
  <1>4. Len(log) \in Nat /\ Len(log') \in {Len(log), Len(log) + 1}
    BY <1>1, <1>3, LogKeeps
  <1>5. pc'[r] = "failed" /\ \A q \in Runs \ {r} : pc'[q] = pc[q] /\ ended'[q] = ended[q]
    BY <1>1 DEF CommandFails, Exit, TypeOK
  <1>6. began'[r] \in 1 .. Len(log') /\ ~changed'[r]
    <2>1. began[r] \in 1 .. Len(log) /\ ~changed[r]
      BY <1>1, <1>2 DEF Progress
    <2> QED
      BY <1>2, <1>4, <2>1
  <1>7. Progress(r)'
    BY <1>3, <1>5, <1>6 DEF Progress
  <1> QED
    BY <1>1, <1>2, <1>3, <1>5, <1>7, StepOfRun DEF IInv

\* The first half of a forced replacement.
LEMMA ForceStep ==
    ASSUME IInv, NEW r \in Runs, ForceDelete(r)
    PROVE  \A q \in Runs : Progress(q)'
  <1>1. Progress(r) /\ TypeOK
    BY DEF IInv
  <1>2. Grows /\ (log' = log \/ log'[Len(log')].by = r)
    <2>1. CASE log' = log
      BY <2>1 DEF Grows
    <2>2. CASE Write(r, Absent)
      BY <1>1, <2>2, Written DEF Definitions
    <2> QED
      BY <2>1, <2>2 DEF ForceDelete
  <1>3. Len(log) \in Nat /\ Len(log') \in {Len(log), Len(log) + 1}
    BY <1>1, <1>2, LogKeeps
  <1>4. pc'[r] = "recreate" /\ \A q \in Runs \ {r} : pc'[q] = pc[q]
    BY <1>1 DEF ForceDelete, TypeOK
  <1>5. task[r].state \in {"latest", "reloaded"}
    BY <1>1 DEF ForceDelete, KubectlIs, Progress, Allowed, TypeOK, Tasks, States
  <1>6. pc[r] = "command" /\ command[r] = "replace --force"
        /\ UNCHANGED <<task, command, changed, blind, began, ended>>
    BY DEF ForceDelete, KubectlIs
  <1>7. began[r] \in 1 .. Len(log')
    <2>1. began[r] \in 1 .. Len(log)
      BY <1>1, <1>6 DEF Progress
    <2> QED
      BY <1>3, <2>1
  <1>9. TakesAway(r)'
    <2>1. CASE log' = log
      BY <1>1, <1>6, <2>1 DEF Progress, TakesAway, WritesOf
    <2>2. CASE Write(r, Absent)
      BY <1>1, <1>6, <2>2, WriteTakesAway DEF Definitions, Progress
    <2> QED
      BY <2>1, <2>2 DEF ForceDelete
  <1>8. Progress(r)'
    BY <1>1, <1>4, <1>5, <1>6, <1>7, <1>9 DEF Progress
  <1> QED
    BY <1>1, <1>2, <1>4, <1>6, <1>8, StepOfRun DEF IInv

LEMMA ForeignStep ==
    ASSUME IInv, ForeignWrite PROVE \A q \in Runs : Progress(q)'
  <1>1. TypeOK
    BY DEF IInv
  <1>2. PICK d \in {Absent, Foreign} : Write(Foreign, d)
    BY DEF ForeignWrite
  <1>3. Grows /\ log'[Len(log')].by = Foreign
    BY <1>1, <1>2, Written DEF Definitions
  <1>4. UNCHANGED <<task, pc, command, changed, blind, began, ended>>
    BY DEF ForeignWrite
  <1> SUFFICES ASSUME NEW q \in Runs PROVE Progress(q)'
    OBVIOUS
  <1>5. Progress(q) /\ log'[Len(log')].by # q
    BY <1>3, NamesAssumption DEF IInv
  <1> QED
    BY <1>1, <1>3, <1>4, <1>5, OthersProgress

\* The inductive invariant is kept by every step.
LEMMA NextIInv == IInv /\ [Next]_vars => IInv'
  <1> SUFFICES ASSUME IInv, [Next]_vars PROVE IInv'
    OBVIOUS
  <1>1. TypeOK'
    BY TypeStep DEF IInv
  <1>2. ASSUME NEW r \in Runs,
               \/ Begin(r) \/ Get(r) \/ GetFails(r)
               \/ Create(r) \/ Replace(r) \/ Delete(r) \/ DeleteNothing(r)
               \/ ForceDelete(r) \/ Recreate(r) \/ CommandFails(r)
        PROVE  \A q \in Runs : Progress(q)'
    BY <1>2, LookStep, WriteStep, QuietStep, FailStep, ForceStep
  <1>3. CASE ForeignWrite
    BY <1>1, <1>3, ForeignStep DEF IInv
  <1>4. CASE UNCHANGED vars
    <2>1. Grows /\ log' = log
          /\ UNCHANGED <<task, pc, command, changed, blind, began, ended>>
      BY <1>4 DEF vars, Grows
    <2> QED
      BY <1>1, <2>1, OthersProgress DEF IInv
  <1> QED
    BY <1>1, <1>2, <1>3, <1>4 DEF Next, IInv

\* The bookkeeping of the commands and their outcomes holds in every reachable state.
THEOREM Invariance == Spec => []IInv
  BY InitIInv, NextIInv, PTL DEF Spec

\* Every variable keeps its type, for any set of runs.
THEOREM TypeCorrect == Spec => []TypeOK
  <1>1. IInv => TypeOK
    BY DEF IInv
  <1> QED
    BY <1>1, Invariance, PTL

\* A run that wrote says "changed" or fails, one that says "changed" wrote, and only a
\* run that was asked to, or replaces by force, takes the resource away: also if kubectl
\* fails after its work, or half way, and whatever other clients do meanwhile.
THEOREM RunsAreHonest == Spec => []ResultIsHonest
  <1>1. IInv => ResultIsHonest
    BY DEF IInv, TypeOK, Progress, TakesAway, Ended, ResultIsHonest
  <1> QED
    BY <1>1, Invariance, PTL

\* A run that exits well saw or made what it was asked for between its beginning and
\* its end, with the exceptions that GoalWitnessed names.
THEOREM GoalsAreReached == Spec => []GoalWitnessed
  <1>1. IInv => GoalWitnessed
    BY DEF IInv, Progress, GoalWitnessed, Goal
  <1> QED
    BY <1>1, Invariance, PTL

-----------------------------------------------------------------------------
(* What one run leaves for the next. A run that may rely on its look has   *)
(* the moment of that look, before it wrote anything: what it found then   *)
(* decided whether it wrote at all.                                        *)

Plain(r) == ~task[r].force /\ task[r].resource /\ r \notin blind
Settles(r) == task[r].state \in {"present", "absent", "stopped"}

LeavesIt(r) == pc[r] = "ok" /\ task[r].state = "present" => log[ended[r]].object # Absent

LeavesNone(r) ==
    pc[r] = "ok" /\ task[r].state \in {"absent", "stopped"} /\ Plain(r) =>
        log[ended[r]].object = Absent

\* At entry l of the log nothing was written by r, and r found what it had to change.
LookedAt(r, l) ==
    /\ \A i \in 2 .. l : log[i].by # r
    /\ \/ pc[r] = "ok" /\ ~changed[r]
       \/ task[r].state = "present" <=> log[l].object = Absent

Looked(r) ==
    pc[r] \in {"command", "ok", "failed"} /\ Settles(r) /\ Plain(r) =>
        \E l \in began[r] .. Len(log) :
            (Ended(r) => l <= ended[r]) /\ LookedAt(r, l)

Witness(r) == LeavesIt(r) /\ LeavesNone(r) /\ Looked(r)

\* With nobody else at work and the resource wanted by all, every entry but the first is
\* one of a run's, none is halted, and the resource is only away while one of them replaces it, or failed to.
OwnEntries ==
    foreign = 0 /\ (\A r \in Runs : WantsIt(r)) =>
        \A i \in 2 .. Len(log) : log[i].object \in Runs \cup {Absent}
MissingHasACause ==
    /\ foreign = 0 /\ object = Absent
    /\ \A r \in Runs : WantsIt(r)
    /\ \E r \in Runs : pc[r] = "ok"
    => \E r \in Runs : pc[r] \in {"recreate", "failed"}

QInv == IInv /\ (\A r \in Runs : Witness(r)) /\ OwnEntries /\ MissingHasACause

-----------------------------------------------------------------------------
\* What was looked at and left stays in the log.
LEMMA WitnessStays ==
    ASSUME TypeOK, Grows, NEW q \in Runs, Progress(q), Witness(q),
           task'[q] = task[q], pc'[q] = pc[q], changed'[q] = changed[q],
           began'[q] = began[q], ended'[q] = ended[q], q \in blind' <=> q \in blind
    PROVE  Witness(q)'
  <1>1. Len(log) \in Nat \ {0} /\ Len(log') \in {Len(log), Len(log) + 1}
        /\ \A i \in 1 .. Len(log) : log'[i] = log[i]
    BY LogKeeps
  <1>2. pc[q] = "ok" => ended[q] \in 1 .. Len(log)
    <2> SUFFICES ASSUME pc[q] = "ok" PROVE ended[q] \in 1 .. Len(log)
      OBVIOUS
    <2>1. began[q] \in 1 .. Len(log) /\ ended[q] \in began[q] .. Len(log)
      BY DEF Progress
    <2> QED
      BY <1>1, <2>1
  <1>3. LeavesIt(q)' /\ LeavesNone(q)'
    BY <1>1, <1>2 DEF Witness, LeavesIt, LeavesNone, Plain
  <1>4. Looked(q)'
    <2> SUFFICES ASSUME (pc[q] \in {"command", "ok", "failed"} /\ Settles(q) /\ Plain(q))'
                 PROVE \E l \in began'[q] .. Len(log') :
                          (Ended(q)' => l <= ended'[q]) /\ LookedAt(q, l)'
      BY DEF Looked
    <2>1. PICK l \in began[q] .. Len(log) : (Ended(q) => l <= ended[q]) /\ LookedAt(q, l)
      BY DEF Witness, Looked, Settles, Plain
    <2>2. began[q] \in 1 .. Len(log)
      BY DEF Progress
    <2>3. l \in 1 .. Len(log) /\ l \in began'[q] .. Len(log')
      BY <1>1, <2>1, <2>2
    <2>4. \A i \in 2 .. l : i \in 1 .. Len(log)
      BY <1>1, <2>3
    <2>5. LookedAt(q, l)'
      BY <1>1, <2>1, <2>3, <2>4 DEF LookedAt
    <2>6. Ended(q)' => l <= ended'[q]
      BY <2>1 DEF Ended
    <2> QED
      BY <2>3, <2>5, <2>6
  <1> QED
    BY <1>3, <1>4 DEF Witness

\* A run that decides has just looked.
LEMMA DecideWitness ==
    ASSUME TypeOK, NEW r \in Runs, NEW found \in BOOLEAN, Decide(r, found),
           found /\ task[r].state = "present" => object # Absent,
           Settles(r) /\ Plain(r)' => (found <=> object # Absent),
           log' = log, task' = task, changed' = changed, WritesOf(r) = {}, ~changed[r],
           began'[r] \in 1 .. Len(log)
    PROVE  Witness(r)'
  <1> DEFINE c == Chosen(task[r], found)
             s == task[r].state
  <1>1. s \in States /\ Len(log) \in Nat \ {0}
    BY LogLength DEF TypeOK, Tasks
  <1>2. \A i \in 2 .. Len(log) : log[i].by # r
    BY DEF WritesOf
  <1>3. CASE c = "none"
    <2>1. pc'[r] = "ok" /\ ended'[r] = Len(log)
      BY <1>3 DEF Decide, Exit, TypeOK, Commands
    <2>2. \/ s = "present" /\ found
          \/ s \in {"absent", "stopped", "reloaded"} /\ ~found
      BY <1>1, <1>3 DEF Chosen, States
    <2>3. LeavesIt(r)' /\ LeavesNone(r)'
      BY <2>1, <2>2 DEF LeavesIt, LeavesNone, object, Settles
    <2>4. LookedAt(r, Len(log))' /\ Len(log) \in began'[r] .. Len(log')
      BY <1>1, <1>2, <2>1 DEF LookedAt
    <2> QED
      BY <1>1, <2>1, <2>3, <2>4 DEF Witness, Looked
  <1>4. CASE c # "none"
    <2>1. pc'[r] \in {"failed", "command"} /\ (pc'[r] = "failed" => ended'[r] = Len(log))
      BY <1>4 DEF Decide, Exit, TypeOK
    <2>2. Settles(r) => (s = "present" <=> ~found)
      BY <1>1, <1>4 DEF Chosen, States, Settles
    <2>3. LeavesIt(r)' /\ LeavesNone(r)'
      BY <2>1 DEF LeavesIt, LeavesNone
    <2>4. Settles(r) /\ Plain(r)' => LookedAt(r, Len(log))'
      BY <1>2, <2>2 DEF LookedAt, object
    <2>5. Len(log) \in began'[r] .. Len(log') /\ (Ended(r)' => Len(log) <= ended'[r])
      BY <1>1, <2>1 DEF Ended
    <2>6. Looked(r)'
      BY <2>4, <2>5 DEF Looked, Settles
    <2> QED
      BY <2>3, <2>6 DEF Witness
  <1> QED
    BY <1>3, <1>4

\* A run that ends after its command keeps the moment of its look.
LEMMA EndWitness ==
    ASSUME TypeOK, Grows, NEW r \in Runs, Progress(r), Witness(r), pc[r] = "command",
           pc'[r] \in {"ok", "failed"}, ended'[r] = Len(log'),
           task' = task, began' = began, blind' = blind,
           LeavesIt(r)', LeavesNone(r)'
    PROVE  Witness(r)'
  <1>1. Len(log) \in Nat \ {0} /\ Len(log') \in {Len(log), Len(log) + 1}
        /\ \A i \in 1 .. Len(log) : log'[i] = log[i]
    BY LogKeeps
  <1> SUFFICES ASSUME Settles(r)', Plain(r)'
               PROVE \E l \in began'[r] .. Len(log') :
                        (Ended(r)' => l <= ended'[r]) /\ LookedAt(r, l)'
    BY DEF Witness, Looked
  <1>2. PICK l \in began[r] .. Len(log) : LookedAt(r, l)
    BY DEF Witness, Looked, Settles, Plain
  <1>3. began[r] \in 1 .. Len(log)
    BY DEF Progress
  <1>4. l \in 1 .. Len(log) /\ l \in began'[r] .. Len(log') /\ l <= Len(log')
    BY <1>1, <1>2, <1>3
  <1>5. \A i \in 2 .. l : i \in 1 .. Len(log)
    BY <1>1, <1>4
  <1>6. LookedAt(r, l)'
    BY <1>1, <1>2, <1>4, <1>5 DEF LookedAt
  <1> QED
    BY <1>4, <1>6

\* Each step of a run leaves it with its witness.
LEMMA OwnWitness ==
    ASSUME QInv, NEW r \in Runs,
           \/ Begin(r) \/ Get(r) \/ GetFails(r)
           \/ Create(r) \/ Replace(r) \/ Delete(r) \/ DeleteNothing(r)
           \/ ForceDelete(r) \/ Recreate(r) \/ CommandFails(r)
    PROVE  Witness(r)'
  <1>1. TypeOK /\ Progress(r) /\ Witness(r) /\ task[r].state \in States
    BY DEF QInv, IInv, TypeOK, Tasks
  <1>2. CASE Begin(r) \/ Get(r) \/ GetFails(r)
    <2>1. log' = log /\ task' = task /\ changed' = changed /\ WritesOf(r) = {} /\ ~changed[r]
      BY <1>1, <1>2 DEF Begin, Get, GetFails, Progress
    <2>2. began'[r] \in 1 .. Len(log)
      BY <1>1, <1>2, LogLength DEF Begin, Get, GetFails, Progress, TypeOK
    <2>3. CASE Begin(r) /\ AsksExists(task[r]) /\ task[r].resource
      <3>1. pc'[r] = "exists"
        BY <1>1, <2>3 DEF Begin, TypeOK
      <3> QED
        BY <3>1 DEF Witness, LeavesIt, LeavesNone, Looked
    <2>4. CASE Begin(r) /\ ~(AsksExists(task[r]) /\ task[r].resource)
      <3>1. Decide(r, ~AsksExists(task[r]))
        BY <2>4 DEF Begin
      <3>2. (~AsksExists(task[r])) \in BOOLEAN
        BY DEF AsksExists
      <3>3. ~AsksExists(task[r]) => task[r].state # "present" /\ task[r].force
        BY <2>4 DEF AsksExists
      <3>4. ~Plain(r)'
        BY <2>1, <2>4, <3>3 DEF Plain
      <3> QED
        BY <1>1, <2>1, <2>2, <3>1, <3>2, <3>3, <3>4, DecideWitness
    <2>5. CASE Get(r)
      BY <1>1, <2>1, <2>2, <2>5, DecideWitness DEF Get
    <2>6. CASE GetFails(r)
      <3>1. ~Plain(r)'
        BY <2>6 DEF GetFails, Plain
      <3> QED
        BY <1>1, <2>1, <2>2, <2>6, <3>1, DecideWitness DEF GetFails
    <2> QED
      BY <1>2, <2>3, <2>4, <2>5, <2>6
  <1>3. CASE Create(r) \/ Replace(r) \/ Delete(r)
    <2>1. PICK d \in {r, Absent} : /\ Write(r, d) /\ Succeed(r) /\ pc[r] = "command"
                                   /\ task[r].state = "present" => d # Absent
                                   /\ task[r].state \in {"absent", "stopped"} => d = Absent
      <3>1. CASE Create(r) \/ Replace(r)
        <4>1. Write(r, r) /\ Succeed(r) /\ pc[r] = "command"
              /\ command[r] \in {"create", "replace"}
          BY <3>1 DEF Create, Replace, KubectlIs
        <4>2. task[r].state \notin {"absent", "stopped"}
          BY <1>1, <4>1 DEF Progress, Allowed, States
        <4> QED
          BY <4>1, <4>2, NamesAssumption
      <3>2. CASE Delete(r)
        <4>1. Write(r, Absent) /\ Succeed(r) /\ pc[r] = "command"
              /\ command[r] \in {"delete", "delete --ignore-not-found"}
          BY <3>2 DEF Delete, KubectlIs, Deletions
        <4>2. task[r].state # "present"
          BY <1>1, <4>1 DEF Progress, Allowed, States
        <4> QED
          BY <4>1, <4>2
      <3> QED
        BY <1>3, <3>1, <3>2
    <2>2. Grows /\ log'[Len(log')].object = d
      BY <1>1, <2>1, Written DEF Definitions
    <2>3. pc'[r] = "ok" /\ ended'[r] = Len(log')
          /\ task' = task /\ began' = began /\ blind' = blind
      BY <1>1, <2>1 DEF Succeed, Exit, TypeOK
    <2>4. LeavesIt(r)' /\ LeavesNone(r)'
      BY <2>1, <2>2, <2>3 DEF LeavesIt, LeavesNone
    <2> QED
      BY <1>1, <2>1, <2>2, <2>3, <2>4, EndWitness
  <1>4. CASE Recreate(r)
    <2>1. task'[r].state \notin {"present", "absent", "stopped"}
      BY <1>1, <1>4 DEF Recreate, Succeed, Progress
    <2> QED
      BY <2>1 DEF Witness, LeavesIt, LeavesNone, Looked, Settles
  <1>5. CASE DeleteNothing(r)
    <2>1. log' = log /\ object = Absent /\ pc[r] = "command"
          /\ command[r] = "delete --ignore-not-found"
          /\ UNCHANGED <<task, began, blind>>
      BY <1>5 DEF DeleteNothing, KubectlIs
    <2>2. pc'[r] = "ok" /\ ended'[r] = Len(log')
      BY <1>1, <1>5 DEF DeleteNothing, Exit, TypeOK
    <2>3. task[r].state # "present"
      BY <1>1, <2>1 DEF Progress, Allowed, States
    <2>4. LeavesIt(r)' /\ LeavesNone(r)'
      BY <2>1, <2>2, <2>3 DEF LeavesIt, LeavesNone, object
    <2> QED
      BY <1>1, <2>1, <2>2, <2>4, EndWitness DEF Grows
  <1>6. CASE ForceDelete(r)
    <2>1. pc'[r] = "recreate"
      BY <1>1, <1>6 DEF ForceDelete, TypeOK
    <2> QED
      BY <2>1 DEF Witness, LeavesIt, LeavesNone, Looked
  <1>7. CASE CommandFails(r)
    <2>1. Grows /\ UNCHANGED <<task, began, blind>>
          /\ pc[r] \in {"command", "recreate"}
      BY <1>1, <1>7, FailureWrites DEF CommandFails
    <2>2. pc'[r] = "failed" /\ ended'[r] = Len(log')
      BY <1>1, <1>7 DEF CommandFails, Exit, TypeOK
    <2>3. LeavesIt(r)' /\ LeavesNone(r)'
      BY <2>2 DEF LeavesIt, LeavesNone
    <2>4. CASE pc[r] = "command"
      BY <1>1, <2>1, <2>2, <2>3, <2>4, EndWitness
    <2>5. CASE pc[r] = "recreate"
      <3>1. task'[r].state \notin {"present", "absent", "stopped"}
        BY <1>1, <2>1, <2>5 DEF Progress
      <3> QED
        BY <2>3, <3>1 DEF Witness, Looked, Settles
    <2> QED
      BY <2>1, <2>4, <2>5
  <1> QED
    BY <1>2, <1>3, <1>4, <1>5, <1>6, <1>7

\* A step of a run leaves the others as they were.
LEMMA StepLeavesOthers ==
    ASSUME QInv, NEW r \in Runs,
           \/ Begin(r) \/ Get(r) \/ GetFails(r)
           \/ Create(r) \/ Replace(r) \/ Delete(r) \/ DeleteNothing(r)
           \/ ForceDelete(r) \/ Recreate(r) \/ CommandFails(r)
    PROVE  /\ Grows /\ task' = task /\ foreign' = foreign
           /\ log' = log \/ log'[Len(log')].object \in {r, Absent} \/ ~WantsIt(r)
           /\ \A q \in Runs \ {r} :
                 /\ pc'[q] = pc[q] /\ changed'[q] = changed[q] /\ began'[q] = began[q]
                 /\ ended'[q] = ended[q] /\ (q \in blind' <=> q \in blind)
  <1>1. TypeOK
    BY DEF QInv, IInv
  <1>2. CASE Begin(r) \/ Get(r) \/ GetFails(r)
    <2>1. log' = log /\ task' = task /\ changed' = changed /\ foreign' = foreign
      BY <1>2 DEF Begin, Get, GetFails
    <2>2. \A q \in Runs \ {r} : began'[q] = began[q] /\ (q \in blind' <=> q \in blind)
      BY <1>1, <1>2 DEF Begin, Get, GetFails, TypeOK
    <2>3. ASSUME NEW found, Decide(r, found)
          PROVE  \A q \in Runs \ {r} : pc'[q] = pc[q] /\ ended'[q] = ended[q]
      BY <1>1, <2>3 DEF Decide, Exit, TypeOK
    <2>4. \A q \in Runs \ {r} : pc'[q] = pc[q] /\ ended'[q] = ended[q]
      <3>1. CASE Begin(r) /\ AsksExists(task[r]) /\ task[r].resource
        BY <1>1, <3>1 DEF Begin, TypeOK
      <3>2. CASE Begin(r) /\ ~(AsksExists(task[r]) /\ task[r].resource)
        BY <2>3, <3>2 DEF Begin
      <3>3. CASE Get(r) \/ GetFails(r)
        BY <2>3, <3>3 DEF Get, GetFails
      <3> QED
        BY <1>2, <3>1, <3>2, <3>3
    <2> QED
      BY <2>1, <2>2, <2>4 DEF Grows
  <1>3. CASE Create(r) \/ Replace(r) \/ Delete(r) \/ Recreate(r)
    <2>1. PICK d \in {r, Absent} : Write(r, d) /\ Succeed(r)
      BY <1>3 DEF Create, Replace, Delete, Recreate
    <2>2. Grows /\ log'[Len(log')].object = d
      BY <1>1, <2>1, Written DEF Definitions
    <2> QED
      BY <1>1, <2>1, <2>2 DEF Succeed, Exit, TypeOK
  <1>4. CASE DeleteNothing(r)
    BY <1>1, <1>4 DEF DeleteNothing, Exit, TypeOK, Grows
  <1>6. CASE CommandFails(r)
    <2>1. Grows /\ (log' = log \/ log'[Len(log')].object \in {r, Absent} \/ ~WantsIt(r))
      BY <1>1, <1>6, FailureWrites DEF QInv, IInv, WantsIt
    <2> QED
      BY <1>1, <1>6, <2>1 DEF CommandFails, Exit, TypeOK
  <1>5. CASE ForceDelete(r)
    <2>1. Grows /\ (log' = log \/ log'[Len(log')].object = Absent)
      <3>1. CASE log' = log
        BY <3>1 DEF Grows
      <3>2. CASE Write(r, Absent)
        BY <1>1, <3>2, Written DEF Definitions
      <3> QED
        BY <1>5, <3>1, <3>2 DEF ForceDelete
    <2> QED
      BY <1>1, <1>5, <2>1 DEF ForceDelete, TypeOK
  <1> QED
    BY <1>2, <1>3, <1>4, <1>5, <1>6

\* A step of a run adds an entry of its own, or none.
LEMMA OwnEntriesStep ==
    ASSUME TypeOK, Grows, OwnEntries, foreign' = foreign, task' = task, NEW r \in Runs,
           log' = log \/ log'[Len(log')].object \in {r, Absent} \/ ~WantsIt(r)
    PROVE  OwnEntries'
  <1>1. Len(log) \in Nat \ {0} /\ Len(log') \in {Len(log), Len(log) + 1}
        /\ \A i \in 1 .. Len(log) : log'[i] = log[i]
    BY LogKeeps
  <1> SUFFICES ASSUME foreign = 0, \A q \in Runs : WantsIt(q), NEW i \in 2 .. Len(log')
               PROVE log'[i].object \in Runs \cup {Absent}
    BY DEF OwnEntries, WantsIt
  <1>2. CASE i <= Len(log)
    <2>1. i \in 1 .. Len(log) /\ i \in 2 .. Len(log)
      BY <1>1, <1>2
    <2> QED
      BY <1>1, <2>1 DEF OwnEntries
  <1>3. CASE i > Len(log)
    <2>1. i = Len(log') /\ log' # log
      BY <1>1, <1>3
    <2> QED
      BY <2>1
  <1> QED
    BY <1>1, <1>2, <1>3

\* Who takes the wanted resource away has yet to recreate it, or fails.
LEMMA MissingStep ==
    ASSUME QInv, NEW r \in Runs,
           \/ Begin(r) \/ Get(r) \/ GetFails(r)
           \/ Create(r) \/ Replace(r) \/ Delete(r) \/ DeleteNothing(r)
           \/ ForceDelete(r) \/ Recreate(r) \/ CommandFails(r)
    PROVE  MissingHasACause'
  <1>1. TypeOK /\ Progress(r) /\ task' = task /\ foreign' = foreign
        /\ \A q \in Runs \ {r} : pc'[q] = pc[q]
    BY StepLeavesOthers DEF QInv, IInv
  <1> SUFFICES ASSUME foreign = 0, object' = Absent, \A q \in Runs : WantsIt(q),
                      NEW q \in Runs, pc'[q] = "ok"
               PROVE  \E p \in Runs : pc'[p] \in {"recreate", "failed"}
    BY <1>1 DEF MissingHasACause, WantsIt
  <1>2. task[r].state \in {"present", "latest"}
    BY DEF WantsIt
  <1>3. CASE Begin(r) \/ Get(r) \/ GetFails(r)
    <2>1. log' = log /\ object = Absent /\ pc[r] \in {"begin", "exists"}
      BY <1>3 DEF Begin, Get, GetFails, object
    <2>2. ASSUME NEW found \in BOOLEAN, Decide(r, found),
                 found /\ task[r].state = "present" => object # Absent
          PROVE  pc'[r] # "ok"
      <3>1. Chosen(task[r], found) # "none"
        BY <1>2, <2>1, <2>2 DEF Chosen
      <3> QED
        BY <1>1, <2>2, <3>1 DEF Decide, Exit, TypeOK
    <2>3. pc'[r] # "ok"
      <3>1. CASE Begin(r) /\ AsksExists(task[r]) /\ task[r].resource
        BY <1>1, <3>1 DEF Begin, TypeOK
      <3>2. CASE Begin(r) /\ ~(AsksExists(task[r]) /\ task[r].resource)
        <4>1. AsksExists(task[r]) /\ (~AsksExists(task[r])) \in BOOLEAN
          BY <1>2 DEF AsksExists
        <4>2. Decide(r, ~AsksExists(task[r]))
          BY <3>2 DEF Begin
        <4> QED
          BY <2>2, <4>1, <4>2
      <3>3. CASE Get(r)
        BY <2>2, <3>3 DEF Get
      <3>4. CASE GetFails(r)
        BY <2>2, <3>4 DEF GetFails
      <3> QED
        BY <1>3, <3>1, <3>2, <3>3, <3>4
    <2>4. q # r /\ pc[q] = "ok"
      BY <1>1, <2>3
    <2>5. PICK p \in Runs : pc[p] \in {"recreate", "failed"}
      BY <2>1, <2>4 DEF QInv, MissingHasACause
    <2>6. p # r
      BY <2>1, <2>5
    <2> QED
      BY <1>1, <2>5, <2>6
  <1>4. CASE Create(r) \/ Replace(r) \/ Recreate(r)
    <2>1. Write(r, r)
      BY <1>4 DEF Create, Replace, Recreate
    <2>2. object' = r
      BY <1>1, <2>1, Written DEF Definitions, object
    <2> QED
      BY <2>2, NamesAssumption
  <1>5. CASE Delete(r) \/ DeleteNothing(r)
    <2>1. command[r] \in {"delete", "delete --ignore-not-found"} /\ pc[r] = "command"
      BY <1>5 DEF Delete, DeleteNothing, KubectlIs, Deletions
    <2> QED
      BY <1>1, <1>2, <2>1 DEF Progress, Allowed
  <1>6. CASE ForceDelete(r)
    BY <1>1, <1>6 DEF ForceDelete, TypeOK
  <1>7. CASE CommandFails(r)
    BY <1>1, <1>7 DEF CommandFails, Exit, TypeOK
  <1> QED
    BY <1>3, <1>4, <1>5, <1>6, <1>7

\* Before the first step there is nothing to show.
LEMMA InitQInv == Init => QInv
  <1> SUFFICES ASSUME Init PROVE QInv
    OBVIOUS
  <1>1. PICK found \in {Absent, Foreign} : log = <<[by |-> Foreign, object |-> found]>>
    BY DEF Init
  <1>2. Len(log) = 1 /\ \A r \in Runs : pc[r] = "begin"
    BY <1>1 DEF Init
  <1>3. \A r \in Runs : Witness(r)
    BY <1>2 DEF Witness, LeavesIt, LeavesNone, Looked
  <1> QED
    BY <1>2, <1>3, InitIInv DEF QInv, OwnEntries, MissingHasACause

\* Every step keeps the witnesses of all runs.
LEMMA NextQInv == QInv /\ [Next]_vars => QInv'
  <1> SUFFICES ASSUME QInv, [Next]_vars PROVE QInv'
    OBVIOUS
  <1>1. IInv' /\ TypeOK
    BY NextIInv DEF QInv, IInv
  <1>2. ASSUME NEW r \in Runs,
               \/ Begin(r) \/ Get(r) \/ GetFails(r)
               \/ Create(r) \/ Replace(r) \/ Delete(r) \/ DeleteNothing(r)
               \/ ForceDelete(r) \/ Recreate(r) \/ CommandFails(r)
        PROVE  QInv'
    <2>1. /\ Grows /\ task' = task /\ foreign' = foreign
          /\ log' = log \/ log'[Len(log')].object \in {r, Absent} \/ ~WantsIt(r)
          /\ \A q \in Runs \ {r} :
                /\ pc'[q] = pc[q] /\ changed'[q] = changed[q] /\ began'[q] = began[q]
                /\ ended'[q] = ended[q] /\ (q \in blind' <=> q \in blind)
      BY <1>2, StepLeavesOthers
    <2>2. Witness(r)'
      BY <1>2, OwnWitness
    <2>3. ASSUME NEW q \in Runs \ {r} PROVE Witness(q)'
      BY <1>1, <2>1, WitnessStays DEF QInv, IInv
    <2>4. \A q \in Runs : Witness(q)'
      BY <2>2, <2>3
    <2>5. OwnEntries'
      BY <1>1, <2>1, OwnEntriesStep DEF QInv
    <2>6. MissingHasACause'
      BY <1>2, MissingStep
    <2> QED
      BY <1>1, <2>4, <2>5, <2>6 DEF QInv
  <1>3. CASE ForeignWrite
    <2>1. PICK d \in {Absent, Foreign} : Write(Foreign, d)
      BY <1>3 DEF ForeignWrite
    <2>2. Grows
      BY <1>1, <2>1, Written DEF Definitions
    <2>3. UNCHANGED <<task, pc, command, changed, blind, began, ended>> /\ foreign' # 0
      BY <1>1, <1>3, BoundAssumption DEF ForeignWrite, TypeOK
    <2>4. \A q \in Runs : Witness(q)'
      BY <1>1, <2>2, <2>3, WitnessStays DEF QInv, IInv
    <2> QED
      BY <1>1, <2>3, <2>4 DEF QInv, OwnEntries, MissingHasACause
  <1>4. CASE UNCHANGED vars
    <2>1. Grows /\ UNCHANGED <<task, pc, command, changed, blind, log, began, ended, foreign>>
      BY <1>4 DEF vars, Grows
    <2>2. \A q \in Runs : Witness(q)'
      BY <1>1, <2>1, WitnessStays DEF QInv, IInv
    <2>3. OwnEntries' /\ MissingHasACause'
      BY <2>1 DEF QInv, OwnEntries, MissingHasACause, object, WantsIt
    <2> QED
      BY <1>1, <2>2, <2>3 DEF QInv
  <1> QED
    BY <1>2, <1>3, <1>4 DEF Next

\* What a run looked at and left, and why a wanted resource is away.
THEOREM WitnessInvariance == Spec => []QInv
  BY InitQInv, NextQInv, PTL DEF Spec

\* Runs that all want the resource and all exit well leave it in place, whatever the
\* order of their looks, deletions and creations, for any number of runs.
THEOREM RunsDoNotUndo == Spec => []NobodyUndoesIt
  <1>1. ASSUME QInv PROVE NobodyUndoesIt
    <2> SUFFICES ASSUME \A r \in Runs : WantsIt(r) /\ pc[r] = "ok", foreign = 0
                 PROVE  /\ object # Absent
                        /\ (\E r \in Runs : task[r].state = "latest") =>
                              \E r \in Runs : object = r
      BY DEF NobodyUndoesIt
    <2>1. object # Absent
      BY <1>1, RunsAssumption DEF QInv, MissingHasACause
    <2>2. ASSUME NEW r \in Runs, task[r].state = "latest" PROVE \E q \in Runs : object = q
      <3>1. Goal(r) /\ TypeOK
        BY <1>1 DEF QInv, IInv, Progress
      <3>2. Applied(r)
        BY <2>2, <3>1 DEF Goal
      <3>3. Len(log) \in 2 .. Len(log)
        BY <3>1, <3>2, LogLength DEF Applied, WritesOf
      <3>4. object \in Runs \cup {Absent}
        BY <1>1, <3>3 DEF QInv, OwnEntries, object
      <3> QED
        BY <2>1, <3>4
    <2> QED
      BY <2>1, <2>2
  <1> QED
    BY <1>1, WitnessInvariance, PTL

\* The same task once more, with nobody else at work, exits well and changes nothing:
\* the second run looked at what the first one left.
THEOREM SecondRunDoesNothing == Spec => []SecondRunIsQuiet
  <1>1. ASSUME QInv PROVE SecondRunIsQuiet
    <2> SUFFICES ASSUME NEW r \in Runs, NEW q \in Runs, task[r] = task[q],
                        ~task[r].force, task[r].resource,
                        task[r].state \in {"present", "absent", "stopped"},
                        pc[r] = "ok", Ended(q), ended[r] <= began[q], Untouched(r, q),
                        blind = {}
                 PROVE  pc[q] = "ok" /\ ~changed[q]
      BY DEF SecondRunIsQuiet
    <2>1. TypeOK /\ Progress(r) /\ Progress(q) /\ Witness(r) /\ Witness(q)
      BY <1>1 DEF QInv, IInv
    <2>2. Len(log) \in Nat \ {0} /\ began[r] \in 1 .. Len(log)
          /\ ended[r] \in began[r] .. Len(log)
      BY <2>1, LogLength DEF Progress
    <2>3. began[q] \in 1 .. Len(log) /\ ended[q] \in 0 .. Len(log)
      BY <2>1 DEF Progress, Ended, TypeOK
    <2>4. Plain(r) /\ Plain(q) /\ Settles(q)
      BY DEF Plain, Settles
    <2>5. PICK l \in began[q] .. Len(log) : l <= ended[q] /\ LookedAt(q, l)
      BY <2>1, <2>4 DEF Witness, Looked, Ended
    <2>6. l = ended[r]
      <3> SUFFICES ASSUME l # ended[r] PROVE FALSE
        OBVIOUS
      <3>1. l \in ended[r] + 1 .. ended[q] /\ l \in 2 .. l
        BY <2>2, <2>3, <2>5
      <3> QED
        BY <2>5, <3>1 DEF Untouched, LookedAt
    <2>7. ~(task[q].state = "present" <=> log[l].object = Absent)
      BY <2>1, <2>4, <2>6 DEF Witness, LeavesIt, LeavesNone
    <2> QED
      BY <2>5, <2>7 DEF LookedAt
  <1> QED
    BY <1>1, WitnessInvariance, PTL
=============================================================================
