----------------------------- MODULE MysqlInit -----------------------------
(***************************************************************************)
(* The start of the MySQL master container: entrypoint.sh in the           *)
(* background initialises the data directory if it is not there, with a    *)
(* temporary server that takes connections by socket only; my_entrypoint.sh *)
(* in the foreground waits for whatever server lets root in and creates    *)
(* what the replication and the demo site need. The data directory is on a *)
(* volume and survives the container, which is started again whenever it   *)
(* ends. Both scripts run with set -e.                                     *)
(***************************************************************************)
EXTENDS Naturals

CONSTANTS MaxTries,    \* logins of my_entrypoint.sh before it goes on without one (15)
          MaxWaits,    \* waits of entrypoint.sh for the temporary server (30)
          MaxCrashes   \* containers that are killed

ASSUME BoundsAssumption == MaxTries \in Nat \ {0} /\ MaxWaits \in Nat /\ MaxCrashes \in Nat

VARIABLES system,      \* the directory of the system tables: "absent", "partial" or "whole"
          root,        \* "empty" password, "bare": password and no privileges, or "full"
          peter,       \* the replication user exists
          demo,        \* of the demo site: "none", the "database", or also its "table"
          up,          \* the container runs
          entry,       \* the next step of entrypoint.sh
          server,      \* "none", the "temporary" or the "real" mysqld
          ready,       \* it takes connections
          script,      \* the next step of my_entrypoint.sh
          tries, waits,
          prompt,      \* assumed of the server: it takes connections before tries run out
          crashes,
          cut          \* the script ended between the user and the table, once

disk == <<system, root, peter, demo>>
counts == <<tries, waits>>
faults == <<prompt, crashes, cut>>
vars == <<disk, up, entry, server, ready, script, counts, faults>>

Creating == {"create database", "create table", "lost"}

TypeOK ==
    /\ system \in {"absent", "partial", "whole"}
    /\ root \in {"empty", "bare", "full"}
    /\ peter \in BOOLEAN /\ demo \in {"none", "database", "table"}
    /\ up \in BOOLEAN /\ ready \in BOOLEAN
    /\ entry \in {"begin", "initialize", "wait", "create root", "grant root", "stop",
                  "exec", "mysqld", "failed"}
    /\ server \in {"none", "temporary", "real"}
    /\ script \in {"poll", "check", "grant", "fg"} \cup Creating
    /\ tries \in 0 .. MaxTries /\ waits \in 0 .. MaxWaits
    /\ prompt \in BOOLEAN /\ crashes \in 0 .. MaxCrashes /\ cut \in BOOLEAN

Init ==
    /\ system = "absent" /\ root = "empty" /\ peter = FALSE /\ demo = "none"
    /\ up = TRUE /\ entry = "begin" /\ script = "poll" /\ tries = 0 /\ waits = 0
    /\ server = "none" /\ ready = FALSE
    /\ prompt \in BOOLEAN /\ crashes = 0 /\ cut = FALSE

-----------------------------------------------------------------------------
(* The server.                                                             *)

Serve(s) == server' = s /\ ready' = FALSE

\* A mysqld takes connections some time after its start, never on partial tables.
Accept ==
    /\ up /\ server # "none" /\ ~ready /\ system = "whole" /\ ready' = TRUE
    /\ UNCHANGED <<disk, up, entry, server, script, counts, faults>>

-----------------------------------------------------------------------------
(* entrypoint.sh                                                           *)

Uninitialised == system = "absent"

Begin ==
    /\ up /\ entry = "begin"
    /\ \/ Uninitialised /\ system' = "partial" /\ entry' = "initialize"
       \/ ~Uninitialised /\ entry' = "exec" /\ UNCHANGED system
    /\ UNCHANGED <<root, peter, demo, up, server, ready, script, counts, faults>>

Initialize ==
    /\ up /\ entry = "initialize"
    /\ system' = "whole" /\ Serve("temporary") /\ entry' = "wait"
    /\ UNCHANGED <<root, peter, demo, up, script, counts, faults>>

LastWaitForgotten == waits > MaxWaits
LastWait == waits = MaxWaits

\* [ "$i" = 0 ] does not tell a login at the last attempt from none at all.
WaitEnds ==
    /\ up /\ entry = "wait" /\ (ready \/ LastWait)
    /\ entry' = IF LastWait THEN "failed" ELSE "create root"
    /\ UNCHANGED <<disk, up, server, ready, script, counts, faults>>

WaitMore ==
    /\ up /\ entry = "wait" /\ ~ready /\ ~LastWait /\ waits' = waits + 1
    /\ UNCHANGED <<disk, up, entry, server, ready, script, tries, faults>>

\* CREATE USER root and GRANT ALL are two statements.
CreateRoot ==
    /\ up /\ entry = "create root" /\ root' = "bare" /\ entry' = "grant root"
    /\ UNCHANGED <<system, peter, demo, up, server, ready, script, counts, faults>>

GrantRoot ==
    /\ up /\ entry = "grant root" /\ root' = "full" /\ entry' = "stop"
    /\ UNCHANGED <<system, peter, demo, up, server, ready, script, counts, faults>>

\* set -e: what fills the directory may fail, or the load of the time zones, which comes
\* before root, or one of the two statements. A temporary server goes on.
InitFails ==
    /\ up /\ entry \in {"initialize", "create root", "grant root"} /\ entry' = "failed"
    /\ UNCHANGED <<disk, up, server, ready, script, counts, faults>>

\* kill -s TERM, wait: a client of the temporary server loses its connection. A server
\* that was gone already, or that fails while it stops, ends the initialisation.
StopTemporary ==
    /\ up /\ entry = "stop" /\ Serve("none") /\ entry' \in {"exec", "failed"}
    /\ script' = IF script = "create table" THEN "lost" ELSE script
    /\ UNCHANGED <<disk, up, counts, faults>>

Exec ==
    /\ up /\ entry = "exec" /\ Serve("real") /\ entry' = "mysqld"
    /\ UNCHANGED <<disk, up, script, counts, faults>>

Entrypoint == \/ Begin \/ Initialize \/ WaitEnds \/ WaitMore
              \/ CreateRoot \/ GrantRoot \/ InitFails \/ StopTemporary \/ Exec

-----------------------------------------------------------------------------
(* The container.                                                          *)

Unfinished == script \in Creating /\ demo # "table"

\* The first process ends, and all others with it. The volume stays.
ContainerEnds ==
    /\ up' = FALSE /\ Serve("none") /\ cut' = (cut \/ Unfinished)
    /\ UNCHANGED <<disk, entry, script, counts, prompt>>

Crash == up /\ crashes < MaxCrashes /\ crashes' = crashes + 1 /\ ContainerEnds

Restart ==
    /\ ~up /\ up' = TRUE /\ entry' = "begin" /\ script' = "poll" /\ tries' = 0 /\ waits' = 0
    /\ UNCHANGED <<disk, server, ready, faults>>

-----------------------------------------------------------------------------
(* my_entrypoint.sh                                                        *)

RootLogsIn == ready /\ root # "empty"

Login ==
    /\ up /\ script = "poll" /\ RootLogsIn /\ script' = "check"
    /\ UNCHANGED <<disk, up, entry, server, ready, counts, faults>>

Starting == system = "whole" /\ ~ready /\ entry # "failed"

\* After the last try the script goes on as if root had been let in.
TryAgain ==
    /\ up /\ script = "poll" /\ ~RootLogsIn /\ tries < MaxTries /\ tries' = tries + 1
    /\ tries' = MaxTries /\ prompt => ~Starting
    /\ script' = IF tries' = MaxTries THEN "check" ELSE "poll"
    /\ UNCHANGED <<disk, up, entry, server, ready, waits, faults>>

SomebodyLogsIn == RootLogsIn
NobodyLogsIn == FALSE
PeterLogsIn == ready /\ peter

Check ==
    /\ up /\ script = "check" /\ script' = IF PeterLogsIn THEN "fg" ELSE "grant"
    /\ UNCHANGED <<disk, up, entry, server, ready, counts, faults>>

CanWrite == ready /\ root = "full"

Grant ==
    /\ up /\ script = "grant" /\ CanWrite /\ peter' = TRUE /\ script' = "create database"
    /\ UNCHANGED <<system, root, demo, up, entry, server, ready, counts, faults>>

CreateDatabase ==
    /\ up /\ script = "create database" /\ CanWrite /\ demo = "none"
    /\ demo' = "database" /\ script' = "create table"
    /\ UNCHANGED <<system, root, peter, up, entry, server, ready, counts, faults>>

CreateTable ==
    /\ up /\ script = "create table" /\ demo' = "table" /\ script' = "fg"
    /\ UNCHANGED <<system, root, peter, up, entry, server, ready, counts, faults>>

\* set -e: a statement that fails, or fg without a job, ends the script.
Fails ==
    \/ script \in {"grant", "create database"} /\ ~CanWrite
    \/ script = "create database" /\ demo # "none"
    \/ script = "lost"
    \/ script = "fg" /\ entry = "failed"

ScriptEnds == up /\ Fails /\ ContainerEnds /\ UNCHANGED crashes

Script == \/ Login \/ TryAgain \/ Check \/ Grant
          \/ CreateDatabase \/ CreateTable \/ ScriptEnds

Next == Accept \/ Entrypoint \/ Script \/ Crash \/ Restart

Spec == Init /\ [][Next]_vars

\* The scripts run, a server starts, the kubelet restarts what ended.
FairSpec == /\ Spec
            /\ WF_vars(Accept) /\ WF_vars(Entrypoint) /\ WF_vars(Script) /\ WF_vars(Restart)

-----------------------------------------------------------------------------
(* Properties.                                                             *)

\* A script that reached its end left what the slave needs to replicate, and what the
\* demo site needs unless a container ended right between the two statements: on the
\* temporary server or the real one, after any crash, however late root was let in. The
\* user is the mark of a finished set-up, so it must never be there before root's rights.
SetUpIsComplete ==
    /\ script = "fg" => peter /\ root = "full" /\ (demo = "table" \/ cut)
    /\ peter => root = "full" /\ system = "whole"
    /\ demo # "none" => peter

InService == up /\ script = "fg" /\ server = "real" /\ ready

\* Once root has its password and rights, no crash, no failed statement and no restart
\* keeps the master out of service for ever, if its server starts within the polls. A
\* crash before that does: the directory counts as initialised and is never completed.
ServesInTheEnd == prompt /\ root = "full" ~> InService
=============================================================================
