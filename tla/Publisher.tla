------------------------------ MODULE Publisher ------------------------------
(***************************************************************************)
(* vm_booting: "main.py send" publishes a boot job every second with       *)
(* poc/Queue.py's Publisher, counts the broker's confirmations and opens   *)
(* a new connection when the old one closes.  One thread: every callback   *)
(* of the pika ioloop is a step.  A message is its delivery tag.           *)
(***************************************************************************)
EXTENDS Naturals, Sequences, FiniteSets

CONSTANTS MaxNumber,       \* bound on the messages of one connection
          MaxConnections   \* bound on the connections of a behaviour

ASSUME BoundsAssumption == MaxNumber \in Nat /\ MaxConnections \in Nat \ {0}

VARIABLES
    link,          \* the connection: up, broken but not noticed, or none
    connections,   \* how often _connect() succeeded
    proc,          \* the process
    stopping,      \* Publisher._stopping
    stage,         \* the callback the publisher waits for, or "publish"
    timers,        \* publish_message() timeouts pending on the ioloop
    number,        \* _message_number, the newest delivery tag
    deliveries,    \* _deliveries: a list in the code, each tag is in it once
    acked,         \* _acked
    nacked,        \* _nacked
    outstanding,   \* tags the broker has received and not answered
    confirms,      \* Basic.Ack and Basic.Nack frames on their way
    settled        \* (history) tags confirmed by a frame for a later tag

connVars   == <<link, connections, proc, stopping, stage>>
countVars  == <<number, deliveries, acked, nacked>>
brokerVars == <<outstanding, confirms, settled>>
vars == <<connVars, timers, countVars, brokerVars>>

Setup == <<"connect", "channel", "exchange", "queue", "bind", "publish">>
Tags == 1 .. MaxNumber
Frames == [type : {"ack", "nack"}, tag : Tags]
Elements(q) == {q[i] : i \in 1 .. Len(q)}

TypeOK ==
    /\ link \in {"none", "up", "down"}
    /\ connections \in 0 .. MaxConnections
    /\ proc \in {"running", "dead", "exited"} /\ stopping \in BOOLEAN
    /\ stage \in {"connect", "channel", "exchange", "queue", "bind", "publish",
                  "close", "reopen"}
    /\ timers \in {0, 1}
    /\ number \in 0 .. MaxNumber /\ acked \in 0 .. number /\ nacked \in 0 .. number
    /\ deliveries \in SUBSET (1 .. number)
    /\ outstanding \in SUBSET (1 .. number) /\ settled \in SUBSET Tags
    /\ confirms \in Seq(Frames)

Init ==
    /\ link = "none" /\ connections = 0
    /\ proc = "running" /\ stopping = FALSE /\ stage = "connect" /\ timers = 0
    /\ number = 0 /\ deliveries = {} /\ acked = 0 /\ nacked = 0
    /\ outstanding = {} /\ confirms = <<>> /\ settled = {}

-----------------------------------------------------------------------------
(* The broker and the network (external).                                  *)

\* One frame confirms one message, or with "multiple" all up to its tag.
Confirm(t, multiple) ==
    /\ link = "up" /\ t \in outstanding
    /\ \E type \in {"ack", "nack"} :
          confirms' = Append(confirms, [type |-> type, tag |-> t])
    /\ LET below == IF multiple THEN {u \in outstanding : u < t} ELSE {} IN
         /\ outstanding' = outstanding \ (below \cup {t})
         /\ settled' = settled \cup below
    /\ UNCHANGED <<connVars, timers, countVars>>

\* (bound) a fault leaves a connection to open.
MayBreak == connections < MaxConnections

\* What the broker has not answered it answers no more.
LoseConnection ==
    /\ link = "up" /\ MayBreak
    /\ link' = "down" /\ outstanding' = {}
    /\ \E k \in 0 .. Len(confirms) : confirms' = SubSeq(confirms, 1, k)
    /\ UNCHANGED <<connections, proc, stopping, stage, timers, countVars, settled>>

-----------------------------------------------------------------------------
(* Callbacks of the ioloop.                                                *)

Running == proc = "running"

Waits(from, to) == Running /\ stage = from /\ stage' = to

Connect ==
    /\ Waits("connect", "channel")
    /\ link' = "up" /\ connections' = connections + 1
    /\ UNCHANGED <<proc, stopping, timers, countVars, brokerVars>>

\* run() lets the error of a failed connection through, and main() too.
ConnectFails ==
    /\ Running /\ stage = "connect" /\ proc' = "dead"
    /\ UNCHANGED <<link, connections, stopping, stage, timers, countVars, brokerVars>>

\* _on_channel_open(), _on_exchange_declare(), _on_queue_declare() and, with the
\* first message scheduled, _on_bind().
SetUp(i) ==
    /\ link = "up" /\ Waits(Setup[i], Setup[i + 1])
    /\ timers' = IF Setup[i] = "bind" THEN timers + 1 ELSE timers
    /\ UNCHANGED <<link, connections, proc, stopping, countVars, brokerVars>>

HasChannel == stage \in {"exchange", "queue", "bind", "publish"}

\* Without an open channel the timeout is not renewed. The network may be broken
\* all the same: the message goes nowhere.
PublishMessage ==
    /\ Running /\ timers > 0
    /\ \/ /\ stage = "publish" /\ number < MaxNumber
          /\ number' = number + 1
          /\ deliveries' = deliveries \cup {number + 1}
          /\ outstanding' = IF link = "up" THEN outstanding \cup {number + 1} ELSE outstanding
          /\ UNCHANGED timers
       \/ /\ ~HasChannel
          /\ timers' = timers - 1
          /\ UNCHANGED <<number, deliveries, outstanding>>
    /\ UNCHANGED <<connVars, acked, nacked, confirms, settled>>

OnDeliveryConfirmation ==
    /\ Running /\ stage = "publish" /\ confirms # <<>>
    /\ LET c == Head(confirms) IN
         /\ acked' = IF c.type = "ack" THEN acked + 1 ELSE acked
         /\ nacked' = IF c.type = "nack" THEN nacked + 1 ELSE nacked
         /\ deliveries' = deliveries \ {c.tag}
    /\ confirms' = Tail(confirms)
    /\ UNCHANGED <<connVars, timers, number, outstanding, settled>>

\* The broker closes the channel: _on_channel_closed() closes the connection.
OnChannelClosed ==
    /\ Running /\ link = "up" /\ HasChannel /\ MayBreak
    /\ stage' = "close" /\ outstanding' = {} /\ confirms' = <<>>
    /\ UNCHANGED <<link, connections, proc, stopping, timers, countVars, settled>>

AfterClose == IF stopping THEN "exited" ELSE "running"

OnConnectionClosed ==
    /\ Running
    /\ link = "down" \/ (link = "up" /\ stage = "close")
    /\ link' = "none" /\ outstanding' = {} /\ confirms' = <<>>
    /\ proc' = AfterClose
    /\ stage' = "reopen"
    /\ UNCHANGED <<connections, stopping, timers, countVars, settled>>

StayClosed == "reopen"

ReopenStage == "connect"

KeepCounters == UNCHANGED <<deliveries, acked, nacked>>

ResetCounters == deliveries' = {} /\ acked' = 0 /\ nacked' = 0

KeepTimers == timers

\* The timeouts of the old connection end with its ioloop.
NewLoop == 0

\* After the retry interval the ioloop stops; run() starts over with a new
\* connection, which has an ioloop of its own.
Reopen ==
    /\ Running /\ ~stopping /\ stage = "reopen"
    /\ stage' = ReopenStage
    /\ timers' = NewLoop
    /\ number' = 0 /\ settled' = {} /\ ResetCounters
    /\ UNCHANGED <<link, connections, proc, stopping, outstanding, confirms>>

\* KeyboardInterrupt: stop() closes the channel and the connection, and run()
\* waits for the end of the connection if there still is one.
Stop ==
    /\ Running /\ ~stopping /\ stopping' = TRUE
    /\ \/ link = "none" /\ proc' = "exited" /\ UNCHANGED stage
       \/ link # "none" /\ stage' = "close" /\ UNCHANGED proc
    /\ UNCHANGED <<link, connections, timers, countVars, brokerVars>>

-----------------------------------------------------------------------------
Callback == Connect \/ ConnectFails \/ (\E i \in 2 .. Len(Setup) - 1 : SetUp(i))
            \/ OnConnectionClosed \/ Reopen

Next == Callback \/ PublishMessage \/ OnDeliveryConfirmation \/ OnChannelClosed \/ Stop
        \/ LoseConnection \/ \E t \in Tags, m \in BOOLEAN : Confirm(t, m)

Spec == Init /\ [][Next]_vars

\* The broker answers the requests of the set-up and the ioloop runs what is due.
FairSpec == Spec /\ WF_vars(Callback) /\ WF_vars(PublishMessage)

-----------------------------------------------------------------------------
(* Properties.                                                             *)

\* The publishing chain: a publisher that has its channel set up has exactly one
\* timeout pending, so a reconnection neither ends nor doubles the stream of jobs.
OneChain ==
    /\ timers <= 1
    /\ Running /\ stage = "publish" => timers = 1

\* The statistics that are logged add up, on every connection anew: no tag is
\* confirmed twice, so list.remove() never fails.
CountersAddUp == acked + nacked + Cardinality(deliveries) = number

\* While the channel is up, a message counts as unconfirmed exactly if the broker
\* has not answered it, if the answer is on its way, or if the answer was a
\* "multiple" frame for a later message; no tag of an earlier connection remains.
DeliveriesAreUnconfirmed ==
    link = "up" /\ stage = "publish" =>
        deliveries = outstanding \cup settled \cup {c.tag : c \in Elements(confirms)}

\* "Connection closed, reopening in %d seconds": the publisher publishes again,
\* unless it is stopped or the attempt to connect fails.
PublishesAgain ==
    link = "down" /\ ~stopping ~>
        (stage = "publish" /\ link = "up") \/ stopping \/ proc = "dead"
=============================================================================
