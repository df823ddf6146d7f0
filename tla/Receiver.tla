------------------------------ MODULE Receiver ------------------------------
(***************************************************************************)
(* vm_booting: "main.py receive" consumes boot jobs from a RabbitMQ queue  *)
(* with poc/Queue.py's Receiver and runs an Ansible play for each before   *)
(* it acknowledges it.  The receiver is one thread: every callback of the  *)
(* pika ioloop is a step, and a play blocks the loop.                      *)
(***************************************************************************)
EXTENDS Naturals, Sequences, FiniteSets

CONSTANTS Messages,     \* messages that may be published, once each
          Prefetch,     \* basic_qos(prefetch_count), 10 in the code
          MaxStarts,    \* bound on how often the program is started
          NoMessage     \* no play is running

ASSUME PrefetchAssumption == Prefetch \in Nat \ {0}
ASSUME StartAssumption == MaxStarts \in Nat \ {0}
ASSUME MessageAssumption == NoMessage \notin Messages

VARIABLES
    published,  \* (history) the messages in the order of their publication
    queue,      \* the broker's queue: ready messages
    unacked,    \* delivered on the current channel, not acknowledged
    acked,      \* removed from the broker by an acknowledgement
    wiped,      \* removed by a restart of the broker: the queue is not durable
    requeued,   \* (history) messages put back in the queue, counted
    link,       \* the connection as the broker has it
    proc,       \* the receiver process
    starts,     \* how often it was started
    closing,    \* Receiver._closing
    stage,      \* the reply the receiver waits for; "consume": it consumes
    inbox,      \* deliveries on their way to _on_message
    acks,       \* acknowledgements on their way to the broker
    handling,   \* the message on_message is working on
    runs        \* (history) completed plays of a message

brokerVars == <<published, queue, unacked, acked, wiped, requeued>>
procVars   == <<proc, starts, closing, stage, handling>>
vars == <<brokerVars, link, procVars, inbox, acks, runs>>

Setup == <<"connect", "channel", "exchange", "queue", "bind", "consume">>
HasChannel == stage \in {"exchange", "queue", "bind", "consume", "cancel", "chclose"}

Elements(q) == {q[i] : i \in 1 .. Len(q)}
Dropped(q, i) == [j \in 1 .. Len(q) - 1 |-> IF j < i THEN q[j] ELSE q[j + 1]]

TypeOK ==
    /\ published \in Seq(Messages) /\ queue \in Seq(Messages)
    /\ unacked \in Seq(Messages) /\ Len(unacked) <= Prefetch
    /\ inbox \in Seq(Messages)
    /\ acked \in SUBSET Messages /\ wiped \in SUBSET Messages
    /\ acks \in SUBSET Messages
    /\ requeued \in [Messages -> Nat]
    /\ link \in {"none", "up", "down"}
    /\ proc \in {"running", "dead", "exited"}
    /\ starts \in 1 .. MaxStarts
    /\ closing \in BOOLEAN
    /\ stage \in {"connect", "channel", "exchange", "queue", "bind", "consume",
                  "cancel", "chclose", "close"}
    /\ handling \in Messages \cup {NoMessage}
    /\ runs \in [Messages -> Nat]

Init ==
    /\ published = <<>> /\ queue = <<>> /\ unacked = <<>>
    /\ acked = {} /\ wiped = {} /\ requeued = [m \in Messages |-> 0]
    /\ link = "none" /\ inbox = <<>> /\ acks = {}
    /\ proc = "running" /\ starts = 1 /\ closing = FALSE /\ stage = "connect"
    /\ handling = NoMessage /\ runs = [m \in Messages |-> 0]

-----------------------------------------------------------------------------
(* The broker (external).                                                  *)

Publish(m) ==
    /\ m \notin Elements(published)
    /\ published' = Append(published, m)
    /\ queue' = Append(queue, m)
    /\ UNCHANGED <<unacked, acked, wiped, requeued, link, procVars, inbox, acks, runs>>

NoQos == TRUE

WindowOpen == Len(unacked) < Prefetch

Deliver ==
    /\ link = "up" /\ stage = "consume"
    /\ queue # <<>> /\ WindowOpen
    /\ queue' = Tail(queue)
    /\ unacked' = Append(unacked, Head(queue))
    /\ inbox' = Append(inbox, Head(queue))
    /\ UNCHANGED <<published, acked, wiped, requeued, link, procVars, acks, runs>>

ReceiveAck(m) ==
    /\ link = "up" /\ m \in acks
    /\ acks' = acks \ {m} /\ acked' = acked \cup {m}
    /\ \E i \in 1 .. Len(unacked) : unacked[i] = m /\ unacked' = Dropped(unacked, i)
    /\ UNCHANGED <<published, queue, wiped, requeued, link, procVars, inbox, runs>>

\* The broker is rid of the channel: what was not acknowledged is ready again,
\* at its old place, and no acknowledgement under way counts any more.
Requeue ==
    /\ queue' = unacked \o queue
    /\ unacked' = <<>> /\ acks' = {}
    /\ requeued' = [m \in Messages |->
                      requeued[m] + IF m \in Elements(unacked) THEN 1 ELSE 0]
    /\ UNCHANGED <<published, acked, wiped>>

\* The network or the broker breaks the connection. The receiver finds out when
\* its loop gets to it, after deliveries that had arrived before. (assumed) The broker has
\* found out when the receiver is back: after a crash of the receiver's host that can
\* take two heartbeats of an hour, and until then its jobs are held back.
LoseConnection ==
    /\ link = "up" /\ link' = "down"
    /\ Requeue
    /\ \E k \in 0 .. Len(inbox) : inbox' = SubSeq(inbox, 1, k)
    /\ UNCHANGED <<procVars, runs>>

RestartBroker ==
    /\ wiped' = wiped \cup Elements(queue) \cup Elements(unacked)
    /\ queue' = <<>> /\ unacked' = <<>> /\ acks' = {}
    /\ link' = IF link = "up" THEN "down" ELSE link
    /\ UNCHANGED <<published, acked, requeued, procVars, inbox, runs>>

-----------------------------------------------------------------------------
(* Callbacks of the ioloop: none runs while a play does.                   *)

LoopIdle == proc = "running" /\ handling = NoMessage

\* _connect() succeeds, _on_connection_open(), _on_channel_open(),
\* _on_exchange_declare(), _on_queue_declare(), _on_bind() in this order.
SetUp(i) ==
    /\ LoopIdle /\ stage = Setup[i] /\ stage' = Setup[i + 1]
    /\ IF i = 1 THEN link = "none" /\ link' = "up" ELSE link = "up" /\ UNCHANGED link
    /\ UNCHANGED <<brokerVars, proc, starts, closing, handling, inbox, acks, runs>>

\* No on_open_error_callback: the exception leaves the loop and the program.
ConnectFails ==
    /\ LoopIdle /\ stage = "connect"
    /\ proc' = "dead"
    /\ UNCHANGED <<brokerVars, link, starts, closing, stage, handling, inbox, acks, runs>>

\* _on_message(): on_message() parses the job and starts the play.
StartPlay ==
    /\ LoopIdle /\ stage = "consume" /\ inbox # <<>>
    /\ handling' = Head(inbox) /\ inbox' = Tail(inbox)
    /\ UNCHANGED <<brokerVars, link, proc, starts, closing, stage, acks, runs>>

PlayedTwice(m) == [runs EXCEPT ![m] = @ + 2]

\* Every observer bound with bind_to() handles the message; main() binds one.
Played(m) == [runs EXCEPT ![m] = @ + 1]

AckAll(m) == acks \cup Elements(unacked)

NoAck(m) == acks

Ack(m) == IF link = "up" THEN acks \cup {m} ELSE acks

\* The play ended, well or not: basic_ack(), which is lost on a broken link.
EndPlay ==
    /\ proc = "running" /\ handling # NoMessage
    /\ runs' = Played(handling)
    /\ acks' = Ack(handling)
    /\ handling' = NoMessage
    /\ UNCHANGED <<brokerVars, link, proc, starts, closing, stage, inbox>>

\* An acknowledgement in a finally clause.
RaisesAndAcks ==
    /\ proc = "running" /\ handling # NoMessage
    /\ proc' = "dead" /\ handling' = NoMessage /\ acks' = Ack(handling)
    /\ UNCHANGED <<brokerVars, link, starts, closing, stage, inbox, runs>>

\* json.loads() or Ansible raises: the exception ends the program.
PlayRaises ==
    /\ proc = "running" /\ handling # NoMessage
    /\ proc' = "dead" /\ handling' = NoMessage
    /\ UNCHANGED <<brokerVars, link, starts, closing, stage, inbox, acks, runs>>

LoopGoesOn == IF closing THEN "running" ELSE "dead"

AfterClose == IF closing THEN "exited" ELSE "dead"

\* _on_connection_closed(): without _closing its warning raises NameError, so
\* _reconnect() is never scheduled and the program ends.
OnConnectionClosed ==
    /\ LoopIdle
    /\ link = "down" \/ (link = "up" /\ stage = "close")
    /\ link' = "none" /\ inbox' = <<>>
    /\ proc' = AfterClose
    /\ UNCHANGED <<brokerVars, starts, closing, stage, handling, acks, runs>>

\* The broker closes the channel or cancels the consumer: either way
\* _on_channel_closed() closes the connection.
ChannelClosed ==
    /\ LoopIdle /\ link = "up" /\ HasChannel
    /\ stage' = "close" /\ inbox' = <<>>
    /\ Requeue
    /\ UNCHANGED <<link, proc, starts, closing, handling, runs>>

\* KeyboardInterrupt, also in the middle of a play: main() calls stop(), which
\* cancels the consumer if there is one and runs the loop again. While _connect()
\* has not returned, stop() raises: there is no _connection.
Stop ==
    /\ proc = "running" /\ ~closing
    /\ closing' = TRUE /\ handling' = NoMessage
    /\ IF stage = "consume"
         THEN stage' = "cancel" /\ inbox' = <<>>
         ELSE UNCHANGED <<stage, inbox>>
    /\ proc' \in {"running"} \cup (IF stage = "connect" THEN {"dead"} ELSE {})
    /\ UNCHANGED <<brokerVars, starts, link, acks, runs>>

\* _on_cancel(): the channel is closed next, then the connection.
CancelOk ==
    /\ LoopIdle /\ link = "up" /\ stage = "cancel"
    /\ stage' = "chclose"
    /\ UNCHANGED <<brokerVars, link, proc, starts, closing, handling, inbox, acks, runs>>

\* The socket of a process that died is closed by the system, and somebody
\* starts the program again.
SocketCloses ==
    /\ proc # "running" /\ link # "none"
    /\ link' = "none" /\ inbox' = <<>>
    /\ Requeue
    /\ UNCHANGED <<procVars, runs>>

Restart ==
    /\ proc # "running" /\ link = "none" /\ starts < MaxStarts
    /\ starts' = starts + 1
    /\ proc' = "running" /\ closing' = FALSE /\ stage' = "connect"
    /\ UNCHANGED <<brokerVars, link, handling, inbox, acks, runs>>

-----------------------------------------------------------------------------
\* The channel closed as the receiver asked.
ChannelCloseOk == stage = "chclose" /\ ChannelClosed

Broker == Deliver \/ (\E m \in Messages : ReceiveAck(m))

Receive == (\E i \in 1 .. Len(Setup) - 1 : SetUp(i)) \/ StartPlay \/ EndPlay \/ PlayRaises
           \/ OnConnectionClosed \/ CancelOk \/ ChannelCloseOk

Fault == LoseConnection \/ RestartBroker \/ ConnectFails \/ ChannelClosed

Next == Broker \/ Receive \/ Fault \/ Stop \/ SocketCloses \/ Restart
        \/ \E m \in Messages : Publish(m)

Spec == Init /\ [][Next]_vars

\* The broker serves the connection, its replies reach the ioloop, and every
\* play ends. Nobody has to start the program again, and nothing has to fail.
Fairness ==
    /\ WF_vars(Deliver) /\ \A m \in Messages : WF_vars(ReceiveAck(m))
    /\ WF_vars(Receive)
    /\ WF_vars(OnConnectionClosed)

FairSpec == Spec /\ Fairness

-----------------------------------------------------------------------------
(* Properties.                                                             *)

\* What the broker has, in the order in which it will deliver it.
Backlog == unacked \o queue

\* No job is lost: the broker still has it or got an acknowledgement for it,
\* unless it was restarted with the job in memory. It has no job twice or after
\* its acknowledgement, and only jobs whose play ended are acknowledged, whatever
\* was prefetched behind them.
NoJobLost ==
    /\ \A i, j \in 1 .. Len(Backlog) : Backlog[i] = Backlog[j] => i = j
    /\ Elements(published) = Elements(Backlog) \cup acked \cup wiped
    /\ Elements(Backlog) \cap (acked \cup wiped) = {} /\ acked \cap wiped = {}
    /\ \A m \in acked \cup acks : runs[m] > 0

\* A play is repeated for one reason only: the job went back to the queue.
RepeatsAreRedeliveries ==
    \A m \in Messages : runs[m] <= 1 + requeued[m]

\* Plays run for the first time in the order of publication, through lost
\* connections and restarts of the program: redelivery never lets a later job
\* overtake an earlier one that has not run. (If the broker finds out about a broken
\* connection before the receiver consumes again, see LoseConnection.)
FirstRunsInOrder ==
    \A i, j \in 1 .. Len(published) :
        i < j /\ runs[published[j]] > 0
          => runs[published[i]] > 0 \/ published[i] \in wiped

\* A receiver that goes on running and is not told to stop gets to every job of
\* the queue, however small the prefetch window is.
JobsRun ==
    \A m \in Messages :
        m \in Elements(queue) ~>
            runs[m] > 0 \/ m \in wiped \/ proc # "running" \/ closing

\* stop() ends a receiver that was consuming, whatever the broker does.
StopEnds == stage = "cancel" ~> proc # "running"

\* "Connection closed, reopening in 5 seconds": the receiver survives the end of
\* its connection.
ReopensAfterClose ==
    [][proc = "running" /\ ~closing /\ link # "none" /\ link' = "none"
         => proc' = "running"]_vars
=============================================================================
