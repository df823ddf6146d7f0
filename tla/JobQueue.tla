------------------------------ MODULE JobQueue ------------------------------
(***************************************************************************)
(* vm_booting as a whole: "main.py send" and "main.py receive" at the same *)
(* broker. A job is a delivery tag of one of the publisher's connections;  *)
(* it travels to the broker before the receiver's queue has it.            *)
(***************************************************************************)
EXTENDS Naturals, Sequences, FiniteSets

CONSTANTS MaxNumber, MaxConnections,   \* bounds of the publisher
          Prefetch, MaxStarts, NoMessage   \* of the receiver

Jobs == (1 .. MaxConnections) \X (1 .. MaxNumber)

ASSUME PublisherAssumption == MaxNumber \in Nat /\ MaxConnections \in Nat \ {0}
ASSUME ReceiverAssumption ==
    Prefetch \in Nat \ {0} /\ MaxStarts \in Nat \ {0} /\ NoMessage \notin Jobs

VARIABLES
    \* the publisher
    plink, connections, pproc, stopping, pstage, timers,
    number, deliveries, packed, nacked, outstanding, confirms, settled,
    \* the receiver and the queue
    published, queue, unacked, acked, wiped, requeued, link, proc, starts, closing,
    stage, inbox, acks, handling, runs,
    \* between the two
    transit,   \* jobs on their way to the broker
    issued,    \* (history) jobs the publisher published
    told,      \* (history) jobs it counted in _acked
    refused    \* (history) jobs the broker did not accept

P == INSTANCE Publisher WITH link <- plink, proc <- pproc, stage <- pstage, acked <- packed

R == INSTANCE Receiver WITH Messages <- Jobs

publisherVars == <<plink, connections, pproc, stopping, pstage, timers,
                   number, deliveries, packed, nacked, outstanding, confirms, settled>>
receiverVars == <<published, queue, unacked, acked, wiped, requeued, link, proc, starts,
                  closing, stage, inbox, acks, handling, runs>>
vars == <<publisherVars, receiverVars, transit, issued, told, refused>>

Init == P!Init /\ R!Init /\ transit = <<>> /\ issued = {} /\ told = {} /\ refused = {}

-----------------------------------------------------------------------------
(* The way to the broker (external).                                       *)

InTransit == {transit[i] : i \in 1 .. Len(transit)}

\* A connection keeps the order of its jobs; two of them do not.
First(j) == j \in InTransit /\ \A k \in InTransit : k[1] = j[1] => k[2] >= j[2]

Leaves(j) == \E i \in 1 .. Len(transit) : transit[i] = j /\ transit' = R!Dropped(transit, i)

Arrive(j) ==
    /\ First(j) /\ R!Publish(j) /\ Leaves(j)
    /\ UNCHANGED <<publisherVars, issued, told, refused>>

Confirm(t, multiple) ==
    /\ P!Confirm(t, multiple)
    /\ \A k \in InTransit : k[1] = connections => k[2] > t
    /\ UNCHANGED <<receiverVars, transit, issued, told, refused>>

\* The broker does not take the job, and says so.
Refuse(t) ==
    /\ First(<<connections, t>>) /\ P!Confirm(t, FALSE)
    /\ confirms'[Len(confirms')].type = "nack"
    /\ Leaves(<<connections, t>>)
    /\ refused' = refused \cup {<<connections, t>>}
    /\ UNCHANGED <<receiverVars, issued, told>>

\* What is left of the jobs in transit when a connection breaks.
KeepsSome == \E k \in 0 .. Len(transit) : transit' = SubSeq(transit, 1, k)

PublisherLosesConnection ==
    /\ P!LoseConnection /\ KeepsSome
    /\ UNCHANGED <<receiverVars, issued, told, refused>>

\* A restart of the broker breaks both connections and loses what was on its way.
RestartBroker ==
    /\ R!RestartBroker /\ transit' = <<>>
    /\ IF plink = "up" THEN P!LoseConnection ELSE UNCHANGED publisherVars
    /\ UNCHANGED <<issued, told, refused>>

-----------------------------------------------------------------------------
(* The publisher.                                                          *)

PublishMessage ==
    /\ P!PublishMessage
    /\ LET new == {<<connections, t>> : t \in number + 1 .. number'} IN
         /\ issued' = issued \cup new
         /\ transit' = IF plink = "up" /\ new # {}
                         THEN Append(transit, <<connections, number'>>) ELSE transit
    /\ UNCHANGED <<receiverVars, told, refused>>

TakenForAck(frame) == TRUE

IsAck(frame) == frame.type = "ack"

OnDeliveryConfirmation ==
    /\ P!OnDeliveryConfirmation
    /\ told' = IF IsAck(Head(confirms)) THEN told \cup {<<connections, Head(confirms).tag>>}
                                        ELSE told
    /\ UNCHANGED <<receiverVars, transit, issued, refused>>

OnChannelClosed ==
    /\ P!OnChannelClosed /\ KeepsSome
    /\ UNCHANGED <<receiverVars, issued, told, refused>>

Publisher ==
    \/ PublishMessage \/ OnDeliveryConfirmation \/ OnChannelClosed
    \/ (P!Callback \/ P!Stop) /\ UNCHANGED <<receiverVars, transit, issued, told, refused>>

-----------------------------------------------------------------------------
(* The receiver.                                                           *)

Receiver ==
    /\ \/ R!Broker \/ R!Receive \/ R!LoseConnection \/ R!ConnectFails \/ R!ChannelClosed
       \/ R!Stop \/ R!SocketCloses \/ R!Restart
    /\ UNCHANGED <<publisherVars, transit, issued, told, refused>>

Next ==
    \/ Publisher \/ Receiver \/ PublisherLosesConnection \/ RestartBroker
    \/ \E j \in Jobs : Arrive(j)
    \/ \E t \in 1 .. MaxNumber : Refuse(t) \/ \E m \in BOOLEAN : Confirm(t, m)

Spec == Init /\ [][Next]_vars

-----------------------------------------------------------------------------
(* Properties.                                                             *)

Waiting == R!Elements(queue) \cup R!Elements(unacked)
Arrived == Waiting \cup acked \cup wiped

Place(j) ==
    CASE j \in acked -> "done"
      [] j \in wiped -> "wiped"
      [] j \in Waiting -> "waiting"
      [] j \in InTransit \ Arrived -> "sent"
      [] j \in issued \ (InTransit \cup Arrived) -> "lost"
      [] OTHER -> "new"

\* The two programs and the broker together keep the promise of AtLeastOnce, through
\* broken connections, restarts and refusals.
A == INSTANCE AtLeastOnce WITH place <- [j \in Jobs |-> Place(j)],
                               ran <- {j \in Jobs : runs[j] > 0}

ImplementsAtLeastOnce == A!Spec

\* What the publisher counts in _acked is not what it hopes for: each of these jobs ran,
\* is still with the broker, or was there when the broker was restarted. The others of
\* a lost connection are not published again, whether they arrived or not.
ToldIsKept ==
    \A j \in told : Place(j) \in {"done", "waiting", "wiped"} /\ (j \in acked => runs[j] > 0)

\* From end to end jobs of one connection run for the first time in the order in which they were
\* published, but for those the broker refused or forgot: a connection that breaks loses
\* the last jobs, never one before a job that runs. (If the broker finds out about a broken
\* connection before the receiver consumes again, see Receiver!LoseConnection.)
RunsFollowPublication ==
    \A j, k \in Jobs :
        j[1] = k[1] /\ j[2] < k[2] /\ runs[k] > 0 => runs[j] > 0 \/ j \in refused \cup wiped
=============================================================================
