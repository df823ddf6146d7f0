--------------------------- MODULE JobQueueProofs ---------------------------
(* What the publisher counts as acknowledged is not lost, for any number of *)
(* jobs and connections, any prefetch window and any number of restarts:    *)
(* the invariants of the two programs, joined by what is between them.      *)
EXTENDS JobQueue, SequenceTheorems, TLAPS

PP == INSTANCE PublisherProofs
        WITH link <- plink, proc <- pproc, stage <- pstage, acked <- packed
RP == INSTANCE ReceiverProofs WITH Messages <- Jobs

Published == R!Elements(published)

\* What the broker has not answered reached it or is on its way, and a positive answer is
\* for a job that reached it, from the moment it is sent to the time it is counted.
Linked ==
    /\ transit \in Seq(Nat \X Nat)
    /\ \A t \in outstanding : <<connections, t>> \in InTransit \cup Published
    /\ \A i \in 1 .. Len(confirms) :
          confirms[i].type = "ack" => <<connections, confirms[i].tag>> \in Published
    /\ told \subseteq Published

IInv == PP!IInv /\ RP!IInv /\ Linked

Earlier(j, k) == j[1] = k[1] /\ j[2] < k[2]

Lined(s) == \A a, b \in 1 .. Len(s) : a < b /\ s[a][1] = s[b][1] => s[a][2] < s[b][2]

\* The jobs of a connection travel in order and without a gap but for those refused, and are in the
\* queue in the order in which they were published.
ArrivedInOrder ==
    \A j, k \in Jobs :
        Earlier(j, k) /\ k \in Published => j \in refused \/ RP!Precedes(published, j, k)

SentInOrder ==
    \A j \in Jobs, k \in InTransit : Earlier(j, k) => j \in refused \cup Published \cup InTransit

AllSent ==
    plink = "up" /\ pstage = "publish" =>
        \A t \in 1 .. number : <<connections, t>> \in refused \cup Published \cup InTransit

\* A job was published on this connection, with a tag in use, or on one before.
Numbered ==
    /\ InTransit \cup Published \subseteq issued /\ issued \subseteq Nat \X Nat
    /\ \A k \in issued :
          k[1] < connections \/ (k[1] = connections /\ (pstage = "connect" \/ k[2] <= number))

Sequential == ArrivedInOrder /\ SentInOrder /\ Lined(transit) /\ AllSent /\ Numbered

-----------------------------------------------------------------------------
(* A step of the whole is a step of each of the programs, or leaves it alone. *)

LEMMA PublisherStep == Next => [PP!Next]_PP!vars
<1> USE DEF P!connVars, PP!connVars, P!countVars, PP!countVars, P!brokerVars, PP!brokerVars
<1>1. P!PublishMessage => PP!PublishMessage
  BY DEF P!PublishMessage, PP!PublishMessage, P!Running, PP!Running, P!HasChannel, PP!HasChannel
<1>2. P!OnDeliveryConfirmation => PP!OnDeliveryConfirmation
  BY DEF P!OnDeliveryConfirmation, PP!OnDeliveryConfirmation, P!Running, PP!Running
<1>3. P!OnChannelClosed => PP!OnChannelClosed
  BY DEF P!OnChannelClosed, PP!OnChannelClosed, P!Running, PP!Running,
         P!HasChannel, PP!HasChannel, P!MayBreak, PP!MayBreak
<1>4. P!Stop => PP!Stop
  BY DEF P!Stop, PP!Stop, P!Running, PP!Running
<1>5. P!LoseConnection => PP!LoseConnection
  BY DEF P!LoseConnection, PP!LoseConnection, P!MayBreak, PP!MayBreak
<1>6. \A t \in 1 .. MaxNumber, m \in BOOLEAN : P!Confirm(t, m) => PP!Confirm(t, m)
  BY DEF P!Confirm, PP!Confirm
<1>7. P!Callback => PP!Callback
  <2>1. P!Connect => PP!Connect
    BY DEF P!Connect, PP!Connect, P!Waits, PP!Waits, P!Running, PP!Running
  <2>2. P!ConnectFails => PP!ConnectFails
    BY DEF P!ConnectFails, PP!ConnectFails, P!Running, PP!Running
  <2>3. P!Setup = PP!Setup /\ \A i : P!SetUp(i) => PP!SetUp(i)
    BY DEF P!Setup, PP!Setup, P!SetUp, PP!SetUp, P!Waits, PP!Waits, P!Running, PP!Running
  <2>4. P!OnConnectionClosed => PP!OnConnectionClosed
    BY DEF P!OnConnectionClosed, PP!OnConnectionClosed, P!AfterClose, PP!AfterClose,
           P!Running, PP!Running
  <2>5. P!Reopen => PP!Reopen
    BY DEF P!Reopen, PP!Reopen, P!ReopenStage, PP!ReopenStage, P!NewLoop, PP!NewLoop,
           P!ResetCounters, PP!ResetCounters, P!Running, PP!Running
  <2> QED  BY <2>1, <2>2, <2>3, <2>4, <2>5 DEF P!Callback, PP!Callback
<1>8. UNCHANGED publisherVars => UNCHANGED PP!vars
  BY DEF publisherVars, PP!vars
<1>9. PP!Tags = 1 .. MaxNumber
  BY DEF PP!Tags
<1> QED
  BY <1>1, <1>2, <1>3, <1>4, <1>5, <1>6, <1>7, <1>8, <1>9
     DEF Next, Publisher, Receiver, PublisherLosesConnection, RestartBroker, Arrive, Refuse,
         Confirm, PublishMessage, OnDeliveryConfirmation, OnChannelClosed, PP!Next

LEMMA ReceiverStep == Next => [RP!Next]_RP!vars
<1> USE DEF R!brokerVars, RP!brokerVars, R!procVars, RP!procVars, R!LoopIdle, RP!LoopIdle,
            R!Elements, RP!Elements, R!Requeue, RP!Requeue
<1>1. \A j \in Jobs : R!Publish(j) => RP!Publish(j)
  BY DEF R!Publish, RP!Publish
<1>2. R!Broker => RP!Broker
  <2>1. R!Deliver => RP!Deliver
    BY DEF R!Deliver, RP!Deliver, R!WindowOpen, RP!WindowOpen
  <2>2. \A j \in Jobs : R!ReceiveAck(j) => RP!ReceiveAck(j)
    BY DEF R!ReceiveAck, RP!ReceiveAck, R!Dropped, RP!Dropped
  <2> QED  BY <2>1, <2>2 DEF R!Broker, RP!Broker
<1>3. R!Receive => RP!Receive
  <2>1. R!Setup = RP!Setup /\ \A i : R!SetUp(i) => RP!SetUp(i)
    BY DEF R!Setup, RP!Setup, R!SetUp, RP!SetUp
  <2>2. R!StartPlay => RP!StartPlay  BY DEF R!StartPlay, RP!StartPlay
  <2>3. R!EndPlay => RP!EndPlay
    BY DEF R!EndPlay, RP!EndPlay, R!Played, RP!Played, R!Ack, RP!Ack
  <2>4. R!PlayRaises => RP!PlayRaises  BY DEF R!PlayRaises, RP!PlayRaises
  <2>5. R!OnConnectionClosed => RP!OnConnectionClosed
    BY DEF R!OnConnectionClosed, RP!OnConnectionClosed, R!AfterClose, RP!AfterClose
  <2>6. R!CancelOk => RP!CancelOk  BY DEF R!CancelOk, RP!CancelOk
  <2>7. R!ChannelCloseOk => RP!ChannelCloseOk
    BY DEF R!ChannelCloseOk, RP!ChannelCloseOk, R!ChannelClosed, RP!ChannelClosed,
           R!HasChannel, RP!HasChannel
  <2> QED  BY <2>1, <2>2, <2>3, <2>4, <2>5, <2>6, <2>7 DEF R!Receive, RP!Receive
<1>4. /\ R!LoseConnection => RP!LoseConnection
      /\ R!RestartBroker => RP!RestartBroker
      /\ R!ConnectFails => RP!ConnectFails
      /\ R!ChannelClosed => RP!ChannelClosed
  BY DEF R!LoseConnection, RP!LoseConnection, R!RestartBroker, RP!RestartBroker,
         R!ConnectFails, RP!ConnectFails, R!ChannelClosed, RP!ChannelClosed,
         R!HasChannel, RP!HasChannel
<1>5. /\ R!Stop => RP!Stop
      /\ R!SocketCloses => RP!SocketCloses
      /\ R!Restart => RP!Restart
  BY DEF R!Stop, RP!Stop, R!SocketCloses, RP!SocketCloses, R!Restart, RP!Restart
<1>6. UNCHANGED receiverVars => UNCHANGED RP!vars
  BY DEF receiverVars, RP!vars
<1> QED
  BY <1>1, <1>2, <1>3, <1>4, <1>5, <1>6
     DEF Next, Publisher, Receiver, PublisherLosesConnection, RestartBroker, Arrive, Refuse,
         Confirm, PublishMessage, OnDeliveryConfirmation, OnChannelClosed, RP!Next, RP!Fault

-----------------------------------------------------------------------------
(* What is on its way.                                                     *)

\* No job but j is gone when j leaves.
LEMMA Leaving ==
    ASSUME transit \in Seq(Nat \X Nat), NEW j, Leaves(j)
    PROVE  transit' \in Seq(Nat \X Nat) /\ InTransit \subseteq InTransit' \cup {j}
<1> DEFINE S == Nat \X Nat
<1>1. PICK k \in 1 .. Len(transit) : transit[k] = j /\ transit' = R!Dropped(transit, k)
  BY DEF Leaves
<1>2. transit \in Seq(S) /\ Len(transit) \in Nat /\ \A i \in 1 .. Len(transit) : transit[i] \in S
  OBVIOUS
<1> HIDE DEF S
<1>3. transit' = [i \in 1 .. Len(transit) - 1 |->
                    IF i < k THEN transit[i] ELSE transit[i + 1]]
  BY <1>1 DEF R!Dropped
<1>4. Len(transit) - 1 \in Nat
  BY <1>1, <1>2
<1>5. transit' \in [1 .. Len(transit) - 1 -> S]
  <2> DEFINE entry(i) == IF i < k THEN transit[i] ELSE transit[i + 1]
  <2>1. ASSUME NEW i \in 1 .. Len(transit) - 1 PROVE entry(i) \in S
    <3>1. i \in 1 .. Len(transit) /\ i + 1 \in 1 .. Len(transit)  BY <1>2, <2>1
    <3> QED  BY <1>2, <3>1
  <2>2. transit' = [i \in 1 .. Len(transit) - 1 |-> entry(i)]  BY <1>3
  <2> HIDE DEF entry
  <2> QED  BY <2>1, <2>2
<1>6. transit' \in Seq(S) /\ Len(transit') = Len(transit) - 1
  <2>1. ASSUME NEW n \in Nat, NEW f \in [1 .. n -> S] PROVE f \in Seq(S) /\ Len(f) = n
    <3>1. f \in Seq(S)  BY SeqDef
    <3> QED  BY <3>1, LenProperties
  <2> QED  BY <1>4, <1>5, <2>1
<1>7. ASSUME NEW i \in 1 .. Len(transit), transit[i] # j PROVE transit[i] \in InTransit'
  <2>1. CASE i < k
    <3>1. i \in 1 .. Len(transit) - 1 /\ transit'[i] = transit[i]  BY <1>1, <1>2, <1>3, <2>1
    <3> QED  BY <1>6, <3>1 DEF InTransit
  <2>2. CASE ~(i < k)
    <3>1. i # k  BY <1>1, <1>7
    <3>2. /\ i - 1 \in 1 .. Len(transit) - 1 /\ ~(i - 1 < k) /\ (i - 1) + 1 = i
      BY <1>1, <1>2, <2>2, <3>1
    <3>3. transit'[i - 1] = transit[i]  BY <1>3, <3>2
    <3> QED  BY <1>6, <3>2, <3>3 DEF InTransit
  <2> QED  BY <2>1, <2>2
<1> QED
  BY <1>6, <1>7 DEF InTransit, S

LEMMA Keeping ==
    ASSUME transit \in Seq(Nat \X Nat), KeepsSome PROVE transit' \in Seq(Nat \X Nat)
  BY DEF KeepsSome

\* The queue forgets nothing that was published.
LEMMA PublishedGrows ==
    ASSUME RP!IInv, Next
    PROVE  /\ Published \subseteq Published'
           /\ \A j \in Jobs : Arrive(j) => j \in Published'
<1>1. published \in Seq(Jobs)
  BY DEF RP!IInv, RP!TypeOK
<1>2. ASSUME NEW j \in Jobs, R!Publish(j) PROVE Published' = Published \cup {j}
  <2>1. published' = Append(published, j)
    BY <1>2 DEF R!Publish
  <2>2. RP!Elements(Append(published, j)) = RP!Elements(published) \cup {j}
    BY <1>1, RP!AppendElements, ReceiverAssumption
       DEF RP!PrefetchAssumption, RP!StartAssumption, RP!MessageAssumption
  <2> QED
    BY <2>1, <2>2 DEF Published, R!Elements, RP!Elements
<1>3. (\E j \in Jobs : R!Publish(j)) \/ published' = published
  BY DEF Next, Publisher, Receiver, PublisherLosesConnection, RestartBroker, Arrive, Refuse, Confirm,
         PublishMessage, OnDeliveryConfirmation, OnChannelClosed, receiverVars,
         R!Broker, R!Deliver, R!ReceiveAck, R!Receive, R!SetUp, R!StartPlay, R!EndPlay,
         R!PlayRaises, R!OnConnectionClosed, R!CancelOk, R!ChannelCloseOk, R!ChannelClosed,
         R!LoseConnection, R!RestartBroker, R!ConnectFails, R!Stop, R!SocketCloses, R!Restart,
         R!Requeue, R!brokerVars
<1>4. Published \subseteq Published'
  BY <1>2, <1>3 DEF Published
<1> QED
  BY <1>2, <1>4 DEF Arrive

-----------------------------------------------------------------------------
(* The links.                                                              *)

\* A connection that ends leaves nothing to be answered, and the answers that were under way.
LEMMA LinkCut ==
    ASSUME IInv, Published \subseteq Published', transit' \in Seq(Nat \X Nat),
           UNCHANGED <<connections, told>>, outstanding' = {},
           \/ confirms' = <<>>
           \/ \E k \in 0 .. Len(confirms) : confirms' = SubSeq(confirms, 1, k)
    PROVE  Linked'
<1>1. \A i \in 1 .. Len(confirms') : i \in 1 .. Len(confirms) /\ confirms'[i] = confirms[i]
  <2>1. CASE confirms' = <<>>  BY <2>1
  <2>2. ASSUME NEW k \in 0 .. Len(confirms), confirms' = SubSeq(confirms, 1, k)
        PROVE  \A i \in 1 .. Len(confirms') : i \in 1 .. Len(confirms) /\ confirms'[i] = confirms[i]
    <3>1. confirms \in Seq(PP!Frames)  BY DEF IInv, PP!IInv, PP!TypeOK
    <3>2. Len(confirms') = k /\ \A i \in 1 .. k : confirms'[i] = confirms[i]
      BY <2>2, <3>1
    <3>3. k \in Nat /\ Len(confirms) \in Nat /\ k <= Len(confirms)  BY <2>2, <3>1
    <3> QED  BY <3>2, <3>3
  <2> QED  BY <2>1, <2>2
<1> QED
  BY <1>1 DEF IInv, Linked, InTransit

\* Nothing changes that the links are about, but that more is published.
LEMMA LinkKept ==
    ASSUME IInv, Published \subseteq Published',
           UNCHANGED <<connections, told, transit, outstanding, confirms>>
    PROVE  Linked'
  BY DEF IInv, Linked, InTransit

LEMMA PublishMessageLinked ==
    ASSUME IInv, PublishMessage PROVE Linked'
<1>1. /\ UNCHANGED <<connections, confirms, told, published>>
      /\ number \in Nat /\ connections \in Nat /\ transit \in Seq(Nat \X Nat)
  BY DEF PublishMessage, P!PublishMessage, P!connVars, receiverVars, IInv, Linked,
         PP!IInv, PP!TypeOK
<1>2. Published' = Published
  BY <1>1 DEF Published
<1>3. CASE outstanding' = outstanding /\ transit' = transit
  BY <1>1, <1>2, <1>3, LinkKept
<1>4. CASE /\ number' = number + 1 /\ outstanding' \subseteq outstanding \cup {number'}
           /\ transit' = Append(transit, <<connections, number'>>)
  <2>1. /\ transit' \in Seq(Nat \X Nat) /\ Len(transit') = Len(transit) + 1
        /\ transit'[Len(transit) + 1] = <<connections, number'>> /\ Len(transit) \in Nat
        /\ \A i \in 1 .. Len(transit) : transit'[i] = transit[i]
    BY <1>1, <1>4
  <2>2. InTransit \cup {<<connections, number'>>} \subseteq InTransit'
    <3>1. \A i \in 1 .. Len(transit) : i \in 1 .. Len(transit')  BY <2>1
    <3>2. Len(transit) + 1 \in 1 .. Len(transit')  BY <2>1
    <3> QED  BY <2>1, <3>1, <3>2 DEF InTransit
  <2> QED
    BY <1>1, <1>2, <1>4, <2>1, <2>2 DEF IInv, Linked
<1>5. CASE number' = number + 1
  <2> DEFINE new == {<<connections, t>> : t \in number + 1 .. number'}
  <2>1. new # {}
    <3>1. number' \in number + 1 .. number'  BY <1>1, <1>5
    <3> QED  BY <3>1
  <2>2. transit' = IF plink = "up" /\ new # {} THEN Append(transit, <<connections, number'>>)
                                             ELSE transit
    BY DEF PublishMessage
  <2> HIDE DEF new
  <2>3. outstanding' = (IF plink = "up" THEN outstanding \cup {number + 1} ELSE outstanding)
    BY <1>1, <1>5 DEF PublishMessage, P!PublishMessage
  <2> QED  BY <1>3, <1>4, <1>5, <2>1, <2>2, <2>3
<1>6. CASE number' = number
  <2> DEFINE new == {<<connections, t>> : t \in number + 1 .. number'}
  <2>1. new = {}  BY <1>1, <1>6
  <2>2. transit' = IF plink = "up" /\ new # {} THEN Append(transit, <<connections, number'>>)
                                             ELSE transit
    BY DEF PublishMessage
  <2> HIDE DEF new
  <2>3. outstanding' = outstanding
    BY <1>1, <1>6 DEF PublishMessage, P!PublishMessage
  <2> QED  BY <1>3, <2>1, <2>2, <2>3
<1> QED
  BY <1>5, <1>6 DEF PublishMessage, P!PublishMessage

LEMMA ConfirmationLinked ==
    ASSUME IInv, OnDeliveryConfirmation PROVE Linked'
<1>1. /\ UNCHANGED <<connections, outstanding, transit, published>>
      /\ confirms # <<>> /\ confirms' = Tail(confirms) /\ confirms \in Seq(PP!Frames)
  BY DEF OnDeliveryConfirmation, P!OnDeliveryConfirmation, P!connVars, receiverVars, IInv,
         PP!IInv, PP!TypeOK
<1>2. /\ Len(confirms) \in Nat \ {0} /\ Len(confirms') = Len(confirms) - 1
      /\ Head(confirms) = confirms[1]
      /\ \A i \in 1 .. Len(confirms') : confirms'[i] = confirms[i + 1]
  BY <1>1
<1>3. \A i \in 1 .. Len(confirms') : i + 1 \in 1 .. Len(confirms)
  BY <1>2
<1>4. told' \subseteq Published
  <2>1. CASE confirms[1].type = "ack"
    <3>1. told' = told \cup {<<connections, confirms[1].tag>>}
      BY <1>2, <2>1 DEF OnDeliveryConfirmation, IsAck
    <3>2. 1 \in 1 .. Len(confirms)  BY <1>2
    <3> QED  BY <2>1, <3>1, <3>2 DEF IInv, Linked
  <2>2. CASE confirms[1].type # "ack"
    <3>1. told' = told  BY <1>2, <2>2 DEF OnDeliveryConfirmation, IsAck
    <3> QED  BY <3>1 DEF IInv, Linked
  <2> QED  BY <2>1, <2>2
<1>5. Published' = Published /\ InTransit' = InTransit
  BY <1>1 DEF Published, InTransit
<1>6. \A i \in 1 .. Len(confirms') :
          confirms'[i].type = "ack" => <<connections, confirms'[i].tag>> \in Published
  BY <1>2, <1>3 DEF IInv, Linked
<1> QED
  BY <1>1, <1>4, <1>5, <1>6 DEF IInv, Linked

\* The broker answers for what reached it, or refuses what is on its way.
LEMMA AnswerLinked ==
    ASSUME IInv, NEW t \in 1 .. MaxNumber, NEW m \in BOOLEAN, P!Confirm(t, m),
           UNCHANGED <<receiverVars, told>>,
           \/ transit' = transit /\ <<connections, t>> \in Published
           \/ Leaves(<<connections, t>>) /\ confirms'[Len(confirms')].type = "nack"
    PROVE  Linked'
<1>1. PICK type \in {"ack", "nack"} : confirms' = Append(confirms, [type |-> type, tag |-> t])
  BY DEF P!Confirm
<1>2. /\ connections' = connections /\ outstanding' \subseteq outstanding \ {t}
      /\ Published' = Published
  BY DEF P!Confirm, P!connVars, receiverVars, Published
<1>3. /\ transit' \in Seq(Nat \X Nat)
      /\ InTransit \subseteq InTransit' \cup {<<connections, t>>}
  <2>1. transit \in Seq(Nat \X Nat)  BY DEF IInv, Linked
  <2>2. transit' = transit => InTransit' = InTransit  BY DEF InTransit
  <2>3. CASE Leaves(<<connections, t>>)  BY <2>1, <2>3, Leaving
  <2> QED  BY <2>1, <2>2, <2>3
<1>4. \A u \in outstanding' : <<connections, u>> \in InTransit' \cup Published
  <2> TAKE u \in outstanding'
  <2>1. u \in outstanding /\ u # t  BY <1>2
  <2>2. <<connections, u>> # <<connections, t>>  BY <2>1
  <2> QED  BY <1>3, <2>1, <2>2 DEF IInv, Linked
<1>5. \A i \in 1 .. Len(confirms') :
          confirms'[i].type = "ack" => <<connections, confirms'[i].tag>> \in Published
  <2>1. /\ confirms \in Seq(PP!Frames) /\ [type |-> type, tag |-> t] \in PP!Frames
    BY DEF IInv, PP!IInv, PP!TypeOK, PP!Frames, PP!Tags
  <2>2. /\ Len(confirms') = Len(confirms) + 1 /\ Len(confirms) \in Nat
        /\ confirms'[Len(confirms) + 1] = [type |-> type, tag |-> t]
        /\ \A i \in 1 .. Len(confirms) : confirms'[i] = confirms[i]
    BY <1>1, <2>1
  <2> TAKE i \in 1 .. Len(confirms')
  <2>3. CASE i \in 1 .. Len(confirms)
    BY <2>2, <2>3 DEF IInv, Linked
  <2>4. CASE i = Len(confirms) + 1
    <3>1. confirms'[i].type = type /\ confirms'[i].tag = t  BY <2>2, <2>4
    <3>2. <<connections, t>> \in Published \/ type = "nack"  BY <2>2, <2>4, <3>1
    <3> QED  BY <3>1, <3>2
  <2> QED  BY <2>2, <2>3, <2>4
<1> QED
  BY <1>2, <1>3, <1>4, <1>5 DEF IInv, Linked

\* A connection is opened when nothing is left of the one before.
LEMMA CallbackLinked ==
    ASSUME IInv, P!Callback \/ P!Stop, UNCHANGED <<receiverVars, transit, told>>
    PROVE  Linked'
<1>1. Published' = Published
  BY DEF receiverVars, Published
<1>2. transit' \in Seq(Nat \X Nat)
  BY DEF IInv, Linked
<1>3. CASE P!Connect
  <2>1. outstanding = {} /\ confirms = <<>>
    BY <1>3 DEF P!Connect, P!Waits, IInv, PP!IInv, PP!Phases
  <2>2. outstanding' = {} /\ confirms' = <<>>
    BY <1>3, <2>1 DEF P!Connect, P!brokerVars
  <2>3. Len(confirms') = 0  BY <2>2
  <2> QED  BY <1>1, <1>2, <2>2, <2>3 DEF IInv, Linked
<1>4. CASE P!OnConnectionClosed
  <2>1. connections' = connections /\ outstanding' = {} /\ confirms' = <<>> /\ told' = told
    BY <1>4 DEF P!OnConnectionClosed
  <2> QED  BY <1>1, <1>2, <2>1, LinkCut
<1>5. CASE \/ P!ConnectFails \/ P!Reopen \/ P!Stop
           \/ \E i \in 2 .. Len(P!Setup) - 1 : P!SetUp(i)
  <2>1. UNCHANGED <<connections, told, transit, outstanding, confirms>>
    BY <1>5 DEF P!ConnectFails, P!Reopen, P!Stop, P!SetUp, P!brokerVars
  <2> QED  BY <1>1, <2>1, LinkKept
<1> QED
  BY <1>3, <1>4, <1>5 DEF P!Callback

LEMMA LinkedStep == ASSUME IInv, Next PROVE Linked'
<1>1. /\ Published \subseteq Published'
      /\ \A j \in Jobs : Arrive(j) => j \in Published'
  BY PublishedGrows DEF IInv
<1>2. transit \in Seq(Nat \X Nat)
  BY DEF IInv, Linked
<1>3. CASE PublishMessage  BY <1>3, PublishMessageLinked
<1>4. CASE OnDeliveryConfirmation  BY <1>4, ConfirmationLinked
<1>5. CASE OnChannelClosed
  <2>1. /\ KeepsSome /\ UNCHANGED <<connections, told>>
        /\ outstanding' = {} /\ confirms' = <<>>
    BY <1>5 DEF OnChannelClosed, P!OnChannelClosed
  <2> QED  BY <1>1, <1>2, <2>1, Keeping, LinkCut
<1>6. CASE (P!Callback \/ P!Stop) /\ UNCHANGED <<receiverVars, transit, issued, told, refused>>
  BY <1>6, CallbackLinked
<1>7. CASE Receiver
  BY <1>1, <1>7, LinkKept DEF Receiver, publisherVars
<1>8. CASE PublisherLosesConnection
  <2>1. /\ KeepsSome /\ UNCHANGED <<connections, told>> /\ outstanding' = {}
        /\ \E k \in 0 .. Len(confirms) : confirms' = SubSeq(confirms, 1, k)
    BY <1>8 DEF PublisherLosesConnection, P!LoseConnection
  <2> QED  BY <1>1, <1>2, <2>1, Keeping, LinkCut
<1>9. CASE RestartBroker
  <2>1. transit' = <<>> /\ told' = told /\ transit' \in Seq(Nat \X Nat)
    BY <1>9 DEF RestartBroker
  <2>2. CASE plink = "up"
    <3>1. /\ connections' = connections /\ outstanding' = {}
          /\ \E k \in 0 .. Len(confirms) : confirms' = SubSeq(confirms, 1, k)
      BY <1>9, <2>2 DEF RestartBroker, P!LoseConnection
    <3> QED  BY <1>1, <2>1, <3>1, LinkCut
  <2>3. CASE plink # "up"
    <3>1. UNCHANGED <<connections, outstanding, confirms>> /\ outstanding = {}
      BY <1>9, <2>3 DEF RestartBroker, publisherVars, IInv, PP!IInv, PP!Phases
    <3> QED  BY <1>1, <2>1, <3>1 DEF IInv, Linked
  <2> QED  BY <2>2, <2>3
<1>10. ASSUME NEW j \in Jobs, Arrive(j) PROVE Linked'
  <2>1. /\ Leaves(j) /\ UNCHANGED <<connections, outstanding, confirms, told>>
    BY <1>10 DEF Arrive, publisherVars
  <2>2. transit' \in Seq(Nat \X Nat) /\ InTransit \subseteq InTransit' \cup {j}
    BY <1>2, <2>1, Leaving
  <2>3. j \in Published'  BY <1>1, <1>10
  <2> QED  BY <1>1, <2>1, <2>2, <2>3 DEF IInv, Linked
<1>11. ASSUME NEW t \in 1 .. MaxNumber, Refuse(t) PROVE Linked'
  BY <1>11, AnswerLinked DEF Refuse
<1>12. ASSUME NEW t \in 1 .. MaxNumber, NEW m \in BOOLEAN, Confirm(t, m) PROVE Linked'
  <2>1. /\ P!Confirm(t, m) /\ UNCHANGED <<receiverVars, transit, told>>
        /\ \A k \in InTransit : k[1] = connections => k[2] > t
    BY <1>12 DEF Confirm
  <2>2. t \in outstanding  BY <2>1 DEF P!Confirm
  <2>3. <<connections, t>> \notin InTransit
    <3>1. SUFFICES ASSUME <<connections, t>> \in InTransit PROVE FALSE  OBVIOUS
    <3>2. t > t  BY <2>1, <3>1
    <3> QED  BY <3>2
  <2>4. <<connections, t>> \in Published  BY <2>2, <2>3 DEF IInv, Linked
  <2> QED  BY <2>1, <2>4, AnswerLinked
<1> QED
  BY <1>3, <1>4, <1>5, <1>6, <1>7, <1>8, <1>9, <1>10, <1>11, <1>12 DEF Next, Publisher

-----------------------------------------------------------------------------
(* The order on the way.                                                   *)

LEMMA LeavingInOrder ==
    ASSUME transit \in Seq(Nat \X Nat), Lined(transit), NEW j, Leaves(j)
    PROVE  Lined(transit') /\ InTransit' \subseteq InTransit
<1>1. PICK n \in 1 .. Len(transit) : transit' = R!Dropped(transit, n)
  BY DEF Leaves
<1>2. Len(transit) \in Nat /\ \A i \in 1 .. Len(transit) : transit[i] \in Nat \X Nat
  OBVIOUS
<1>3. transit' = [i \in 1 .. Len(transit) - 1 |->
                    IF i < n THEN transit[i] ELSE transit[i + 1]]
  BY <1>1 DEF R!Dropped
<1>4. Len(transit') = Len(transit) - 1
  <2>1. transit' \in Seq(Nat \X Nat)  BY Leaving
  <2>2. DOMAIN transit' = 1 .. Len(transit') /\ Len(transit') \in Nat  BY <2>1, LenProperties
  <2>3. DOMAIN transit' = 1 .. Len(transit) - 1  BY <1>3
  <2> QED  BY <1>1, <1>2, <2>2, <2>3
<1> DEFINE at(i) == IF i < n THEN i ELSE i + 1
<1>5. \A i \in 1 .. Len(transit') : at(i) \in 1 .. Len(transit) /\ transit'[i] = transit[at(i)]
  <2> SUFFICES ASSUME NEW i \in 1 .. Len(transit')
               PROVE  at(i) \in 1 .. Len(transit) /\ transit'[i] = transit[at(i)]
    OBVIOUS
  <2>1. i \in 1 .. Len(transit) - 1 /\ i \in 1 .. Len(transit) /\ i + 1 \in 1 .. Len(transit)
    BY <1>2, <1>4
  <2>2. transit'[i] = IF i < n THEN transit[i] ELSE transit[i + 1]
    BY <1>3, <2>1
  <2> QED  BY <2>1, <2>2
<1>6. \A i, k \in 1 .. Len(transit') : i < k => at(i) < at(k)
  <2> SUFFICES ASSUME NEW i \in 1 .. Len(transit'), NEW k \in 1 .. Len(transit'), i < k
               PROVE  at(i) < at(k)
    OBVIOUS
  <2>1. Len(transit') \in Int
    BY <1>2, <1>4
  <2>2. i \in Int /\ k \in Int
    BY <2>1
  <2>3. n \in Int
    BY <1>2
  <2>4. CASE k < n
    <3>1. i < n  BY <2>2, <2>3, <2>4
    <3> QED  BY <2>4, <3>1
  <2>5. CASE ~(k < n)
    <3>1. at(k) = k + 1 /\ (at(i) = i \/ at(i) = i + 1)  BY <2>5
    <3> QED  BY <2>2, <3>1
  <2> QED  BY <2>4, <2>5
<1> HIDE DEF at
<1>7. Lined(transit')
  BY <1>5, <1>6 DEF Lined
<1>8. InTransit' \subseteq InTransit
  BY <1>5 DEF InTransit
<1> QED
  BY <1>7, <1>8

\* A connection that breaks loses the last jobs.
LEMMA KeepingInOrder ==
    ASSUME transit \in Seq(Nat \X Nat), Lined(transit), KeepsSome
    PROVE  /\ Lined(transit') /\ InTransit' \subseteq InTransit
           /\ \A k \in InTransit', j \in InTransit : Earlier(j, k) => j \in InTransit'
<1>1. PICK n \in 0 .. Len(transit) : transit' = SubSeq(transit, 1, n)
  BY DEF KeepsSome
<1>2. /\ Len(transit) \in Nat /\ n \in Nat /\ n <= Len(transit)
      /\ \A i \in 1 .. Len(transit) : transit[i] \in Nat \X Nat
  BY <1>1
<1>3. Len(transit') = n /\ \A i \in 1 .. n : transit'[i] = transit[i]
  BY <1>1, <1>2
<1>4. \A i \in 1 .. n : i \in 1 .. Len(transit)
  BY <1>2
<1>5. Lined(transit') /\ InTransit' \subseteq InTransit
  BY <1>3, <1>4 DEF Lined, InTransit
<1>6. ASSUME NEW k \in InTransit', NEW j \in InTransit, Earlier(j, k) PROVE j \in InTransit'
  <2>1. PICK b \in 1 .. n : k = transit[b]  BY <1>3 DEF InTransit
  <2>2. PICK a \in 1 .. Len(transit) : j = transit[a]  BY DEF InTransit
  <2>3. j[2] \in Nat /\ k[2] \in Nat /\ j[2] < k[2] /\ j[1] = k[1]
    BY <1>2, <1>4, <1>6, <2>1, <2>2 DEF Earlier
  <2>4. a # b
    <3>1. k[2] # j[2]  BY <2>3
    <3> QED  BY <2>1, <2>2, <3>1
  <2>5. ASSUME b < a PROVE FALSE
    <3>1. b \in 1 .. Len(transit) /\ transit[b][1] = transit[a][1]
      BY <1>4, <2>1, <2>2, <2>3
    <3>2. transit[b][2] < transit[a][2]
      BY <2>2, <2>5, <3>1 DEF Lined
    <3>3. k[2] < j[2]
      BY <2>1, <2>2, <3>2
    <3> QED  BY <2>3, <3>3
  <2>6. a \in 1 .. n  BY <1>2, <2>1, <2>2, <2>4, <2>5
  <2> QED  BY <1>3, <2>2, <2>6 DEF InTransit
<1> QED
  BY <1>5, <1>6

\* Less is on its way, and nothing before what still is.
LEMMA StaysInOrder ==
    ASSUME Sequential, UNCHANGED <<published, refused>>, Lined(transit'),
           InTransit' \subseteq InTransit,
           \A k \in InTransit', j \in InTransit : Earlier(j, k) => j \in InTransit'
    PROVE  ArrivedInOrder' /\ SentInOrder' /\ Lined(transit')
<1>1. Published' = Published
  BY DEF Published
<1>2. ArrivedInOrder'
  BY <1>1 DEF Sequential, ArrivedInOrder
<1>3. SentInOrder'
  BY <1>1 DEF Sequential, SentInOrder
<1> QED
  BY <1>2, <1>3

\* Nothing changes that the order is about.
LEMMA SequentialKept ==
    ASSUME Sequential,
           UNCHANGED <<published, refused, transit, issued, plink, pstage, connections, number>>
    PROVE  Sequential'
  BY DEF Sequential, ArrivedInOrder, SentInOrder, Lined, AllSent, Numbered, Published, InTransit

LEMMA CallbackSequential ==
    ASSUME IInv, Sequential, P!Callback \/ P!Stop,
           UNCHANGED <<published, transit, issued, refused>>
    PROVE  Sequential'
<1>1. /\ ArrivedInOrder' /\ SentInOrder' /\ Lined(transit')
      /\ UNCHANGED <<InTransit, Published, issued>>
  BY DEF Sequential, ArrivedInOrder, SentInOrder, Lined, Published, InTransit
<1>2. /\ pstage \in {"connect", "reopen"} <=> plink = "none"
      /\ pstage \in {"connect", "channel", "exchange", "queue", "bind"} => number = 0
      /\ connections \in Nat
      /\ \A k \in issued : k[1] \in Nat /\ k[2] \in Nat
  <2>1. connections \in Nat  BY DEF IInv, PP!IInv, PP!TypeOK
  <2>2. \A k \in issued : k \in Nat \X Nat  BY DEF Sequential, Numbered
  <2> QED  BY <2>1, <2>2 DEF IInv, PP!IInv, PP!Phases
<1>3. CASE P!Connect
  <2>1. connections' = connections + 1 /\ pstage' = "channel"
    BY <1>3 DEF P!Connect, P!Waits
  <2>2. \A k \in issued : k[1] < connections'
    BY <1>2, <2>1 DEF Sequential, Numbered
  <2> QED  BY <1>1, <2>1, <2>2 DEF Sequential, AllSent, Numbered
<1>4. CASE P!ConnectFails
  <2>1. UNCHANGED <<plink, pstage, connections, number>>
    BY <1>4 DEF P!ConnectFails, P!countVars
  <2> QED  BY <2>1, SequentialKept
<1>5. ASSUME NEW i \in 2 .. Len(P!Setup) - 1, P!SetUp(i) PROVE Sequential'
  <2>1. /\ pstage \in {"channel", "exchange", "queue", "bind"} /\ pstage' # "connect"
        /\ UNCHANGED <<connections, number>>
    BY <1>5 DEF P!SetUp, P!Setup, P!Waits, P!countVars
  <2>2. number' = 0  BY <1>2, <2>1
  <2>3. Numbered'
    BY <1>1, <2>1 DEF Sequential, Numbered
  <2>4. AllSent'
    BY <2>2 DEF AllSent
  <2> QED  BY <1>1, <2>3, <2>4 DEF Sequential
<1>6. CASE P!OnConnectionClosed
  <2>1. /\ plink # "none" /\ pstage' = "reopen" /\ UNCHANGED <<connections, number>>
    BY <1>6 DEF P!OnConnectionClosed, P!countVars
  <2> QED  BY <1>1, <1>2, <2>1 DEF Sequential, AllSent, Numbered
<1>7. CASE P!Reopen
  <2>1. pstage' = "connect" /\ connections' = connections
    BY <1>7 DEF P!Reopen, P!ReopenStage
  <2> QED  BY <1>1, <2>1 DEF Sequential, AllSent, Numbered
<1>8. CASE P!Stop
  <2>1. /\ UNCHANGED <<plink, connections, number>>
        /\ \/ pstage' = pstage
           \/ plink # "none" /\ pstage' = "close"
    BY <1>8 DEF P!Stop, P!countVars
  <2>2. pstage' = pstage => Sequential'
    BY <2>1, SequentialKept
  <2>3. plink # "none" /\ pstage' = "close" => Sequential'
    BY <1>1, <1>2, <2>1 DEF Sequential, AllSent, Numbered
  <2> QED  BY <2>1, <2>2, <2>3
<1> QED
  BY <1>3, <1>4, <1>5, <1>6, <1>7, <1>8 DEF P!Callback

LEMMA AppendTransit ==
    ASSUME transit \in Seq(Nat \X Nat), NEW j \in Nat \X Nat, transit' = Append(transit, j)
    PROVE  InTransit' = InTransit \cup {j}
<1>1. /\ Len(transit') = Len(transit) + 1 /\ Len(transit) \in Nat
      /\ transit'[Len(transit) + 1] = j
      /\ \A i \in 1 .. Len(transit) : transit'[i] = transit[i]
  OBVIOUS
<1>2. \A i \in 1 .. Len(transit') : i \in 1 .. Len(transit) \/ i = Len(transit) + 1
  BY <1>1
<1>3. /\ Len(transit) + 1 \in 1 .. Len(transit')
      /\ \A i \in 1 .. Len(transit) : i \in 1 .. Len(transit')
  BY <1>1
<1>4. InTransit' \subseteq InTransit \cup {j}
  BY <1>1, <1>2 DEF InTransit
<1>5. InTransit \cup {j} \subseteq InTransit'
  BY <1>1, <1>3 DEF InTransit
<1> QED
  BY <1>4, <1>5

\* A job that is published follows all jobs of its connection.
LEMMA PublishMessageSequential ==
    ASSUME IInv, Sequential, PublishMessage PROVE Sequential'
<1>1. /\ UNCHANGED <<connections, plink, pstage, refused, published>>
      /\ number \in Nat /\ connections \in Nat /\ transit \in Seq(Nat \X Nat)
  BY DEF PublishMessage, P!PublishMessage, P!connVars, receiverVars, IInv, Linked,
         PP!IInv, PP!TypeOK
<1> DEFINE new == {<<connections, t>> : t \in number + 1 .. number'}
<1>2. transit' = IF plink = "up" /\ new # {} THEN Append(transit, <<connections, number'>>)
                                           ELSE transit
  BY DEF PublishMessage
<1>3. issued' = issued \cup new
  BY DEF PublishMessage
<1>4. CASE number' = number
  <2>1. new = {}  BY <1>1, <1>4
  <2> HIDE DEF new
  <2> QED  BY <1>3, <1>1, <1>2, <1>4, <2>1, SequentialKept
<1>5. CASE pstage = "publish" /\ number' = number + 1
  <2>1. new = {<<connections, number'>>}
    <3>1. number + 1 .. number' = {number'}  BY <1>1, <1>5
    <3> QED  BY <3>1
  <2> HIDE DEF new
  <2>2. \A k \in issued : k[1] \in Nat /\ k[2] \in Nat
    <3>1. \A k \in issued : k \in Nat \X Nat  BY DEF Sequential, Numbered
    <3> QED  BY <3>1
  <2>3. \A k \in issued : k[1] < connections \/ (k[1] = connections /\ k[2] < number')
    BY <1>1, <1>5, <2>2 DEF Sequential, Numbered
  <2>4. Published' = Published /\ issued' = issued \cup {<<connections, number'>>}
    BY <1>1, <1>3, <2>1 DEF Published
  <2>5. ASSUME InTransit' \subseteq InTransit \cup {<<connections, number'>>} PROVE Numbered'
    <3>1. number' \in Nat /\ number' <= number'  BY <1>1, <1>5
    <3>2. \A k \in issued : k[2] < number' => k[2] <= number'  BY <2>2, <3>1
    <3>3. \A k \in issued' : k[1] < connections \/ (k[1] = connections /\ k[2] <= number')
      BY <2>3, <2>4, <3>1, <3>2
    <3>4. <<connections, number'>> \in Nat \X Nat  BY <1>1, <3>1
    <3>5. /\ issued' \subseteq Nat \X Nat
          /\ InTransit' \cup Published' \subseteq issued'
      BY <2>4, <2>5, <3>4 DEF Sequential, Numbered
    <3> QED  BY <1>1, <3>3, <3>5 DEF Numbered
  <2>6. CASE plink # "up"
    <3>1. transit' = transit  BY <1>2, <2>6
    <3>2. InTransit' = InTransit  BY <3>1 DEF InTransit
    <3>3. ArrivedInOrder' /\ SentInOrder' /\ Lined(transit')
      BY <1>1, <3>1, <3>2, StaysInOrder DEF Sequential
    <3>4. Numbered'
      BY <2>5, <3>2
    <3> QED  BY <1>1, <2>6, <3>3, <3>4 DEF Sequential, AllSent
  <2>7. CASE plink = "up"
    <3>1. transit' = Append(transit, <<connections, number'>>)  BY <1>2, <2>1, <2>7
    <3>2. /\ Len(transit') = Len(transit) + 1 /\ Len(transit) \in Nat
          /\ transit'[Len(transit) + 1] = <<connections, number'>>
          /\ \A i \in 1 .. Len(transit) : transit'[i] = transit[i] /\ transit[i] \in InTransit
      BY <1>1, <3>1 DEF InTransit
    <3>3. InTransit' = InTransit \cup {<<connections, number'>>}
      <4>1. <<connections, number'>> \in Nat \X Nat  BY <1>1, <1>5
      <4> QED  BY <1>1, <3>1, <4>1, AppendTransit
    <3>4. Published' = Published /\ ArrivedInOrder'
      BY <1>1 DEF Sequential, ArrivedInOrder, Published
    <3>5. \A t \in 1 .. number : <<connections, t>> \in refused \cup Published \cup InTransit
      BY <1>5, <2>7 DEF Sequential, AllSent
    <3>6. AllSent'
      <4>1. \A t \in 1 .. number' : t \in 1 .. number \/ t = number'  BY <1>1, <1>5
      <4> QED  BY <1>1, <3>3, <3>4, <3>5, <4>1 DEF AllSent
    <3>7. SentInOrder'
      <4> SUFFICES ASSUME NEW j \in Jobs, NEW k \in InTransit', Earlier(j, k)
                   PROVE  j \in refused \cup Published \cup InTransit
        BY <1>1, <3>3, <3>4 DEF SentInOrder
      <4>1. CASE k \in InTransit  BY <4>1 DEF Sequential, SentInOrder
      <4>2. CASE k = <<connections, number'>>
        <5>1. j = <<connections, j[2]>> /\ j[2] \in 1 .. number
          <6>1. j = <<j[1], j[2]>> /\ j[2] \in 1 .. MaxNumber  BY DEF Jobs
          <6>2. j[1] = connections /\ j[2] < number'  BY <4>2 DEF Earlier
          <6>3. j[2] \in Nat /\ j[2] >= 1  BY <6>1, PublisherAssumption
          <6> QED  BY <1>1, <1>5, <6>1, <6>2, <6>3
        <5> QED  BY <3>5, <5>1
      <4> QED  BY <3>3, <4>1, <4>2
    <3>8. Lined(transit')
      <4> SUFFICES ASSUME NEW a \in 1 .. Len(transit'), NEW b \in 1 .. Len(transit'), a < b,
                          transit'[a][1] = transit'[b][1]
                   PROVE  transit'[a][2] < transit'[b][2]
        BY DEF Lined
      <4>1. a \in 1 .. Len(transit) /\ transit'[a] = transit[a]  BY <3>2
      <4>2. CASE b \in 1 .. Len(transit)
        BY <3>2, <4>1, <4>2 DEF Sequential, Lined
      <4>3. CASE b = Len(transit) + 1
        <5>1. transit'[b][1] = connections /\ transit'[b][2] = number'  BY <3>2, <4>3
        <5>2. transit[a] \in issued /\ transit[a][1] = connections
          BY <3>2, <4>1, <5>1 DEF Sequential, Numbered
        <5>3. ~(transit[a][1] < connections)  BY <1>1, <5>2
        <5> QED  BY <2>3, <4>1, <5>1, <5>2, <5>3
      <4> QED  BY <3>2, <4>2, <4>3
    <3>9. Numbered'
      BY <2>5, <3>3
    <3> QED  BY <3>4, <3>6, <3>7, <3>8, <3>9 DEF Sequential
  <2> QED  BY <2>6, <2>7
<1> QED
  BY <1>4, <1>5 DEF PublishMessage, P!PublishMessage

\* A job that arrives, or that is refused, was the first of its connection.
LEMMA LeavesSequential ==
    ASSUME IInv, Sequential, NEW j, First(j), Leaves(j),
           UNCHANGED <<issued, plink, pstage, connections, number>>,
           \/ j \in Jobs /\ published' = Append(published, j) /\ refused' = refused
           \/ published' = published /\ refused' = refused \cup {j}
    PROVE  Sequential'
<1>1. /\ transit \in Seq(Nat \X Nat) /\ published \in Seq(Jobs)
  BY DEF IInv, Linked, RP!IInv, RP!TypeOK
<1>2. /\ Lined(transit') /\ InTransit' \subseteq InTransit
      /\ InTransit \subseteq InTransit' \cup {j}
  BY <1>1, Leaving, LeavingInOrder DEF Sequential
<1>3. RP!PrefetchAssumption /\ RP!StartAssumption /\ RP!MessageAssumption
  BY ReceiverAssumption DEF RP!PrefetchAssumption, RP!StartAssumption, RP!MessageAssumption
<1>4. j \in Jobs => RP!Elements(Append(published, j)) = RP!Elements(published) \cup {j}
  BY <1>1, <1>3, RP!AppendElements
<1>5. \/ j \in Jobs /\ Published' = Published \cup {j} /\ published' = Append(published, j)
      \/ Published' = Published /\ published' = published /\ j \in refused'
  BY <1>4 DEF Published, R!Elements, RP!Elements
<1>6. refused \subseteq refused' /\ Published \subseteq Published'
      /\ j \in refused' \cup Published'
  BY <1>5
<1>7. refused \cup Published \cup InTransit \subseteq (refused \cup Published \cup InTransit)'
  BY <1>2, <1>6
<1>8. \A i, k : RP!Precedes(published, i, k) => RP!Precedes(published', i, k)
  <2>1. j \in Jobs =>
          \A i, k : RP!Precedes(published, i, k) => RP!Precedes(Append(published, j), i, k)
    BY <1>1, <1>3, RP!AppendPrecedes
  <2> QED  BY <1>5, <2>1
<1>9. \A i : j \in Jobs /\ i \in Published => RP!Precedes(Append(published, j), i, j)
  BY <1>1, <1>3, RP!AppendPrecedes DEF Published, R!Elements, RP!Elements
<1>10. ArrivedInOrder'
  <2> SUFFICES ASSUME NEW i \in Jobs, NEW k \in Jobs, Earlier(i, k), k \in Published'
               PROVE  i \in refused' \/ RP!Precedes(published', i, k)
    BY DEF ArrivedInOrder
  <2>1. CASE k \in Published
    BY <1>6, <1>8, <2>1 DEF Sequential, ArrivedInOrder
  <2>2. CASE k \notin Published
    <3>1. k = j /\ published' = Append(published, j)  BY <1>5, <2>2
    <3>2. k \in InTransit  BY <3>1 DEF First
    <3>3. i \notin InTransit
      <4>1. i[2] \in Nat /\ k[2] \in Nat /\ i[2] < k[2] /\ i[1] = k[1]
        BY PublisherAssumption DEF Earlier, Jobs
      <4>2. ~(i[2] >= k[2])  BY <4>1
      <4> QED  BY <3>1, <4>1, <4>2 DEF First
    <3>4. i \in refused \cup Published
      BY <3>2, <3>3 DEF Sequential, SentInOrder
    <3> QED  BY <1>6, <1>9, <3>1, <3>4
  <2> QED  BY <2>1, <2>2
<1>11. SentInOrder'
  BY <1>2, <1>7 DEF Sequential, SentInOrder
<1>12. AllSent'
  BY <1>7 DEF Sequential, AllSent
<1>13. Numbered'
  <2>1. j \in InTransit  BY DEF First
  <2> QED  BY <1>2, <1>5, <2>1 DEF Sequential, Numbered
<1> QED
  BY <1>2, <1>10, <1>11, <1>12, <1>13 DEF Sequential

LEMMA SequentialStep == ASSUME IInv, Sequential, Next PROVE Sequential'
<1>1. transit \in Seq(Nat \X Nat) /\ Lined(transit)
  BY DEF IInv, Linked, Sequential
<1>2. CASE PublishMessage  BY <1>2, PublishMessageSequential
<1>3. CASE OnDeliveryConfirmation
  BY <1>3, SequentialKept
     DEF OnDeliveryConfirmation, P!OnDeliveryConfirmation, P!connVars, receiverVars
<1>4. CASE (P!Callback \/ P!Stop) /\ UNCHANGED <<receiverVars, transit, issued, told, refused>>
  BY <1>4, CallbackSequential DEF receiverVars
<1>5. CASE Receiver
  <2>1. published' = published
    BY <1>5 DEF Receiver, R!Broker, R!Deliver, R!ReceiveAck, R!Receive, R!SetUp, R!StartPlay,
         R!EndPlay, R!PlayRaises, R!OnConnectionClosed, R!CancelOk, R!ChannelCloseOk,
         R!ChannelClosed, R!LoseConnection, R!ConnectFails, R!Stop, R!SocketCloses,
         R!Restart, R!Requeue, R!brokerVars
  <2> QED  BY <1>5, <2>1, SequentialKept DEF Receiver, publisherVars
<1>6. ASSUME NEW t \in 1 .. MaxNumber, NEW m \in BOOLEAN, Confirm(t, m) PROVE Sequential'
  BY <1>6, SequentialKept
     DEF Confirm, P!Confirm, P!connVars, P!countVars, receiverVars
<1>7. CASE OnChannelClosed \/ PublisherLosesConnection
  <2>1. /\ KeepsSome /\ UNCHANGED <<published, refused, issued, connections, number>>
        /\ plink' # "up" \/ pstage' = "close"
        /\ pstage' = pstage \/ pstage' = "close"
        /\ pstage # "connect"
    <3>1. CASE OnChannelClosed
      BY <3>1 DEF OnChannelClosed, P!OnChannelClosed, P!HasChannel, P!countVars, receiverVars
    <3>2. CASE PublisherLosesConnection
      BY <3>2 DEF PublisherLosesConnection, P!LoseConnection, P!countVars, receiverVars,
                  IInv, PP!IInv, PP!Phases
    <3> QED  BY <1>7, <3>1, <3>2
  <2>2. /\ InTransit' \subseteq InTransit
        /\ ArrivedInOrder' /\ SentInOrder' /\ Lined(transit')
    BY <1>1, <2>1, KeepingInOrder, StaysInOrder
  <2>3. AllSent'
    BY <2>1 DEF AllSent
  <2>4. Numbered'
    BY <2>1, <2>2 DEF Sequential, Numbered, Published
  <2> QED  BY <2>2, <2>3, <2>4 DEF Sequential
<1>8. CASE RestartBroker
  <2>1. /\ transit' = <<>> /\ plink' # "up"
        /\ UNCHANGED <<published, refused, issued, connections, number, pstage>>
    BY <1>8 DEF RestartBroker, R!RestartBroker, P!LoseConnection, P!countVars, publisherVars
  <2>2. InTransit' = {} /\ Lined(transit')
    BY <2>1 DEF InTransit, Lined
  <2>3. ArrivedInOrder' /\ SentInOrder'
    BY <2>1, <2>2, StaysInOrder
  <2> QED  BY <2>1, <2>2, <2>3 DEF Sequential, AllSent, Numbered, Published
<1>9. ASSUME NEW j \in Jobs, Arrive(j) PROVE Sequential'
  <2>1. /\ First(j) /\ Leaves(j) /\ UNCHANGED <<issued, plink, pstage, connections, number>>
        /\ published' = Append(published, j) /\ refused' = refused
    BY <1>9 DEF Arrive, R!Publish, publisherVars
  <2> QED  BY <2>1, LeavesSequential
<1>10. ASSUME NEW t \in 1 .. MaxNumber, Refuse(t) PROVE Sequential'
  <2>1. /\ First(<<connections, t>>) /\ Leaves(<<connections, t>>) /\ t \in outstanding
        /\ UNCHANGED <<issued, plink, pstage, connections, number, published>>
        /\ refused' = refused \cup {<<connections, t>>}
    BY <1>10 DEF Refuse, P!Confirm, P!connVars, P!countVars, receiverVars
  <2> QED  BY <2>1, LeavesSequential
<1> QED
  BY <1>2, <1>3, <1>4, <1>5, <1>6, <1>7, <1>8, <1>9, <1>10 DEF Next, Publisher

-----------------------------------------------------------------------------

\* The two programs keep their invariants in the company of each other, and the links
\* between them hold in every reachable state.
THEOREM Invariance == Spec => []IInv
<1>1. /\ PP!BoundsAssumption /\ RP!PrefetchAssumption /\ RP!StartAssumption
      /\ RP!MessageAssumption
  BY PublisherAssumption, ReceiverAssumption
     DEF PP!BoundsAssumption, RP!PrefetchAssumption, RP!StartAssumption, RP!MessageAssumption
<1>2. Init => IInv
  <2> SUFFICES ASSUME Init PROVE IInv  OBVIOUS
  <2>1. PP!Init  BY DEF Init, P!Init, PP!Init
  <2>2. RP!Init  BY DEF Init, R!Init, RP!Init
  <2>3. PP!IInv  BY <1>1, <2>1, PP!InitInv
  <2>4. RP!IInv  BY <1>1, <2>2, RP!InitInv
  <2>5. transit = <<>> /\ outstanding = {} /\ confirms = <<>> /\ told = {}
    BY DEF Init, P!Init
  <2>6. Linked  BY <2>5 DEF Linked
  <2> QED  BY <2>3, <2>4, <2>6 DEF IInv
<1>3. IInv /\ [Next]_vars => IInv'
  <2> SUFFICES ASSUME IInv, [Next]_vars PROVE IInv'  OBVIOUS
  <2>1. CASE Next
    <3>1. [PP!Next]_PP!vars /\ [RP!Next]_RP!vars  BY <2>1, PublisherStep, ReceiverStep
    <3>2. PP!IInv'  BY <1>1, <3>1, PP!NextInv DEF IInv
    <3>3. RP!IInv'  BY <1>1, <3>1, RP!NextInv DEF IInv
    <3> QED  BY <2>1, <3>2, <3>3, LinkedStep DEF IInv
  <2>2. CASE UNCHANGED vars
    <3>1. UNCHANGED PP!vars /\ UNCHANGED RP!vars
      BY <2>2 DEF vars, publisherVars, receiverVars, PP!vars, PP!connVars, PP!countVars,
                  PP!brokerVars, RP!vars, RP!brokerVars, RP!procVars
    <3>2. PP!IInv'  BY <1>1, <3>1, PP!NextInv DEF IInv
    <3>3. RP!IInv'  BY <1>1, <3>1, RP!NextInv DEF IInv
    <3>4. Linked'
      BY <2>2, LinkKept DEF vars, publisherVars, receiverVars, Published
    <3> QED  BY <3>2, <3>3, <3>4 DEF IInv
  <2> QED  BY <2>1, <2>2
<1> QED
  BY <1>2, <1>3, PTL DEF Spec

\* What the publisher counts as acknowledged ran, is still with the broker, or was there
\* when the broker was restarted.
THEOREM ToldIsTrue == Spec => []ToldIsKept
<1>1. IInv => ToldIsKept
  <2> SUFFICES ASSUME IInv, NEW j \in told
               PROVE  Place(j) \in {"done", "waiting", "wiped"} /\ (j \in acked => runs[j] > 0)
    BY DEF ToldIsKept
  <2>1. j \in RP!Elements(published)
    BY DEF IInv, Linked, Published, R!Elements, RP!Elements
  <2>2. /\ j \in Waiting \cup acked \cup wiped
        /\ Waiting \cap (acked \cup wiped) = {} /\ acked \cap wiped = {}
    BY <2>1 DEF IInv, RP!IInv, RP!Kept, Waiting, R!Elements, RP!Elements
  <2>3. j \in acked => runs[j] > 0
    BY DEF IInv, RP!IInv, RP!Kept
  <2> QED
    BY <2>2, <2>3 DEF Place, Arrived
<1> QED
  BY <1>1, Invariance, PTL

\* Jobs travel, arrive and run in the order of their publication in every reachable state.
THEOREM SequentialInvariance == Spec => [](Sequential /\ RP!OrderInv)
<1>1. /\ RP!PrefetchAssumption /\ RP!StartAssumption /\ RP!MessageAssumption
  BY ReceiverAssumption DEF RP!PrefetchAssumption, RP!StartAssumption, RP!MessageAssumption
<1>2. Init => Sequential /\ RP!OrderInv
  <2> SUFFICES ASSUME Init PROVE Sequential /\ RP!OrderInv  OBVIOUS
  <2>1. RP!Init  BY DEF Init, R!Init, RP!Init
  <2>2. RP!OrderInv  BY <1>1, <2>1, RP!OrderInit
  <2>3. transit = <<>> /\ published = <<>> /\ plink = "none" /\ issued = {}
    BY DEF Init, P!Init, R!Init
  <2>4. InTransit = {} /\ Published = {}
    BY <2>3 DEF InTransit, Published, R!Elements
  <2> QED  BY <2>2, <2>3, <2>4
           DEF Sequential, ArrivedInOrder, SentInOrder, Lined, AllSent, Numbered
<1>3. IInv /\ (Sequential /\ RP!OrderInv) /\ [Next]_vars => (Sequential /\ RP!OrderInv)'
  <2> SUFFICES ASSUME IInv, Sequential, RP!OrderInv, [Next]_vars
               PROVE  (Sequential /\ RP!OrderInv)'
    OBVIOUS
  <2>1. [RP!Next]_RP!vars
    BY ReceiverStep
       DEF vars, receiverVars, RP!vars, RP!brokerVars, RP!procVars
  <2>2. RP!OrderInv'  BY <1>1, <2>1, RP!OrderNext DEF IInv
  <2>3. Sequential'
    <3>1. CASE Next  BY <3>1, SequentialStep
    <3>2. CASE UNCHANGED vars
      BY <3>2, SequentialKept DEF vars, publisherVars, receiverVars
    <3> QED  BY <3>1, <3>2
  <2> QED  BY <2>2, <2>3
<1> QED
  BY <1>2, <1>3, Invariance, PTL DEF Spec

\* From end to end: a job runs for the first time after all jobs that the publisher published
\* before it on the same connection, but for those the broker refused or forgot.
THEOREM RunsAreInOrder == Spec => []RunsFollowPublication
<1>1. IInv /\ (Sequential /\ RP!OrderInv) => RunsFollowPublication
  <2> SUFFICES ASSUME IInv, Sequential, RP!OrderInv, NEW j \in Jobs, NEW k \in Jobs,
                      Earlier(j, k), runs[k] > 0
               PROVE  runs[j] > 0 \/ j \in refused \cup wiped
    BY DEF RunsFollowPublication, Earlier
  <2>1. k \in Published
    BY DEF IInv, RP!IInv, RP!Redelivered, Published, R!Elements, RP!Elements
  <2>2. j \in refused \/ RP!Precedes(published, j, k)
    BY <2>1 DEF Sequential, ArrivedInOrder
  <2> QED  BY <2>2 DEF RP!OrderInv, RP!FirstRuns, RP!Done
<1> QED
  BY <1>1, Invariance, SequentialInvariance, PTL

-----------------------------------------------------------------------------
(* The promise of AtLeastOnce.                                             *)

\* Where a job is, said without an order of cases.
PlaceMeaning ==
    \A j \in Jobs :
        /\ Place(j) \in {"done", "wiped", "waiting", "sent", "lost", "new"}
        /\ Place(j) = "done" <=> j \in acked
        /\ Place(j) = "wiped" <=> j \in wiped
        /\ Place(j) = "waiting" <=> j \in Published \ (acked \cup wiped)
        /\ Place(j) = "sent" <=> j \in InTransit \ Published
        /\ Place(j) = "lost" <=> j \in issued \ (InTransit \cup Published)
        /\ Place(j) = "new" <=> j \notin issued \cup InTransit \cup Published

LEMMA Places == RP!Kept => PlaceMeaning
<1> SUFFICES ASSUME RP!Kept PROVE PlaceMeaning  OBVIOUS
<1>1. /\ Published = Waiting \cup acked \cup wiped
      /\ Waiting \cap (acked \cup wiped) = {} /\ acked \cap wiped = {}
  BY DEF RP!Kept, Published, Waiting, R!Elements, RP!Elements
<1> QED
  BY <1>1 DEF PlaceMeaning, Place, Arrived

\* A job is where it was if none of these sets takes it or lets it go.
LEMMA SamePlace ==
    ASSUME PlaceMeaning, PlaceMeaning', NEW j \in Jobs,
           j \in acked' <=> j \in acked, j \in wiped' <=> j \in wiped,
           j \in Published' <=> j \in Published,
           j \notin Published => (j \in InTransit' <=> j \in InTransit),
           j \notin Published \cup InTransit => (j \in issued' <=> j \in issued)
    PROVE  Place(j)' = Place(j)
  BY DEF PlaceMeaning

LEMMA Moved ==
    ASSUME NEW S \in SUBSET Jobs, NEW from, NEW to,
           \A j \in S : Place(j) = from /\ Place(j)' = to,
           \A j \in Jobs \ S : Place(j)' = Place(j)
    PROVE  A!Moves(S, from, to)
  BY DEF A!Moves

LEMMA StepIsNext == A!Step \/ UNCHANGED A!vars => [A!Next]_A!vars
  BY DEF A!Next

\* What neither program's view of a job depends on.
LEMMA PromiseStutters ==
    ASSUME PlaceMeaning, PlaceMeaning',
           UNCHANGED <<acked, wiped, Published, InTransit, issued, told, runs>>
    PROVE  UNCHANGED A!vars
<1>1. \A j \in Jobs : Place(j)' = Place(j)
  BY SamePlace
<1> QED
  BY <1>1 DEF A!vars

\* Jobs are lost on their way, or none is.
LEMMA PromiseLoses ==
    ASSUME PlaceMeaning, PlaceMeaning', InTransit \cup Published \subseteq issued,
           InTransit' \subseteq InTransit,
           UNCHANGED <<acked, wiped, Published, issued, told, runs>>
    PROVE  A!Step
<1> DEFINE S == {j \in Jobs : j \in InTransit \ (Published \cup InTransit')}
<1>1. \A j \in S : Place(j) = "sent" /\ Place(j)' = "lost"
  BY DEF PlaceMeaning
<1>2. \A j \in Jobs \ S : Place(j)' = Place(j)
  BY SamePlace
<1>3. S \in SUBSET {j \in Jobs : [i \in Jobs |-> Place(i)][j] = "sent"}
  BY <1>1
<1>4. A!Moves(S, "sent", "lost")
  BY <1>1, <1>2, Moved
<1>5. {j \in Jobs : runs[j] > 0}' = {j \in Jobs : runs[j] > 0}
  OBVIOUS
<1>6. A!Lose(S)
  BY <1>4, <1>5 DEF A!Lose
<1> QED
  BY <1>3, <1>6 DEF A!Step

\* A job that is published is a new one: a tag is used once on a connection.
LEMMA PublishMessagePromise ==
    ASSUME IInv, Sequential, PlaceMeaning, PlaceMeaning', PublishMessage
    PROVE  A!Step \/ UNCHANGED A!vars
<1>1. /\ UNCHANGED <<connections, published, acked, wiped, told, runs>>
      /\ number \in Nat /\ connections \in Nat /\ transit \in Seq(Nat \X Nat)
  BY DEF PublishMessage, P!PublishMessage, P!connVars, receiverVars, IInv, Linked,
         PP!IInv, PP!TypeOK
<1>2. Published' = Published
  BY <1>1 DEF Published
<1> DEFINE new == {<<connections, t>> : t \in number + 1 .. number'}
<1>3. /\ issued' = issued \cup new
      /\ transit' = IF plink = "up" /\ new # {} THEN Append(transit, <<connections, number'>>)
                                              ELSE transit
  BY DEF PublishMessage
<1>4. CASE number' = number
  <2>1. new = {}  BY <1>1, <1>4
  <2> HIDE DEF new
  <2>2. issued' = issued /\ transit' = transit  BY <1>3, <2>1
  <2> QED  BY <1>1, <1>2, <2>2, PromiseStutters DEF InTransit
<1>5. CASE pstage = "publish" /\ number' = number + 1
  <2>1. PICK j : j = <<connections, number'>> /\ j \in Nat \X Nat
    <3>1. number' \in Nat  BY <1>1, <1>5
    <3>2. <<connections, number'>> \in Nat \X Nat  BY <1>1, <3>1
    <3> QED  BY <3>2
  <2>2. new = {j}
    <3>1. number + 1 .. number' = {number'}  BY <1>1, <1>5
    <3> QED  BY <2>1, <3>1
  <2> HIDE DEF new
  <2>3. InTransit' = InTransit \/ InTransit' = InTransit \cup {j}
    <3>1. transit' = transit => InTransit' = InTransit  BY DEF InTransit
    <3>2. transit' = Append(transit, j) => InTransit' = InTransit \cup {j}
      BY <1>1, <2>1, AppendTransit
    <3> QED  BY <1>3, <2>1, <3>1, <3>2
  <2>4. \A i \in Jobs : i # j => Place(i)' = Place(i)
    BY <1>1, <1>2, <1>3, <2>2, <2>3, SamePlace
  <2>5. CASE j \in Jobs
    <3>1. j \notin issued
      <4>1. j[1] = connections /\ j[2] = number'  BY <2>1
      <4>2. ~(connections < connections) /\ ~(number' <= number)  BY <1>1, <1>5
      <4> QED  BY <1>5, <4>1, <4>2 DEF Sequential, Numbered
    <3>2. Place(j) = "new"
      BY <2>5, <3>1 DEF Sequential, Numbered, PlaceMeaning
    <3>3. Place(j)' = "sent" \/ Place(j)' = "lost"
      BY <1>2, <1>3, <2>2, <2>5, <3>1 DEF Sequential, Numbered, PlaceMeaning
    <3>4. (\A to \in {"sent", "lost"} : Place(j)' = to => A!Moves({j}, "new", to))
      BY <2>4, <2>5, <3>2, Moved
    <3>5. A!Submit(j)
      BY <1>1, <3>3, <3>4 DEF A!Submit
    <3> QED  BY <2>5, <3>5 DEF A!Step
  <2>6. CASE j \notin Jobs
    <3>1. \A i \in Jobs : Place(i)' = Place(i)  BY <2>4, <2>6
    <3> QED  BY <1>1, <3>1 DEF A!vars
  <2> QED  BY <2>5, <2>6
<1> QED
  BY <1>4, <1>5 DEF PublishMessage, P!PublishMessage

\* The publisher is told of a job that reached the broker.
LEMMA TellPromise ==
    ASSUME IInv, PlaceMeaning, PlaceMeaning', OnDeliveryConfirmation
    PROVE  A!Step \/ UNCHANGED A!vars
<1>1. /\ UNCHANGED <<acked, wiped, published, transit, issued, runs>>
      /\ confirms # <<>> /\ confirms \in Seq(PP!Frames)
  BY DEF OnDeliveryConfirmation, P!OnDeliveryConfirmation, receiverVars, IInv,
         PP!IInv, PP!TypeOK
<1>2. UNCHANGED <<Published, InTransit>>
  BY <1>1 DEF Published, InTransit
<1>3. \A j \in Jobs : Place(j)' = Place(j)
  BY <1>1, <1>2, SamePlace
<1>4. CASE told' = told
  BY <1>1, <1>2, <1>4, PromiseStutters
<1>5. CASE told' # told
  <2>1. /\ told' = told \cup {<<connections, confirms[1].tag>>}
        /\ confirms[1].type = "ack"
    BY <1>1, <1>5 DEF OnDeliveryConfirmation, IsAck
  <2>2. 1 \in 1 .. Len(confirms)  BY <1>1
  <2>3. PICK j : j = <<connections, confirms[1].tag>> /\ j \in Published
    BY <2>1, <2>2 DEF IInv, Linked
  <2>4. j \in Jobs
    <3>1. published \in Seq(Jobs)  BY DEF IInv, RP!IInv, RP!TypeOK
    <3> QED  BY <2>3, <3>1 DEF Published, R!Elements
  <2>5. Place(j) \in {"waiting", "done", "wiped"}
    BY <2>3, <2>4 DEF PlaceMeaning
  <2>6. A!Tell(j)
    BY <1>1, <1>3, <2>1, <2>3, <2>4, <2>5 DEF A!Tell
  <2> QED  BY <2>4, <2>6 DEF A!Step
<1> QED
  BY <1>4, <1>5

LEMMA ArrivePromise ==
    ASSUME IInv, Sequential, PlaceMeaning, PlaceMeaning', NEW j \in Jobs, Arrive(j)
    PROVE  A!Step
<1>1. /\ Leaves(j) /\ j \in InTransit /\ j \notin Published
      /\ published' = Append(published, j)
      /\ UNCHANGED <<acked, wiped, issued, told, runs>>
  BY DEF Arrive, First, R!Publish, Published
<1>2. Published' = Published \cup {j}
  <2>1. published \in Seq(Jobs)  BY DEF IInv, RP!IInv, RP!TypeOK
  <2>2. RP!Elements(Append(published, j)) = RP!Elements(published) \cup {j}
    BY <2>1, RP!AppendElements, ReceiverAssumption
       DEF RP!PrefetchAssumption, RP!StartAssumption, RP!MessageAssumption
  <2> QED  BY <1>1, <2>2 DEF Published, R!Elements, RP!Elements
<1>3. InTransit \subseteq InTransit' \cup {j} /\ InTransit' \subseteq InTransit
  BY <1>1, Leaving, LeavingInOrder DEF IInv, Linked, Sequential
<1>4. j \notin acked \cup wiped
  BY <1>1 DEF IInv, RP!IInv, RP!Kept, Published, R!Elements, RP!Elements
<1>5. Place(j) = "sent" /\ Place(j)' = "waiting"
  BY <1>1, <1>2, <1>4 DEF PlaceMeaning
<1>6. \A i \in Jobs \ {j} : Place(i)' = Place(i)
  BY <1>1, <1>2, <1>3, SamePlace
<1>7. A!Moves({j}, "sent", "waiting")
  BY <1>5, <1>6, Moved
<1>8. A!Accept(j)
  BY <1>1, <1>7 DEF A!Accept
<1> QED
  BY <1>8 DEF A!Step

\* A play that ends is a run of a job the broker had, and an acknowledgement follows a run.
LEMMA ReceiverPromise ==
    ASSUME IInv, PlaceMeaning, PlaceMeaning', Receiver
    PROVE  A!Step \/ UNCHANGED A!vars
<1>1. /\ UNCHANGED <<transit, issued, told, published, wiped>>
      /\ UNCHANGED <<InTransit, Published>>
  <2>1. UNCHANGED <<transit, issued, told>>
    BY DEF Receiver
  <2>2. published' = published /\ wiped' = wiped
    BY DEF Receiver, R!Broker, R!Deliver, R!ReceiveAck, R!Receive, R!SetUp, R!StartPlay,
         R!EndPlay, R!PlayRaises, R!OnConnectionClosed, R!CancelOk, R!ChannelCloseOk,
         R!ChannelClosed, R!LoseConnection, R!ConnectFails, R!Stop, R!SocketCloses,
         R!Restart, R!Requeue, R!brokerVars
  <2> QED  BY <2>1, <2>2 DEF InTransit, Published
<1>2. /\ Published = Waiting \cup acked \cup wiped
      /\ Waiting \cap (acked \cup wiped) = {} /\ Published \subseteq Jobs
      /\ \A m \in acked \cup acks : runs[m] > 0
  <2>1. published \in Seq(Jobs)  BY DEF IInv, RP!IInv, RP!TypeOK
  <2>2. Published \subseteq Jobs  BY <2>1 DEF Published, R!Elements
  <2>3. /\ Published = Waiting \cup acked \cup wiped
        /\ Waiting \cap (acked \cup wiped) = {}
    BY DEF IInv, RP!IInv, RP!Kept, Published, Waiting, R!Elements, RP!Elements
  <2>4. \A m \in acked \cup acks : runs[m] > 0
    BY DEF IInv, RP!IInv, RP!Kept
  <2> QED  BY <2>2, <2>3, <2>4
<1>3. CASE R!EndPlay
  <2>1. PICK h : h = handling /\ h \in Published
    <3>1. handling # NoMessage  BY <1>3 DEF R!EndPlay
    <3> QED  BY <3>1 DEF IInv, RP!IInv, RP!Redelivered, RP!Pending, Published,
                         R!Elements, RP!Elements
  <2>2. /\ acked' = acked /\ runs \in [Jobs -> Nat]
        /\ runs' = [runs EXCEPT ![h] = runs[h] + 1]
    BY <1>3, <2>1 DEF R!EndPlay, R!Played, R!brokerVars, IInv, RP!IInv, RP!TypeOK
  <2>3. \A j \in Jobs : Place(j)' = Place(j)
    BY <1>1, <2>2, SamePlace
  <2>4. h \in Jobs /\ runs'[h] > 0 /\ \A j \in Jobs : j # h => runs'[j] = runs[j]
    BY <1>2, <2>1, <2>2
  <2>5. {j \in Jobs : runs'[j] > 0} = {j \in Jobs : runs[j] > 0} \cup {h}
    BY <2>4
  <2>6. CASE h \in acked
    <3>1. {j \in Jobs : runs'[j] > 0} = {j \in Jobs : runs[j] > 0}
      BY <1>2, <2>4, <2>5, <2>6
    <3> QED  BY <1>1, <2>3, <3>1 DEF A!vars
  <2>7. CASE h \notin acked
    <3>1. Place(h) \in {"waiting", "wiped"}
      BY <2>1, <2>4, <2>7 DEF PlaceMeaning
    <3>2. A!Run(h)
      BY <1>1, <2>3, <2>4, <2>5, <3>1 DEF A!Run
    <3> QED  BY <2>4, <3>2 DEF A!Step
  <2> QED  BY <2>6, <2>7
<1>4. ASSUME NEW m \in Jobs, R!ReceiveAck(m) PROVE A!Step
  <2>1. /\ m \in acks /\ acked' = acked \cup {m} /\ runs' = runs
        /\ m \in Waiting
    BY <1>4 DEF R!ReceiveAck, Waiting, IInv, RP!IInv, RP!Answers, R!Elements, RP!Elements
  <2>2. Place(m) = "waiting" /\ Place(m)' = "done"
    BY <1>2, <2>1 DEF PlaceMeaning
  <2>3. \A j \in Jobs \ {m} : Place(j)' = Place(j)
    BY <1>1, <2>1, SamePlace
  <2>4. A!Moves({m}, "waiting", "done")
    BY <2>2, <2>3, Moved
  <2>5. A!Complete(m)
    BY <1>1, <1>2, <2>1, <2>4 DEF A!Complete
  <2> QED  BY <2>5 DEF A!Step
<1>5. CASE acked' = acked /\ runs' = runs
  BY <1>1, <1>5, PromiseStutters
<1> QED
  BY <1>3, <1>4, <1>5
     DEF Receiver, R!Broker, R!Deliver, R!Receive, R!SetUp, R!StartPlay,
         R!PlayRaises, R!OnConnectionClosed, R!CancelOk, R!ChannelCloseOk,
         R!ChannelClosed, R!LoseConnection, R!ConnectFails, R!Stop, R!SocketCloses,
         R!Restart, R!Requeue, R!brokerVars

LEMMA RestartPromise ==
    ASSUME IInv, Sequential, PlaceMeaning, PlaceMeaning', RestartBroker
    PROVE  A!Step
<1>1. /\ wiped' = wiped \cup Waiting /\ transit' = <<>>
      /\ UNCHANGED <<acked, published, issued, told, runs>>
  BY DEF RestartBroker, R!RestartBroker, Waiting
<1>2. InTransit' = {} /\ Published' = Published
  BY <1>1 DEF InTransit, Published
<1>3. /\ Published = Waiting \cup acked \cup wiped
      /\ Waiting \cap (acked \cup wiped) = {} /\ acked \cap wiped = {}
  BY DEF IInv, RP!IInv, RP!Kept, Published, Waiting, R!Elements, RP!Elements
<1>4. InTransit \cup Published \subseteq issued
  BY DEF Sequential, Numbered
<1>5. ASSUME NEW j \in Jobs
      PROVE  /\ Place(j) = "waiting" => Place(j)' = "wiped"
             /\ Place(j) = "sent" => Place(j)' = "lost"
             /\ Place(j) \notin {"waiting", "sent"} => Place(j)' = Place(j)
  BY <1>1, <1>2, <1>3, <1>4 DEF PlaceMeaning
<1>6. \A j \in Jobs : Place(j)' = CASE Place(j) = "waiting" -> "wiped"
                                    [] Place(j) = "sent" -> "lost"
                                    [] OTHER -> Place(j)
  BY <1>5
<1>7. A!Wipe
  BY <1>1, <1>6 DEF A!Wipe
<1> QED
  BY <1>7 DEF A!Step

LEMMA PromiseStep ==
    ASSUME IInv, IInv', Sequential, Next PROVE A!Step \/ UNCHANGED A!vars
<1>1. PlaceMeaning /\ PlaceMeaning'
  <2>1. RP!Kept => PlaceMeaning  BY Places
  <2>2. RP!Kept' => PlaceMeaning'  BY Places, PTL
  <2> QED  BY <2>1, <2>2 DEF IInv, RP!IInv
<1>2. transit \in Seq(Nat \X Nat) /\ Lined(transit) /\ InTransit \cup Published \subseteq issued
  BY DEF IInv, Linked, Sequential, Numbered
<1>3. CASE PublishMessage  BY <1>1, <1>3, PublishMessagePromise
<1>4. CASE OnDeliveryConfirmation  BY <1>1, <1>4, TellPromise
<1>5. CASE Receiver  BY <1>1, <1>5, ReceiverPromise
<1>6. CASE RestartBroker  BY <1>1, <1>6, RestartPromise
<1>7. ASSUME NEW j \in Jobs, Arrive(j) PROVE A!Step  BY <1>1, <1>7, ArrivePromise
<1>8. CASE \/ (P!Callback \/ P!Stop) /\ UNCHANGED <<receiverVars, transit, issued, told, refused>>
           \/ \E t \in 1 .. MaxNumber, m \in BOOLEAN : Confirm(t, m)
  <2>1. UNCHANGED <<receiverVars, transit, issued, told>>
    BY <1>8 DEF Confirm
  <2>2. UNCHANGED <<acked, wiped, Published, InTransit, issued, told, runs>>
    BY <2>1 DEF receiverVars, Published, InTransit
  <2> QED  BY <1>1, <2>2, PromiseStutters
<1>9. CASE OnChannelClosed \/ PublisherLosesConnection \/ \E t \in 1 .. MaxNumber : Refuse(t)
  <2>1. UNCHANGED <<receiverVars, issued, told>>
    BY <1>9 DEF OnChannelClosed, PublisherLosesConnection, Refuse, P!Confirm
  <2>2. UNCHANGED <<acked, wiped, Published, issued, told, runs>>
    BY <2>1 DEF receiverVars, Published
  <2>3. InTransit' \subseteq InTransit
    BY <1>2, <1>9, KeepingInOrder, LeavingInOrder
       DEF OnChannelClosed, PublisherLosesConnection, Refuse
  <2> QED  BY <1>1, <1>2, <2>2, <2>3, PromiseLoses
<1> QED
  BY <1>3, <1>4, <1>5, <1>6, <1>7, <1>8, <1>9 DEF Next, Publisher

\* The two programs and the broker together keep the promise of AtLeastOnce.
THEOREM Refinement == Spec => ImplementsAtLeastOnce
<1>1. Init => A!Init
  <2> SUFFICES ASSUME Init PROVE A!Init  OBVIOUS
  <2>1. /\ transit = <<>> /\ published = <<>> /\ queue = <<>> /\ unacked = <<>>
        /\ issued = {} /\ told = {} /\ acked = {} /\ wiped = {}
        /\ runs = [j \in Jobs |-> 0]
    BY DEF Init, R!Init
  <2>2. InTransit = {} /\ Waiting = {}
    BY <2>1 DEF InTransit, Waiting, R!Elements
  <2>3. \A j \in Jobs : Place(j) = "new"
    BY <2>1, <2>2 DEF Place, Arrived
  <2>4. {j \in Jobs : runs[j] > 0} = {}
    BY <2>1
  <2> QED  BY <2>1, <2>3, <2>4 DEF A!Init
<1>2. IInv /\ IInv' /\ Sequential /\ [Next]_vars => [A!Next]_A!vars
  <2> SUFFICES ASSUME IInv, IInv', Sequential, [Next]_vars PROVE A!Step \/ UNCHANGED A!vars
    BY StepIsNext
  <2>1. CASE Next  BY <2>1, PromiseStep
  <2>2. CASE UNCHANGED vars
    <3>1. UNCHANGED <<receiverVars, transit, issued, told>>  BY <2>2 DEF vars
    <3>2. UNCHANGED <<acked, wiped, Published, InTransit, issued, told, runs>>
      BY <3>1 DEF receiverVars, Published, InTransit
    <3>3. PlaceMeaning /\ PlaceMeaning'
      <4>1. RP!Kept => PlaceMeaning  BY Places
      <4>2. RP!Kept' => PlaceMeaning'  BY Places, PTL
      <4> QED  BY <4>1, <4>2 DEF IInv, RP!IInv
    <3> QED  BY <3>2, <3>3, PromiseStutters
  <2> QED  BY <2>1, <2>2
<1> QED
  BY <1>1, <1>2, Invariance, SequentialInvariance, PTL DEF Spec, ImplementsAtLeastOnce, A!Spec
=============================================================================
