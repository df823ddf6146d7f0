-------------------------- MODULE PublisherProofs --------------------------
(* Accounting of the publisher, for any number of messages and connections. *)
EXTENDS Publisher, FiniteSetTheorems, TLAPS

TagsOf(s) == {c.tag : c \in Elements(s)}

AllDifferent(s) == \A i, j \in 1 .. Len(s) : s[i].tag = s[j].tag => i = j

\* A connection exists between its opening and the end of its closing. Before the
\* publisher publishes, nothing is counted and no timeout is pending.
Phases ==
    /\ stage \in {"connect", "reopen"} <=> link = "none"
    /\ stage \in {"connect", "channel", "exchange", "queue", "bind"} =>
          timers = 0 /\ number = 0 /\ deliveries = {} /\ settled = {}
    /\ link # "up" => outstanding = {}
    /\ outstanding # {} \/ confirms # <<>> => stage \in {"publish", "close"}
    /\ stage = "publish" => timers = 1

\* A fault leaves a connection to open; a publisher told to stop opens none.
Spare ==
    /\ (~stopping /\ stage \in {"connect", "close", "reopen"}) \/ link = "down" =>
          connections < MaxConnections
    /\ stopping => stage = "close" \/ proc # "running"

\* No tag is answered twice: frames on their way are for different tags, which the
\* publisher still counts as unconfirmed and the broker is done with.
Answers ==
    /\ AllDifferent(confirms)
    /\ TagsOf(confirms) \cap outstanding = {}
    /\ TagsOf(confirms) \cap settled = {}
    /\ outstanding \cap settled = {}
    /\ stage = "publish" => TagsOf(confirms) \cup outstanding \cup settled \subseteq deliveries

IInv == TypeOK /\ Phases /\ Spare /\ Answers /\ CountersAddUp /\ DeliveriesAreUnconfirmed

-----------------------------------------------------------------------------
(* Frames on their way.                                                    *)

LEMMA EmptyTags == TagsOf(<<>>) = {} /\ AllDifferent(<<>>)
  BY DEF TagsOf, Elements, AllDifferent

\* A tag of a sequence of frames is the tag at some place.
LEMMA TagPlace ==
    ASSUME NEW s \in Seq(Frames), NEW t
    PROVE  t \in TagsOf(s) <=> \E i \in 1 .. Len(s) : s[i].tag = t
  BY DEF TagsOf, Elements

\* Sending a frame adds its tag.
LEMMA AppendTags ==
    ASSUME NEW s \in Seq(Frames), NEW c \in Frames, AllDifferent(s), c.tag \notin TagsOf(s)
    PROVE  /\ AllDifferent(Append(s, c))
           /\ TagsOf(Append(s, c)) = TagsOf(s) \cup {c.tag}
<1> DEFINE a == Append(s, c)
<1>1. /\ a \in Seq(Frames) /\ Len(a) = Len(s) + 1 /\ a[Len(s) + 1] = c
      /\ \A i \in 1 .. Len(s) : a[i] = s[i]
  OBVIOUS
<1> HIDE DEF a
<1>2. \A i \in 1 .. Len(s) : s[i].tag # c.tag
  BY TagPlace
<1>3. AllDifferent(a)
  BY <1>1, <1>2 DEF AllDifferent
<1>4. \A t : t \in TagsOf(a) <=> t \in TagsOf(s) \/ t = c.tag
  <2> TAKE t
  <2>1. t \in TagsOf(a) <=> \E i \in 1 .. Len(s) + 1 : a[i].tag = t
    BY <1>1, TagPlace
  <2>2. t \in TagsOf(s) <=> \E i \in 1 .. Len(s) : s[i].tag = t
    BY TagPlace
  <2> QED
    BY <1>1, <2>1, <2>2
<1> QED
  BY <1>3, <1>4 DEF a

\* Handling the first frame takes its tag away.
LEMMA TailTags ==
    ASSUME NEW s \in Seq(Frames), s # <<>>, AllDifferent(s)
    PROVE  /\ Tail(s) \in Seq(Frames) /\ AllDifferent(Tail(s))
           /\ Head(s).tag \in TagsOf(s)
           /\ TagsOf(Tail(s)) = TagsOf(s) \ {Head(s).tag}
<1> DEFINE r == Tail(s)
<1>1. /\ r \in Seq(Frames) /\ Len(s) = Len(r) + 1 /\ Head(s) = s[1] /\ Len(r) \in Nat
      /\ \A i \in 1 .. Len(r) : r[i] = s[i + 1]
  OBVIOUS
<1> HIDE DEF r
<1>2. AllDifferent(r)
  <2> SUFFICES ASSUME NEW i \in 1 .. Len(r), NEW j \in 1 .. Len(r), r[i].tag = r[j].tag
               PROVE  i = j
    BY DEF AllDifferent
  <2>1. s[i + 1].tag = s[j + 1].tag /\ i + 1 \in 1 .. Len(s) /\ j + 1 \in 1 .. Len(s)
    BY <1>1
  <2> QED
    BY <2>1 DEF AllDifferent
<1>3. Head(s).tag \in TagsOf(s)
  BY <1>1, TagPlace
<1>4. \A t : t \in TagsOf(r) <=> t \in TagsOf(s) /\ t # s[1].tag
  <2> TAKE t
  <2>1. t \in TagsOf(r) <=> \E i \in 1 .. Len(r) : s[i + 1].tag = t
    BY <1>1, TagPlace
  <2>2. t \in TagsOf(s) <=> \E i \in 1 .. Len(s) : s[i].tag = t
    BY TagPlace
  <2>3. ASSUME NEW i \in 1 .. Len(r), s[i + 1].tag = t
        PROVE  t \in TagsOf(s) /\ t # s[1].tag
    <3>1. i + 1 \in 1 .. Len(s) /\ 1 \in 1 .. Len(s) /\ i + 1 # 1
      BY <1>1
    <3> QED
      BY <2>2, <2>3, <3>1 DEF AllDifferent
  <2>4. ASSUME NEW i \in 1 .. Len(s), s[i].tag = t, t # s[1].tag
        PROVE  t \in TagsOf(r)
    <3>1. i - 1 \in 1 .. Len(r) /\ (i - 1) + 1 = i
      BY <1>1, <2>4
    <3> QED
      BY <2>1, <2>4, <3>1
  <2> QED
    BY <2>1, <2>2, <2>3, <2>4
<1> QED
  BY <1>1, <1>2, <1>3, <1>4 DEF r

\* Losing the frames behind the k-th loses their tags only.
LEMMA PrefixTags ==
    ASSUME NEW s \in Seq(Frames), NEW k \in 0 .. Len(s), AllDifferent(s)
    PROVE  /\ AllDifferent(SubSeq(s, 1, k))
           /\ TagsOf(SubSeq(s, 1, k)) \subseteq TagsOf(s)
<1> DEFINE p == SubSeq(s, 1, k)
<1>1. /\ p \in Seq(Frames) /\ Len(p) = k
      /\ \A i \in 1 .. k : p[i] = s[i]
  OBVIOUS
<1> HIDE DEF p
<1>2. AllDifferent(p)
  BY <1>1 DEF AllDifferent
<1>3. \A t : t \in TagsOf(p) => t \in TagsOf(s)
  BY <1>1, TagPlace
<1> QED
  BY <1>2, <1>3 DEF p

-----------------------------------------------------------------------------
(* The invariant.                                                          *)

LEMMA InitInv == Init => IInv
<1>1. Init => Cardinality(deliveries) = 0
  BY FS_EmptySet DEF Init
<1>2. Init => TypeOK
  <2>1. <<>> \in Seq(Frames)
    OBVIOUS
  <2>2. 0 \in 0 .. MaxNumber /\ 0 \in 0 .. MaxConnections /\ 0 \in 0 .. 0
    BY BoundsAssumption
  <2>3. \A S : {} \in SUBSET S
    OBVIOUS
  <2> QED
    BY <2>1, <2>2, <2>3 DEF Init, TypeOK
<1>3. Init => Phases /\ Spare /\ DeliveriesAreUnconfirmed
  BY BoundsAssumption DEF Init, Phases, Spare, DeliveriesAreUnconfirmed
<1>4. Init => Answers
  BY EmptyTags DEF Init, Answers
<1>5. Init => CountersAddUp
  BY <1>1 DEF Init, CountersAddUp
<1> QED
  BY <1>2, <1>3, <1>4, <1>5 DEF IInv

\* What the types say of frames and of the set of unconfirmed tags.
LEMMA Typed ==
    ASSUME TypeOK
    PROVE  /\ confirms \in Seq(Frames)
           /\ IsFiniteSet(deliveries) /\ Cardinality(deliveries) \in Nat
           /\ number \in Nat /\ number + 1 \notin deliveries
<1>1. number \in Nat /\ IsFiniteSet(1 .. number)
  BY BoundsAssumption, FS_Interval DEF TypeOK
<1>2. IsFiniteSet(deliveries) /\ Cardinality(deliveries) \in Nat
  BY <1>1, FS_Subset, FS_CardinalityType DEF TypeOK
<1> QED
  BY <1>1, <1>2 DEF TypeOK

\* The broker answers.
LEMMA ConfirmInv ==
    ASSUME IInv, NEW t \in Tags, NEW multiple \in BOOLEAN, Confirm(t, multiple)
    PROVE  IInv'
<1>1. PICK type \in {"ack", "nack"} :
          confirms' = Append(confirms, [type |-> type, tag |-> t])
  BY DEF Confirm
<1> DEFINE c == [type |-> type, tag |-> t]
           below == IF multiple THEN {u \in outstanding : u < t} ELSE {}
<1>2. /\ t \in outstanding /\ link = "up" /\ below \subseteq outstanding
      /\ outstanding' = outstanding \ (below \cup {t}) /\ settled' = settled \cup below
      /\ t \notin below
      /\ UNCHANGED <<link, connections, proc, stopping, stage, timers,
                     number, deliveries, acked, nacked>>
  BY DEF Confirm, connVars, countVars, IInv, TypeOK
<1>3. c \in Frames /\ c.tag = t
  BY DEF Frames
<1>4. confirms' \in Seq(Frames) /\ confirms' # <<>>
  BY <1>1, <1>3 DEF IInv, TypeOK
<1> HIDE DEF below
<1>5. TypeOK'
  <2>1. outstanding' \in SUBSET (1 .. number')
    BY <1>2 DEF IInv, TypeOK
  <2>2. settled' \in SUBSET Tags
    BY <1>2, BoundsAssumption DEF IInv, TypeOK, Tags
  <2> QED
    BY <1>2, <1>4, <2>1, <2>2 DEF IInv, TypeOK
<1>6. t \notin TagsOf(confirms) /\ AllDifferent(confirms)
  BY <1>2 DEF IInv, Answers
<1>7. AllDifferent(confirms') /\ TagsOf(confirms') = TagsOf(confirms) \cup {t}
  BY <1>1, <1>3, <1>6, Typed, AppendTags DEF IInv
<1>8. Phases' /\ Spare'
  BY <1>2 DEF IInv, Phases, Spare
<1>9. Answers'
  BY <1>2, <1>7 DEF IInv, Answers
<1>10. DeliveriesAreUnconfirmed'
  <2>1. ASSUME stage = "publish"
        PROVE  deliveries = outstanding \cup settled \cup TagsOf(confirms)
    BY <1>2, <2>1 DEF IInv, DeliveriesAreUnconfirmed, TagsOf
  <2>2. ASSUME stage = "publish"
        PROVE  deliveries' = outstanding' \cup settled' \cup TagsOf(confirms')
    BY <1>2, <1>7, <2>1, <2>2
  <2> QED
    BY <1>2, <2>2 DEF DeliveriesAreUnconfirmed, TagsOf
<1> QED
  BY <1>2, <1>5, <1>8, <1>9, <1>10 DEF IInv, CountersAddUp

\* The connection breaks.
LEMMA LoseConnectionInv ==
    ASSUME IInv, LoseConnection
    PROVE  IInv'
<1>1. PICK k \in 0 .. Len(confirms) : confirms' = SubSeq(confirms, 1, k)
  BY DEF LoseConnection
<1>2. /\ link = "up" /\ link' = "down" /\ outstanding' = {}
      /\ UNCHANGED <<connections, proc, stopping, stage, timers, number, deliveries,
                     acked, nacked, settled>>
  BY DEF LoseConnection, countVars
<1>3. confirms' \in Seq(Frames)
  BY <1>1 DEF IInv, TypeOK
<1>4. AllDifferent(confirms') /\ TagsOf(confirms') \subseteq TagsOf(confirms)
  BY <1>1, Typed, PrefixTags DEF IInv, Answers
<1>5. confirms' # <<>> => confirms # <<>>
  BY <1>1 DEF IInv, TypeOK
<1>6. TypeOK'
  BY <1>2, <1>3 DEF IInv, TypeOK
<1>7. Phases' /\ Answers'
  BY <1>2, <1>4, <1>5 DEF IInv, Phases, Answers
<1>8. Spare'
  BY <1>2 DEF IInv, Spare, LoseConnection, MayBreak
<1> QED
  BY <1>2, <1>6, <1>7, <1>8 DEF IInv, CountersAddUp, DeliveriesAreUnconfirmed

\* A message is published, or the timeout finds no channel.
LEMMA PublishInv ==
    ASSUME IInv, PublishMessage
    PROVE  IInv'
<1>1. /\ UNCHANGED <<connVars, acked, nacked, confirms, settled>>
      /\ UNCHANGED <<link, connections, proc, stopping, stage>>
  BY DEF PublishMessage, connVars
<1>2. CASE ~HasChannel /\ UNCHANGED <<number, deliveries, outstanding>> /\ timers' = timers - 1
  <2>1. TypeOK' /\ stage # "publish" /\ timers > 0
    BY <1>1, <1>2 DEF IInv, TypeOK, PublishMessage, HasChannel
  <2>2. Phases' /\ Spare'
    BY <1>1, <1>2, <2>1 DEF IInv, Phases, Spare, TypeOK
  <2> QED
    BY <1>1, <1>2, <2>1, <2>2 DEF IInv, Answers, CountersAddUp, DeliveriesAreUnconfirmed
<1>3. CASE /\ stage = "publish" /\ number < MaxNumber /\ UNCHANGED timers
           /\ number' = number + 1 /\ deliveries' = deliveries \cup {number + 1}
           /\ outstanding' = IF link = "up" THEN outstanding \cup {number + 1} ELSE outstanding
  <2>1. /\ number + 1 \notin deliveries /\ number \in Nat
        /\ Cardinality(deliveries') = Cardinality(deliveries) + 1
    BY <1>3, Typed, FS_AddElement DEF IInv
  <2>3. TypeOK'
    BY <1>1, <1>3, <2>1, BoundsAssumption DEF IInv, TypeOK
  <2>4. Phases' /\ Spare' /\ Answers'
    BY <1>1, <1>3, <2>1 DEF IInv, Phases, Spare, Answers
  <2>5. CountersAddUp'
    BY <1>1, <1>3, <2>1, Typed DEF IInv, CountersAddUp, TypeOK
  <2>6. DeliveriesAreUnconfirmed'
    BY <1>1, <1>3 DEF IInv, DeliveriesAreUnconfirmed
  <2> QED
    BY <2>3, <2>4, <2>5, <2>6 DEF IInv
<1> QED
  BY <1>2, <1>3 DEF PublishMessage

\* A confirmation is counted.
LEMMA ConfirmationInv ==
    ASSUME IInv, OnDeliveryConfirmation
    PROVE  IInv'
<1> DEFINE tag == Head(confirms).tag
<1>1. /\ stage = "publish" /\ confirms # <<>> /\ confirms' = Tail(confirms)
      /\ deliveries' = deliveries \ {tag}
      /\ UNCHANGED <<link, connections, proc, stopping, stage, timers, number,
                     outstanding, settled>>
  BY DEF OnDeliveryConfirmation, connVars
<1>2. confirms' \in Seq(Frames) /\ Head(confirms) \in Frames
  BY <1>1 DEF IInv, TypeOK
<1>3. /\ AllDifferent(confirms') /\ tag \in TagsOf(confirms)
      /\ TagsOf(confirms') = TagsOf(confirms) \ {tag}
  BY <1>1, Typed, TailTags DEF IInv, Answers
<1>4. /\ \/ acked' = acked + 1 /\ nacked' = nacked
         \/ acked' = acked /\ nacked' = nacked + 1
      /\ acked \in Nat /\ nacked \in Nat
  BY <1>2, BoundsAssumption DEF Frames, OnDeliveryConfirmation, IInv, TypeOK
<1> HIDE DEF tag
<1>5. /\ tag \in deliveries
      /\ Cardinality(deliveries') = Cardinality(deliveries) - 1
      /\ Cardinality(deliveries') \in Nat
  <2>1. tag \in deliveries
    BY <1>1, <1>3 DEF IInv, Answers
  <2> QED
    BY <1>1, <2>1, Typed, FS_RemoveElement, FS_CardinalityType DEF IInv
<1>6. acked' + nacked' + Cardinality(deliveries') = number
  <2>1. acked + nacked + Cardinality(deliveries) = number
    BY DEF IInv, CountersAddUp
  <2>2. number \in Nat /\ Cardinality(deliveries) \in Nat
    BY Typed DEF IInv
  <2> QED
    BY <1>4, <1>5, <2>1, <2>2
<1>7. acked' \in 0 .. number /\ nacked' \in 0 .. number
  <2>1. number \in Nat
    BY Typed DEF IInv
  <2> QED
    BY <1>4, <1>5, <1>6, <2>1
<1>8. TypeOK'
  BY <1>1, <1>2, <1>7 DEF IInv, TypeOK
<1>9. Phases' /\ Spare' /\ Answers'
  BY <1>1, <1>3 DEF IInv, Phases, Spare, Answers
<1>10. DeliveriesAreUnconfirmed'
  <2>1. ASSUME link = "up"
        PROVE  deliveries = outstanding \cup settled \cup TagsOf(confirms)
    BY <1>1, <2>1 DEF IInv, DeliveriesAreUnconfirmed, TagsOf
  <2>2. tag \notin outstanding /\ tag \notin settled
    BY <1>3 DEF IInv, Answers
  <2>3. ASSUME link = "up"
        PROVE  deliveries' = outstanding' \cup settled' \cup TagsOf(confirms')
    BY <1>1, <1>3, <2>1, <2>2, <2>3
  <2> QED
    BY <1>1, <2>3 DEF DeliveriesAreUnconfirmed, TagsOf
<1> QED
  BY <1>1, <1>6, <1>8, <1>9, <1>10 DEF IInv, CountersAddUp

\* Callbacks that open, close or reopen the connection.
LEMMA ConnectionInv ==
    ASSUME IInv, Callback \/ OnChannelClosed \/ Stop
    PROVE  IInv'
<1> USE DEF IInv, Spare, CountersAddUp
<1>1. CASE Connect
  <2>1. connections < MaxConnections /\ link = "none" /\ confirms = <<>>
    BY <1>1 DEF Connect, Waits, Running, Phases
  <2>2. TypeOK'
    BY <1>1, <2>1, BoundsAssumption DEF Connect, Waits, TypeOK, countVars, brokerVars
  <2>3. Phases' /\ Spare' /\ Answers' /\ DeliveriesAreUnconfirmed' /\ CountersAddUp'
    BY <1>1, <2>1 DEF Connect, Waits, Running, Phases, Answers, DeliveriesAreUnconfirmed,
       countVars, brokerVars
  <2> QED
    BY <2>2, <2>3
<1>2. CASE ConnectFails
  BY <1>2 DEF ConnectFails, TypeOK, Phases, Answers, DeliveriesAreUnconfirmed,
     countVars, brokerVars
<1>3. ASSUME NEW i \in 2 .. Len(Setup) - 1, SetUp(i) PROVE IInv'
  <2>1. /\ <<stage, stage'>> \in {<<"channel", "exchange">>, <<"exchange", "queue">>,
                                 <<"queue", "bind">>, <<"bind", "publish">>}
        /\ timers' = IF stage = "bind" THEN timers + 1 ELSE timers
        /\ link = "up" /\ UNCHANGED <<link, connections, proc, stopping>>
        /\ UNCHANGED <<number, deliveries, acked, nacked, outstanding, confirms, settled>>
    <3>1. i \in {2, 3, 4, 5} /\ Len(Setup) = 6
      BY <1>3 DEF Setup
    <3>2. stage = Setup[i] /\ stage' = Setup[i + 1]
      BY <1>3 DEF SetUp, Waits
    <3>3. <<stage, stage'>> \in {<<"channel", "exchange">>, <<"exchange", "queue">>,
                                 <<"queue", "bind">>, <<"bind", "publish">>}
      BY <3>1, <3>2 DEF Setup
    <3> QED
      BY <1>3, <3>2, <3>3 DEF SetUp, countVars, brokerVars
  <2>2. timers = 0 /\ deliveries = {} /\ settled = {} /\ outstanding = {} /\ confirms = <<>>
    BY <2>1 DEF Phases
  <2>3. TypeOK' /\ Phases'
    BY <2>1, <2>2 DEF TypeOK, Phases
  <2> QED
    BY <2>1, <2>2, <2>3, EmptyTags DEF Answers, DeliveriesAreUnconfirmed, TagsOf
<1>4. CASE OnConnectionClosed
  <2>1. /\ link' = "none" /\ outstanding' = {} /\ confirms' = <<>> /\ stage' = "reopen"
        /\ proc' \in {"running", "exited"} /\ (stopping => proc' = "exited")
        /\ link = "down" \/ stage = "close"
        /\ UNCHANGED <<connections, stopping, timers, number, deliveries, acked, nacked, settled>>
    BY <1>4 DEF OnConnectionClosed, AfterClose, countVars
  <2>2. TypeOK' /\ Spare'
    BY <2>1 DEF TypeOK
  <2> QED
    BY <2>1, <2>2, EmptyTags DEF Phases, Answers, DeliveriesAreUnconfirmed
<1>5. CASE Reopen
  <2>1. /\ stage = "reopen" /\ stage' = "connect" /\ ~stopping
        /\ timers' = 0 /\ number' = 0 /\ settled' = {}
        /\ deliveries' = {} /\ acked' = 0 /\ nacked' = 0
        /\ UNCHANGED <<link, connections, proc, stopping, outstanding, confirms>>
    BY <1>5 DEF Reopen, ReopenStage, NewLoop, ResetCounters
  <2>2. outstanding = {} /\ confirms = <<>>
    BY <2>1 DEF Phases
  <2>3. TypeOK' /\ Spare' /\ Phases'
    BY <2>1, <2>2, BoundsAssumption DEF TypeOK, Phases
  <2>4. CountersAddUp'
    BY <2>1, FS_EmptySet
  <2> QED
    BY <2>1, <2>2, <2>3, <2>4, EmptyTags DEF Answers, DeliveriesAreUnconfirmed
<1>6. CASE OnChannelClosed
  <2>1. /\ link = "up" /\ HasChannel /\ stage' = "close" /\ connections < MaxConnections
        /\ outstanding' = {} /\ confirms' = <<>>
        /\ UNCHANGED <<link, connections, proc, stopping, timers, number, deliveries,
                       acked, nacked, settled>>
    BY <1>6 DEF OnChannelClosed, MayBreak, countVars
  <2>2. TypeOK' /\ Spare'
    BY <2>1 DEF TypeOK
  <2> QED
    BY <2>1, <2>2, EmptyTags DEF HasChannel, Phases, Answers, DeliveriesAreUnconfirmed
<1>7. CASE Stop
  <2>1. /\ stopping' = TRUE
        /\ \/ link = "none" /\ proc' = "exited" /\ UNCHANGED stage
           \/ link # "none" /\ stage' = "close" /\ UNCHANGED proc
        /\ UNCHANGED <<link, connections, timers, number, deliveries, acked, nacked,
                       outstanding, confirms, settled>>
    BY <1>7 DEF Stop, countVars, brokerVars
  <2>2. TypeOK' /\ Spare'
    BY <2>1 DEF TypeOK
  <2> QED
    BY <2>1, <2>2 DEF Phases, Answers, DeliveriesAreUnconfirmed
<1> QED
  BY <1>1, <1>2, <1>3, <1>4, <1>5, <1>6, <1>7 DEF Callback

LEMMA NextInv == IInv /\ [Next]_vars => IInv'
<1> SUFFICES ASSUME IInv, [Next]_vars PROVE IInv'
  OBVIOUS
<1>1. CASE UNCHANGED vars
  BY <1>1 DEF vars, connVars, countVars, brokerVars, IInv, TypeOK, Phases, Spare, Answers,
     CountersAddUp, DeliveriesAreUnconfirmed
<1> QED
  BY <1>1, ConfirmInv, LoseConnectionInv, PublishInv, ConfirmationInv, ConnectionInv DEF Next

\* For any number of messages and connections: while the publisher publishes there
\* is exactly one pending timeout, the counters add up, and what counts as
\* unconfirmed is what the broker has not answered for its own tag.
THEOREM Accounting ==
    Spec => [](TypeOK /\ OneChain /\ CountersAddUp /\ DeliveriesAreUnconfirmed)
<1>1. IInv => OneChain
  BY DEF IInv, TypeOK, Phases, OneChain
<1>2. IInv => TypeOK /\ OneChain /\ CountersAddUp /\ DeliveriesAreUnconfirmed
  BY <1>1 DEF IInv
<1> QED
  BY InitInv, NextInv, <1>2, PTL DEF Spec

\* Every variable keeps its type, for any number of messages and connections.
THEOREM TypeCorrect == Spec => []TypeOK
  BY Accounting, PTL

\* A publisher with its channel set up has exactly one timeout of publish_message() pending.
THEOREM ChainIsSingle == Spec => []OneChain
  BY Accounting, PTL

\* _deliveries holds what the broker did not answer for its own tag, and nothing older.
THEOREM UnconfirmedIsExact == Spec => []DeliveriesAreUnconfirmed
  BY Accounting, PTL
=============================================================================
