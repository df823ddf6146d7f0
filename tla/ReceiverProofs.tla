-------------------------- MODULE ReceiverProofs --------------------------
(* No job of the boot queue is lost, repeated without a redelivery or run   *)
(* out of order, for any number of jobs and any prefetch window.            *)
EXTENDS Receiver, SequenceTheorems, TLAPS

Distinct(s) == \A i, j \in 1 .. Len(s) : s[i] = s[j] => i = j

\* What the receiver was given and has not answered.
Pending == Elements(inbox) \cup ({handling} \ {NoMessage})

\* NoJobLost, said of the two parts of the backlog.
Kept ==
    /\ Distinct(unacked) /\ Distinct(queue) /\ Elements(unacked) \cap Elements(queue) = {}
    /\ Elements(published) = Elements(unacked) \cup Elements(queue) \cup acked \cup wiped
    /\ (Elements(unacked) \cup Elements(queue)) \cap (acked \cup wiped) = {}
    /\ acked \cap wiped = {}
    /\ \A m \in acked \cup acks : runs[m] > 0

\* Without a connection nothing is unacknowledged, and one that is being closed carries
\* nothing. The receiver does not take anything from one connection to the next.
Channel ==
    /\ link # "up" \/ stage = "close" => unacked = <<>> /\ acks = {}
    /\ link = "none" \/ stage = "close" => inbox = <<>> /\ handling = NoMessage
    /\ proc # "running" => handling = NoMessage

\* A job is handed over and acknowledged once on every connection.
Answers ==
    /\ acks \subseteq Elements(unacked)
    /\ link = "up" => Pending \subseteq Elements(unacked) \ acks
    /\ Distinct(inbox) /\ handling \notin Elements(inbox)

\* What may still be run ran less often than RepeatsAreRedeliveries allows; what is in the
\* queue and left over from a broken connection has two runs in hand.
Redelivered ==
    /\ RepeatsAreRedeliveries
    /\ Pending \subseteq Elements(published)
    /\ \A m \in Messages : runs[m] > 0 => m \in Elements(published)
    /\ \A m \in Pending : runs[m] <= requeued[m]
    /\ \A m \in Elements(queue) :
          runs[m] <= requeued[m] /\ (m \in Pending => runs[m] < requeued[m])

IInv == TypeOK /\ Kept /\ Channel /\ Answers /\ Redelivered

-----------------------------------------------------------------------------
(* Sequences without repetition, and what they contain.                    *)

LEMMA EmptyElements == Elements(<<>>) = {} /\ Distinct(<<>>)
  BY DEF Elements, Distinct

LEMMA ElementsSubset == ASSUME NEW S, NEW s \in Seq(S) PROVE Elements(s) \subseteq S
  BY ElementOfSeq DEF Elements

\* What is not the first element is in the tail.
LEMMA TailElements ==
    ASSUME NEW S, NEW s \in Seq(S), s # <<>>, Distinct(s)
    PROVE  /\ Tail(s) \in Seq(S) /\ Head(s) \in Elements(s) /\ Distinct(Tail(s))
           /\ Elements(Tail(s)) = Elements(s) \ {Head(s)}
<1> DEFINE r == Tail(s)
<1>1. /\ r \in Seq(S) /\ Len(r) = Len(s) - 1 /\ Len(s) \in Nat \ {0} /\ Head(s) = s[1]
      /\ \A i \in 1 .. Len(r) : r[i] = s[i + 1]
  BY HeadTailProperties, EmptySeq, LenProperties
<1> HIDE DEF r
<1>2. Distinct(r)
  BY <1>1 DEF Distinct
<1>3. ASSUME NEW x \in Elements(r) PROVE x \in Elements(s) \ {s[1]}
  <2>1. PICK i \in 1 .. Len(r) : x = r[i]  BY <1>3 DEF Elements
  <2>2. i + 1 \in 1 .. Len(s) /\ 1 \in 1 .. Len(s) /\ i + 1 # 1 /\ x = s[i + 1]  BY <1>1, <2>1
  <2> QED  BY <2>2 DEF Elements, Distinct
<1>4. ASSUME NEW x \in Elements(s), x # s[1] PROVE x \in Elements(r)
  <2>1. PICK i \in 1 .. Len(s) : x = s[i]  BY <1>4 DEF Elements
  <2>2. i - 1 \in 1 .. Len(r) /\ r[i - 1] = x  BY <1>1, <1>4, <2>1
  <2> QED  BY <2>2 DEF Elements
<1>5. s[1] \in Elements(s)
  BY <1>1 DEF Elements
<1> QED
  BY <1>1, <1>2, <1>3, <1>4, <1>5 DEF r

\* An element that is new can be appended.
LEMMA AppendElements ==
    ASSUME NEW S, NEW s \in Seq(S), NEW x \in S
    PROVE  /\ Append(s, x) \in Seq(S) /\ Len(Append(s, x)) = Len(s) + 1
           /\ Elements(Append(s, x)) = Elements(s) \cup {x}
           /\ Distinct(s) /\ x \notin Elements(s) => Distinct(Append(s, x))
<1> DEFINE a == Append(s, x)
<1>1. /\ a \in Seq(S) /\ Len(a) = Len(s) + 1 /\ a[Len(s) + 1] = x /\ Len(s) \in Nat
      /\ \A i \in 1 .. Len(s) : a[i] = s[i]
  BY AppendProperties, LenProperties
<1> HIDE DEF a
<1>2. ASSUME NEW y \in Elements(a) PROVE y \in Elements(s) \cup {x}
  <2>1. PICK i \in 1 .. Len(a) : y = a[i]  BY <1>2 DEF Elements
  <2> QED  BY <1>1, <2>1 DEF Elements
<1>3. Elements(s) \cup {x} \subseteq Elements(a)
  <2>1. ASSUME NEW y \in Elements(s) PROVE y \in Elements(a)
    <3>1. PICK i \in 1 .. Len(s) : y = s[i]  BY <2>1 DEF Elements
    <3>2. i \in 1 .. Len(a) /\ a[i] = y  BY <1>1, <3>1
    <3> QED  BY <3>2 DEF Elements
  <2>2. x \in Elements(a)
    <3>1. Len(s) + 1 \in 1 .. Len(a)  BY <1>1
    <3> QED  BY <1>1, <3>1 DEF Elements
  <2> QED  BY <2>1, <2>2
<1>4. Distinct(s) /\ x \notin Elements(s) => Distinct(a)
  BY <1>1 DEF Distinct, Elements
<1> QED
  BY <1>1, <1>2, <1>3, <1>4 DEF a

\* Two sequences with nothing in common can be joined.
LEMMA ConcatElements ==
    ASSUME NEW S, NEW s \in Seq(S), NEW t \in Seq(S)
    PROVE  /\ s \o t \in Seq(S)
           /\ Elements(s \o t) = Elements(s) \cup Elements(t)
           /\ Distinct(s) /\ Distinct(t) /\ Elements(s) \cap Elements(t) = {} => Distinct(s \o t)
<1> DEFINE c == s \o t
<1>1. /\ c \in Seq(S) /\ Len(c) = Len(s) + Len(t) /\ Len(s) \in Nat /\ Len(t) \in Nat
      /\ \A i \in 1 .. Len(s) : c[i] = s[i]
      /\ \A i \in Len(s) + 1 .. Len(c) : i - Len(s) \in 1 .. Len(t) /\ c[i] = t[i - Len(s)]
  BY ConcatProperties, LenProperties
<1> HIDE DEF c
<1>2. ASSUME NEW x \in Elements(c) PROVE x \in Elements(s) \cup Elements(t)
  <2>1. PICK i \in 1 .. Len(c) : x = c[i]  BY <1>2 DEF Elements
  <2>2. i \in 1 .. Len(s) \/ i \in Len(s) + 1 .. Len(c)  BY <1>1
  <2> QED  BY <1>1, <2>1, <2>2 DEF Elements
<1>3. ASSUME NEW x \in Elements(s) PROVE x \in Elements(c)
  <2>1. PICK i \in 1 .. Len(s) : x = s[i]  BY <1>3 DEF Elements
  <2>2. i \in 1 .. Len(c) /\ c[i] = x  BY <1>1, <2>1
  <2> QED  BY <2>2 DEF Elements
<1>4. ASSUME NEW x \in Elements(t) PROVE x \in Elements(c)
  <2>1. PICK i \in 1 .. Len(t) : x = t[i]  BY <1>4 DEF Elements
  <2>2. Len(s) + i \in Len(s) + 1 .. Len(c) /\ Len(s) + i \in 1 .. Len(c)  BY <1>1
  <2>3. c[Len(s) + i] = x  BY <1>1, <2>1, <2>2
  <2> QED  BY <2>2, <2>3 DEF Elements
<1>5. ASSUME Distinct(s), Distinct(t), Elements(s) \cap Elements(t) = {} PROVE Distinct(c)
  <2> SUFFICES ASSUME NEW i \in 1 .. Len(c), NEW j \in 1 .. Len(c), c[i] = c[j] PROVE i = j
    BY DEF Distinct
  <2>1. /\ i \in 1 .. Len(s) \/ i \in Len(s) + 1 .. Len(c)
        /\ j \in 1 .. Len(s) \/ j \in Len(s) + 1 .. Len(c)
    BY <1>1
  <2>2. CASE i \in 1 .. Len(s) /\ j \in 1 .. Len(s)  BY <1>1, <1>5, <2>2 DEF Distinct
  <2>3. CASE i \in Len(s) + 1 .. Len(c) /\ j \in Len(s) + 1 .. Len(c)
    <3>1. i - Len(s) = j - Len(s)  BY <1>1, <1>5, <2>3 DEF Distinct
    <3> QED  BY <1>1, <3>1
  <2>4. CASE i \in 1 .. Len(s) /\ j \in Len(s) + 1 .. Len(c)
    <3>1. c[i] \in Elements(s)  BY <1>1, <2>4 DEF Elements
    <3>2. c[j] \in Elements(t)  BY <1>1, <2>4 DEF Elements
    <3> QED  BY <1>5, <3>1, <3>2
  <2>5. CASE j \in 1 .. Len(s) /\ i \in Len(s) + 1 .. Len(c)
    <3>1. c[j] \in Elements(s)  BY <1>1, <2>5 DEF Elements
    <3>2. c[i] \in Elements(t)  BY <1>1, <2>5 DEF Elements
    <3> QED  BY <1>5, <3>1, <3>2
  <2> QED  BY <2>1, <2>2, <2>3, <2>4, <2>5
<1> QED
  BY <1>1, <1>2, <1>3, <1>4, <1>5 DEF c

\* An acknowledgement takes one element out.
LEMMA DroppedElements ==
    ASSUME NEW S, NEW s \in Seq(S), NEW k \in 1 .. Len(s), Distinct(s)
    PROVE  /\ Dropped(s, k) \in Seq(S) /\ Len(Dropped(s, k)) = Len(s) - 1
           /\ Distinct(Dropped(s, k))
           /\ Elements(Dropped(s, k)) = Elements(s) \ {s[k]}
<1> DEFINE d == Dropped(s, k)
<1>1. Len(s) \in Nat \ {0} /\ k \in Nat /\ 1 <= k /\ k <= Len(s)
  BY LenProperties
<1>2. d \in [1 .. Len(s) - 1 -> S]
  BY <1>1, ElementOfSeq DEF Dropped
<1>3. /\ Len(s) - 1 \in Nat /\ d \in Seq(S) /\ Len(d) = Len(s) - 1
      /\ \A i \in 1 .. Len(d) : d[i] = IF i < k THEN s[i] ELSE s[i + 1]
  <2>1. Len(s) - 1 \in Nat  BY <1>1
  <2>2. d \in Seq(S)  BY <1>2, <2>1, SeqDef
  <2>3. DOMAIN d = 1 .. Len(d) /\ DOMAIN d = 1 .. Len(s) - 1 /\ Len(d) \in Nat
    BY <1>2, <2>2, LenProperties
  <2>4. Len(d) = Len(s) - 1  BY <2>1, <2>3
  <2> QED  BY <2>1, <2>2, <2>4 DEF Dropped
<1> HIDE DEF d
<1>4. Distinct(d)
  BY <1>1, <1>3 DEF Distinct
<1>5. ASSUME NEW x \in Elements(d) PROVE x \in Elements(s) \ {s[k]}
  <2>1. PICK i \in 1 .. Len(d) : x = d[i]  BY <1>5 DEF Elements
  <2>2. CASE i < k
    <3>1. i \in 1 .. Len(s) /\ x = s[i] /\ i # k  BY <1>1, <1>3, <2>1, <2>2
    <3> QED  BY <3>1 DEF Elements, Distinct
  <2>3. CASE ~(i < k)
    <3>1. i + 1 \in 1 .. Len(s) /\ x = s[i + 1] /\ i + 1 # k  BY <1>1, <1>3, <2>1, <2>3
    <3> QED  BY <3>1 DEF Elements, Distinct
  <2> QED  BY <2>2, <2>3
<1>6. ASSUME NEW x \in Elements(s), x # s[k] PROVE x \in Elements(d)
  <2>1. PICK i \in 1 .. Len(s) : x = s[i] /\ i # k  BY <1>6 DEF Elements
  <2>2. CASE i < k
    <3>1. i \in 1 .. Len(d) /\ d[i] = x  BY <1>1, <1>3, <2>1, <2>2
    <3> QED  BY <3>1 DEF Elements
  <2>3. CASE ~(i < k)
    <3>1. i - 1 \in 1 .. Len(d) /\ ~(i - 1 < k) /\ (i - 1) + 1 = i  BY <1>1, <1>3, <2>1, <2>3
    <3>2. d[i - 1] = x  BY <1>3, <2>1, <3>1
    <3> QED  BY <3>1, <3>2 DEF Elements
  <2> QED  BY <2>2, <2>3
<1> QED
  BY <1>3, <1>4, <1>5, <1>6 DEF d

\* A connection that breaks loses the last deliveries.
LEMMA PrefixElements ==
    ASSUME NEW S, NEW s \in Seq(S), NEW k \in 0 .. Len(s), Distinct(s)
    PROVE  /\ SubSeq(s, 1, k) \in Seq(S) /\ Distinct(SubSeq(s, 1, k))
           /\ Elements(SubSeq(s, 1, k)) \subseteq Elements(s)
<1> DEFINE p == SubSeq(s, 1, k)
<1>1. Len(s) \in Nat /\ k \in Nat /\ k <= Len(s) /\ \A i \in 1 .. k : s[i] \in S
  BY LenProperties, ElementOfSeq
<1>2. /\ p \in Seq(S) /\ Len(p) = k
      /\ \A i \in 1 .. k : p[i] = s[i]
  BY <1>1, SubSeqProperties
<1> HIDE DEF p
<1> QED
  BY <1>1, <1>2 DEF p, Distinct, Elements

-----------------------------------------------------------------------------
(* Steps that leave the broker alone.                                      *)

\* Of the messages in hand some may be forgotten.
LEMMA CalmInv ==
    ASSUME IInv, TypeOK', Channel', UNCHANGED <<brokerVars, acks, runs>>,
           inbox' \in {inbox, <<>>}, handling' \in {handling, NoMessage},
           link' = "up" => link = "up" \/ Pending = {}
    PROVE  IInv'
<1>1. Elements(<<>>) = {} /\ Distinct(<<>>)
  BY EmptyElements
<1>2. Elements(inbox') \subseteq Elements(inbox) /\ Distinct(inbox')
  BY <1>1 DEF IInv, Answers
<1>3. Pending' \subseteq Pending
  BY <1>2 DEF Pending
<1>4. Elements(inbox) \subseteq Messages
  BY ElementsSubset DEF IInv, TypeOK
<1>5. handling' \notin Elements(inbox')
  BY <1>2, <1>4, MessageAssumption DEF IInv, Answers
<1>6. Kept'
  BY DEF brokerVars, IInv, Kept
<1>7. Answers'
  BY <1>2, <1>3, <1>5 DEF brokerVars, IInv, Answers
<1>8. Redelivered'
  BY <1>3 DEF brokerVars, IInv, Redelivered, RepeatsAreRedeliveries
<1> QED
  BY <1>6, <1>7, <1>8 DEF IInv

\* The messages in hand stay in hand while one of them is being played.
LEMMA StartPlayInv == ASSUME IInv, StartPlay PROVE IInv'
<1>1. /\ inbox \in Seq(Messages) /\ inbox # <<>> /\ Distinct(inbox) /\ handling = NoMessage
      /\ handling' = Head(inbox) /\ inbox' = Tail(inbox) /\ stage = "consume"
      /\ proc = "running"
  BY DEF StartPlay, LoopIdle, IInv, TypeOK, Answers
<1>2. /\ inbox' \in Seq(Messages) /\ handling' \in Elements(inbox) /\ Distinct(inbox')
      /\ Elements(inbox') = Elements(inbox) \ {handling'}
  BY <1>1, TailElements
<1>3. Elements(inbox) \subseteq Messages /\ NoMessage \notin Elements(inbox)
  BY <1>1, ElementsSubset, MessageAssumption
<1>4. Pending' = Pending
  BY <1>1, <1>2, <1>3 DEF Pending
<1>5. TypeOK'
  BY <1>2, <1>3 DEF StartPlay, brokerVars, IInv, TypeOK
<1>6. Channel'
  BY <1>1 DEF StartPlay, brokerVars, IInv, Channel
<1>7. Kept'
  BY DEF StartPlay, brokerVars, IInv, Kept
<1>8. Answers'
  BY <1>2, <1>4 DEF StartPlay, brokerVars, IInv, Answers
<1>9. Redelivered'
  BY <1>4 DEF StartPlay, brokerVars, IInv, Redelivered, RepeatsAreRedeliveries
<1> QED
  BY <1>5, <1>6, <1>7, <1>8, <1>9 DEF IInv

\* A play that ends is counted, and acknowledged if the connection is up.
LEMMA EndPlayInv == ASSUME IInv, EndPlay PROVE IInv'
<1> DEFINE m == handling
<1>1. /\ m \in Messages /\ m \notin Elements(inbox) /\ m \in Pending
      /\ runs \in [Messages -> Nat] /\ requeued \in [Messages -> Nat]
  BY DEF EndPlay, IInv, TypeOK, Answers, Pending
<1>2. /\ runs' = [runs EXCEPT ![m] = runs[m] + 1]
      /\ handling' = NoMessage /\ UNCHANGED <<brokerVars, link, proc, starts, closing, stage, inbox>>
      /\ acks' = IF link = "up" THEN acks \cup {m} ELSE acks
  BY DEF EndPlay, Played, Ack
<1>3. /\ runs' \in [Messages -> Nat] /\ runs'[m] = runs[m] + 1
      /\ \A n \in Messages : n # m => runs'[n] = runs[n]
  BY <1>1, <1>2
<1>4. Pending' = Pending \ {m} /\ Pending \subseteq Messages
  <2>1. Elements(inbox) \subseteq Messages  BY ElementsSubset DEF IInv, TypeOK
  <2> QED  BY <1>1, <1>2, <2>1, MessageAssumption DEF Pending
<1> HIDE DEF m
<1>5. TypeOK'
  BY <1>1, <1>2, <1>3 DEF brokerVars, IInv, TypeOK
<1>6. Channel'
  <2>1. link # "none" /\ stage # "close"
    BY <1>1, MessageAssumption DEF IInv, Channel, m
  <2> QED  BY <1>2, <2>1 DEF brokerVars, IInv, Channel
<1>7. Kept'
  <2>1. \A n \in acked' \cup acks' : runs'[n] > 0
    BY <1>1, <1>2, <1>3 DEF brokerVars, IInv, Kept, TypeOK
  <2> QED  BY <1>2, <2>1 DEF brokerVars, IInv, Kept
<1>8. Answers'
  <2>1. NoMessage \notin Elements(inbox)
    BY ElementsSubset, MessageAssumption DEF IInv, TypeOK
  <2> QED  BY <1>1, <1>2, <1>4, <2>1 DEF brokerVars, IInv, Answers
<1>9. Redelivered'
  <2>1. runs[m] <= requeued[m] /\ (m \in Elements(queue) => runs[m] < requeued[m])
    BY <1>1 DEF IInv, Redelivered
  <2>2. RepeatsAreRedeliveries'
    BY <1>1, <1>2, <1>3, <2>1 DEF brokerVars, IInv, Redelivered, RepeatsAreRedeliveries
  <2>3. Elements(queue) \subseteq Messages
    BY ElementsSubset DEF IInv, TypeOK
  <2>4. \A n \in Elements(queue) :
            runs'[n] <= requeued[n] /\ (n \in Pending' => runs'[n] < requeued[n])
    BY <1>1, <1>3, <1>4, <2>1, <2>3 DEF IInv, Redelivered
  <2>5. \A n \in Pending' : runs'[n] <= requeued[n]
    BY <1>3, <1>4 DEF IInv, Redelivered
  <2>6. Pending' \subseteq Elements(published)
        /\ \A n \in Messages : runs'[n] > 0 => n \in Elements(published)
    BY <1>1, <1>3, <1>4 DEF IInv, Redelivered
  <2> QED  BY <1>2, <2>2, <2>4, <2>5, <2>6 DEF brokerVars, Redelivered
<1> QED
  BY <1>5, <1>6, <1>7, <1>8, <1>9 DEF IInv

\* The callbacks and faults that forget messages at most.
LEMMA CalmSteps ==
    ASSUME IInv,
           \/ \E i \in 1 .. Len(Setup) - 1 : SetUp(i)
           \/ ConnectFails \/ PlayRaises \/ OnConnectionClosed \/ Stop \/ CancelOk \/ Restart
    PROVE  IInv'
<1>0. link = "none" => Pending = {}
  BY EmptyElements DEF IInv, Channel, Pending
<1>1. ASSUME NEW i \in 1 .. Len(Setup) - 1, SetUp(i) PROVE IInv'
  <2>1. /\ stage' \in {"channel", "exchange", "queue", "bind", "consume"}
        /\ stage # "close" /\ (i = 1 \/ link = "up")
    BY <1>1 DEF SetUp, Setup
  <2>2. /\ UNCHANGED <<brokerVars, proc, starts, closing, handling, inbox, acks, runs>>
        /\ link' = "up" /\ (link = "up" \/ link = "none")
    BY <1>1 DEF SetUp
  <2>3. TypeOK'  BY <2>1, <2>2 DEF brokerVars, IInv, TypeOK
  <2>4. Channel'  BY <2>1, <2>2 DEF brokerVars, IInv, Channel
  <2> QED  BY <1>0, <2>2, <2>3, <2>4, CalmInv
<1>2. CASE ConnectFails
  <2>1. TypeOK'  BY <1>2 DEF ConnectFails, brokerVars, IInv, TypeOK
  <2>2. Channel'  BY <1>2 DEF ConnectFails, LoopIdle, brokerVars, IInv, Channel
  <2> QED  BY <1>2, <2>1, <2>2, CalmInv DEF ConnectFails
<1>3. CASE PlayRaises
  <2>1. TypeOK'  BY <1>3 DEF PlayRaises, brokerVars, IInv, TypeOK
  <2>2. Channel'  BY <1>3 DEF PlayRaises, brokerVars, IInv, Channel
  <2> QED  BY <1>3, <2>1, <2>2, CalmInv DEF PlayRaises
<1>4. CASE OnConnectionClosed
  <2>1. /\ UNCHANGED <<brokerVars, starts, closing, stage, handling, acks, runs>>
        /\ link' = "none" /\ inbox' = <<>> /\ proc' \in {"exited", "dead"}
        /\ handling = NoMessage /\ (link # "up" \/ stage = "close")
    BY <1>4 DEF OnConnectionClosed, LoopIdle, AfterClose
  <2>2. TypeOK'  BY <2>1 DEF brokerVars, IInv, TypeOK
  <2>3. Channel'  BY <2>1 DEF brokerVars, IInv, Channel
  <2> QED  BY <2>1, <2>2, <2>3, CalmInv
<1>5. CASE Stop
  <2>1. /\ UNCHANGED <<brokerVars, starts, link, acks, runs>>
        /\ closing' = TRUE /\ handling' = NoMessage /\ proc' \in {"running", "dead"}
        /\ inbox' = inbox \/ inbox' = <<>>
        /\ stage' = stage \/ (stage = "consume" /\ stage' = "cancel")
    BY <1>5 DEF Stop
  <2>2. TypeOK'
    <3>1. inbox' \in Seq(Messages)  BY <2>1, EmptySeq DEF IInv, TypeOK
    <3>2. stage' = stage \/ stage' = "cancel"  BY <2>1
    <3>3. closing' \in BOOLEAN  BY <2>1
    <3> QED  BY <2>1, <3>1, <3>2, <3>3 DEF brokerVars, IInv, TypeOK
  <2>3. Channel'  BY <2>1 DEF brokerVars, IInv, Channel
  <2> QED  BY <2>1, <2>2, <2>3, CalmInv
<1>6. CASE CancelOk
  <2>1. TypeOK'  BY <1>6 DEF CancelOk, brokerVars, IInv, TypeOK
  <2>2. Channel'  BY <1>6 DEF CancelOk, brokerVars, IInv, Channel
  <2> QED  BY <1>6, <2>1, <2>2, CalmInv DEF CancelOk
<1>7. CASE Restart
  <2>1. starts' \in 1 .. MaxStarts
    BY <1>7, StartAssumption DEF Restart, IInv, TypeOK
  <2>2. TypeOK'  BY <1>7, <2>1 DEF Restart, brokerVars, IInv, TypeOK
  <2>3. Channel'  BY <1>7 DEF Restart, brokerVars, IInv, Channel
  <2> QED  BY <1>7, <2>2, <2>3, CalmInv DEF Restart
<1> QED
  BY <1>1, <1>2, <1>3, <1>4, <1>5, <1>6, <1>7

-----------------------------------------------------------------------------
(* Steps of the broker.                                                    *)

\* A new message is at the end of the queue; it never ran.
LEMMA PublishInv == ASSUME IInv, NEW m \in Messages, Publish(m) PROVE IInv'
<1>1. /\ published' = Append(published, m) /\ queue' = Append(queue, m)
      /\ m \notin Elements(published)
      /\ UNCHANGED <<unacked, acked, wiped, requeued, link, procVars, inbox, acks, runs>>
  BY DEF Publish
<1>2. /\ published \in Seq(Messages) /\ queue \in Seq(Messages)
      /\ runs \in [Messages -> Nat] /\ requeued \in [Messages -> Nat]
  BY DEF IInv, TypeOK
<1>3. m \notin Elements(queue) \cup Elements(unacked) \cup acked \cup wiped \cup Pending
  BY <1>1 DEF IInv, Kept, Redelivered
<1>4. /\ published' \in Seq(Messages) /\ queue' \in Seq(Messages) /\ Distinct(queue')
      /\ Elements(published') = Elements(published) \cup {m}
      /\ Elements(queue') = Elements(queue) \cup {m}
  BY <1>1, <1>2, <1>3, AppendElements DEF IInv, Kept
<1>5. Pending' = Pending
  BY <1>1 DEF Pending, procVars
<1>6. TypeOK'
  BY <1>1, <1>4 DEF procVars, IInv, TypeOK
<1>7. Kept'
  BY <1>1, <1>3, <1>4 DEF IInv, Kept
<1>8. Channel' /\ Answers'
  BY <1>1, <1>5 DEF procVars, IInv, Channel, Answers
<1>9. Redelivered'
  <2>1. runs[m] <= requeued[m]
    BY <1>1, <1>2 DEF IInv, Redelivered
  <2> QED  BY <1>1, <1>3, <1>4, <1>5, <2>1 DEF IInv, Redelivered, RepeatsAreRedeliveries
<1> QED
  BY <1>6, <1>7, <1>8, <1>9 DEF IInv

\* A delivery is handed over at once; it was in nobody's hands before.
LEMMA DeliverInv == ASSUME IInv, Deliver PROVE IInv'
<1> DEFINE m == Head(queue)
<1>1. /\ queue' = Tail(queue) /\ unacked' = Append(unacked, m) /\ inbox' = Append(inbox, m)
      /\ link = "up" /\ stage = "consume" /\ queue # <<>> /\ Len(unacked) < Prefetch
      /\ UNCHANGED <<published, acked, wiped, requeued, link, procVars, acks, runs>>
  BY DEF Deliver, WindowOpen
<1>2. /\ queue \in Seq(Messages) /\ unacked \in Seq(Messages) /\ inbox \in Seq(Messages)
      /\ Distinct(queue) /\ Distinct(unacked) /\ Distinct(inbox)
  BY DEF IInv, TypeOK, Kept, Answers
<1>3. /\ m \in Elements(queue) /\ m \in Messages /\ queue' \in Seq(Messages)
      /\ Distinct(queue') /\ Elements(queue') = Elements(queue) \ {m}
  BY <1>1, <1>2, TailElements, ElementsSubset
<1> HIDE DEF m
<1>4. m \notin Elements(unacked) \cup acks \cup Pending
  BY <1>1, <1>3 DEF IInv, Kept, Answers
<1>5. /\ unacked' \in Seq(Messages) /\ Len(unacked') = Len(unacked) + 1 /\ Distinct(unacked')
      /\ Elements(unacked') = Elements(unacked) \cup {m}
      /\ inbox' \in Seq(Messages) /\ Distinct(inbox')
      /\ Elements(inbox') = Elements(inbox) \cup {m}
  <2>1. m \notin Elements(inbox)  BY <1>4 DEF Pending
  <2> QED  BY <1>1, <1>2, <1>3, <1>4, <2>1, AppendElements
<1>6. Pending' = Pending \cup {m}
  BY <1>1, <1>5 DEF Pending, procVars
<1>7. TypeOK'
  <2>1. Len(unacked') <= Prefetch
    BY <1>1, <1>2, <1>5, PrefetchAssumption, LenProperties
  <2> QED  BY <1>1, <1>3, <1>5, <2>1 DEF procVars, IInv, TypeOK
<1>8. Kept'
  BY <1>1, <1>3, <1>4, <1>5 DEF IInv, Kept
<1>9. Channel'
  BY <1>1 DEF procVars, IInv, Channel
<1>10. Answers'
  <2>1. m # handling  BY <1>3, <1>4, MessageAssumption DEF Pending
  <2> QED  BY <1>1, <1>4, <1>5, <1>6, <2>1 DEF procVars, IInv, Answers
<1>11. Redelivered'
  <2>1. m \in Elements(published)  BY <1>3 DEF IInv, Kept
  <2>2. runs[m] <= requeued[m]  BY <1>3 DEF IInv, Redelivered
  <2>3. RepeatsAreRedeliveries'
    BY <1>1 DEF IInv, Redelivered, RepeatsAreRedeliveries
  <2> QED  BY <1>1, <1>3, <1>6, <2>1, <2>2, <2>3 DEF IInv, Redelivered
<1> QED
  BY <1>7, <1>8, <1>9, <1>10, <1>11 DEF IInv

\* An acknowledgement that arrives removes a message that ran and is in nobody's hands.
LEMMA ReceiveAckInv == ASSUME IInv, NEW m \in Messages, ReceiveAck(m) PROVE IInv'
<1>1. /\ link = "up" /\ m \in acks /\ acks' = acks \ {m} /\ acked' = acked \cup {m}
      /\ UNCHANGED <<published, queue, wiped, requeued, link, procVars, inbox, runs>>
  BY DEF ReceiveAck
<1>2. PICK i \in 1 .. Len(unacked) : unacked[i] = m /\ unacked' = Dropped(unacked, i)
  BY DEF ReceiveAck
<1>3. unacked \in Seq(Messages) /\ Distinct(unacked)
  BY DEF IInv, TypeOK, Kept
<1>4. /\ unacked' \in Seq(Messages) /\ Len(unacked') = Len(unacked) - 1
      /\ Distinct(unacked') /\ Elements(unacked') = Elements(unacked) \ {m}
  BY <1>2, <1>3, DroppedElements
<1>5. Pending' = Pending /\ m \notin Pending /\ m \in Elements(unacked)
  BY <1>1 DEF Pending, procVars, IInv, Answers
<1>6. TypeOK'
  <2>1. Len(unacked') <= Prefetch
    BY <1>3, <1>4, PrefetchAssumption, LenProperties DEF IInv, TypeOK
  <2> QED  BY <1>1, <1>4, <2>1 DEF procVars, IInv, TypeOK
<1>7. Kept'
  BY <1>1, <1>4, <1>5 DEF IInv, Kept
<1>8. stage # "close"
  BY <1>1 DEF IInv, Channel
<1>9. Channel'
  BY <1>1, <1>8 DEF procVars, IInv, Channel
<1>10. Answers'
  BY <1>1, <1>4, <1>5 DEF procVars, IInv, Answers
<1>11. Redelivered'
  BY <1>1, <1>5 DEF IInv, Redelivered, RepeatsAreRedeliveries
<1> QED
  BY <1>6, <1>7, <1>9, <1>10, <1>11 DEF IInv

\* What goes back to the queue has one more run in hand.
LEMMA RequeueInv ==
    ASSUME IInv, Requeue, UNCHANGED <<handling, runs>>,
           inbox' \in Seq(Messages), Distinct(inbox'), Elements(inbox') \subseteq Elements(inbox),
           link' = "up" => Pending' = {},
           link' \in {"none", "up", "down"}, stage' \in {stage, "close"},
           UNCHANGED <<proc, starts, closing>>, Channel'
    PROVE  IInv'
<1>1. /\ queue' = unacked \o queue /\ unacked' = <<>> /\ acks' = {}
      /\ UNCHANGED <<published, acked, wiped>>
      /\ requeued' = [m \in Messages |->
                         requeued[m] + IF m \in Elements(unacked) THEN 1 ELSE 0]
  BY DEF Requeue
<1>2. /\ queue \in Seq(Messages) /\ unacked \in Seq(Messages)
      /\ runs \in [Messages -> Nat] /\ requeued \in [Messages -> Nat]
  BY DEF IInv, TypeOK
<1>3. /\ queue' \in Seq(Messages) /\ Distinct(queue')
      /\ Elements(queue') = Elements(unacked) \cup Elements(queue)
  BY <1>1, <1>2, ConcatElements DEF IInv, Kept
<1>4. /\ requeued' \in [Messages -> Nat]
      /\ \A m \in Messages : requeued'[m] >= requeued[m]
      /\ \A m \in Elements(unacked) : m \in Messages /\ requeued'[m] = requeued[m] + 1
  BY <1>1, <1>2, ElementsSubset
<1>5. unacked' \in Seq(Messages) /\ Len(unacked') = 0 /\ Distinct(unacked') /\ Elements(unacked') = {}
  BY <1>1, EmptySeq, EmptyElements
<1>6. Pending' \subseteq Pending /\ Pending \subseteq Messages
  <2>1. Elements(inbox) \subseteq Messages  BY ElementsSubset DEF IInv, TypeOK
  <2> QED  BY <2>1 DEF Pending, IInv, TypeOK
<1>7. TypeOK'
  BY <1>1, <1>3, <1>4, <1>5, PrefetchAssumption DEF IInv, TypeOK
<1>8. Kept'
  BY <1>1, <1>3, <1>5 DEF IInv, Kept
<1>9. Answers'
  BY <1>1 DEF IInv, Answers
<1>10. Redelivered'
  <2>1. \A m \in Elements(queue) : m \in Messages
    BY <1>2, ElementsSubset
  <2>2. RepeatsAreRedeliveries'
    BY <1>2, <1>4 DEF IInv, Redelivered, RepeatsAreRedeliveries
  <2>3. \A m \in Pending' : runs[m] <= requeued'[m]
    BY <1>2, <1>4, <1>6 DEF IInv, Redelivered
  <2>4. ASSUME NEW m \in Elements(queue')
        PROVE  runs[m] <= requeued'[m] /\ (m \in Pending' => runs[m] < requeued'[m])
    <3>1. CASE m \in Elements(unacked)
      <4>1. runs[m] <= 1 + requeued[m] /\ (m \in Pending' => runs[m] <= requeued[m])
        BY <1>4, <1>6, <3>1 DEF IInv, Redelivered, RepeatsAreRedeliveries
      <4> QED  BY <1>2, <1>4, <3>1, <4>1
    <3>2. CASE m \in Elements(queue)
      <4>1. runs[m] <= requeued[m] /\ (m \in Pending' => runs[m] < requeued[m])
        BY <1>6, <3>2 DEF IInv, Redelivered
      <4> QED  BY <1>2, <1>4, <2>1, <3>2, <4>1
    <3> QED  BY <1>3, <2>4, <3>1, <3>2
  <2> QED  BY <1>1, <1>6, <2>2, <2>3, <2>4 DEF IInv, Redelivered
<1> QED
  BY <1>7, <1>8, <1>9, <1>10 DEF IInv

\* A restart of the broker empties the queue.
LEMMA RestartBrokerInv == ASSUME IInv, RestartBroker PROVE IInv'
<1>1. /\ wiped' = wiped \cup Elements(queue) \cup Elements(unacked)
      /\ queue' = <<>> /\ unacked' = <<>> /\ acks' = {} /\ link' \in {"none", "down"}
      /\ link = "none" <=> link' = "none"
      /\ UNCHANGED <<published, acked, requeued, procVars, inbox, runs>>
  BY DEF RestartBroker, IInv, TypeOK
<1>2. /\ Elements(queue') = {} /\ Distinct(queue') /\ Elements(unacked') = {}
      /\ Distinct(unacked') /\ Len(unacked') = 0
  BY <1>1, EmptyElements, EmptySeq
<1>3. Elements(queue) \subseteq Messages /\ Elements(unacked) \subseteq Messages
  BY ElementsSubset DEF IInv, TypeOK
<1>4. Pending' = Pending
  BY <1>1 DEF Pending, procVars
<1>5. TypeOK'
  <2>1. wiped' \in SUBSET Messages  BY <1>1, <1>3 DEF IInv, TypeOK
  <2>2. queue' \in Seq(Messages) /\ unacked' \in Seq(Messages)  BY <1>1, EmptySeq
  <2> QED  BY <1>1, <1>2, <2>1, <2>2, PrefetchAssumption DEF procVars, IInv, TypeOK
<1>6. Kept'
  BY <1>1, <1>2 DEF IInv, Kept
<1>7. Channel'
  BY <1>1 DEF procVars, IInv, Channel
<1>8. Answers'
  BY <1>1 DEF procVars, IInv, Answers
<1>9. Redelivered'
  BY <1>1, <1>2, <1>4 DEF IInv, Redelivered, RepeatsAreRedeliveries
<1> QED
  BY <1>5, <1>6, <1>7, <1>8, <1>9 DEF IInv

\* The steps that make the broker take its messages back.
LEMMA RequeueSteps ==
    ASSUME IInv, LoseConnection \/ ChannelClosed \/ SocketCloses
    PROVE  IInv'
<1>1. inbox \in Seq(Messages) /\ Distinct(inbox)
  BY DEF IInv, TypeOK, Answers
<1>2. <<>> \in Seq(Messages) /\ Distinct(<<>>) /\ Elements(<<>>) = {}
  BY EmptySeq, EmptyElements
<1>3. CASE LoseConnection
  <2>1. PICK k \in 0 .. Len(inbox) : inbox' = SubSeq(inbox, 1, k)
    BY <1>3 DEF LoseConnection
  <2>2. /\ inbox' \in Seq(Messages) /\ Distinct(inbox')
        /\ Elements(inbox') \subseteq Elements(inbox)
    BY <1>1, <2>1, PrefixElements
  <2>3. /\ link = "up" /\ link' = "down" /\ Requeue /\ unacked' = <<>> /\ acks' = {}
        /\ UNCHANGED <<procVars, runs>>
    BY <1>3 DEF LoseConnection, Requeue
  <2>4. Channel'
    <3>1. stage # "close" \/ inbox' = <<>>
      <4>1. stage = "close" => inbox = <<>>  BY DEF IInv, Channel
      <4>2. inbox = <<>> => k = 0  BY <2>1, EmptySeq
      <4>3. k = 0 => inbox' = <<>>  BY <2>1, SubSeqEmpty
      <4> QED  BY <4>1, <4>2, <4>3
    <3> QED  BY <2>3, <3>1 DEF procVars, IInv, Channel
  <2> QED  BY <2>2, <2>3, <2>4, RequeueInv DEF procVars
<1>4. CASE ChannelClosed
  <2>1. /\ handling = NoMessage /\ link = "up" /\ stage' = "close" /\ inbox' = <<>> /\ Requeue
        /\ UNCHANGED <<link, proc, starts, closing, handling, runs>>
        /\ unacked' = <<>> /\ acks' = {}
    BY <1>4 DEF ChannelClosed, LoopIdle, Requeue
  <2>2. Pending' = {}  BY <1>2, <2>1 DEF Pending
  <2>3. Channel'  BY <2>1 DEF IInv, Channel
  <2> QED  BY <1>2, <2>1, <2>2, <2>3, RequeueInv
<1>5. CASE SocketCloses
  <2>1. /\ proc # "running" /\ link' = "none" /\ inbox' = <<>> /\ Requeue
        /\ UNCHANGED <<procVars, runs>> /\ unacked' = <<>> /\ acks' = {}
    BY <1>5 DEF SocketCloses, Requeue
  <2>2. Channel'  BY <2>1 DEF procVars, IInv, Channel
  <2> QED  BY <1>2, <2>1, <2>2, RequeueInv DEF procVars
<1> QED
  BY <1>3, <1>4, <1>5

-----------------------------------------------------------------------------

LEMMA InitInv == Init => IInv
<1> SUFFICES ASSUME Init PROVE IInv  OBVIOUS
<1>1. /\ <<>> \in Seq(Messages) /\ Len(<<>>) = 0
      /\ Elements(<<>>) = {} /\ Distinct(<<>>)
  BY EmptySeq, EmptyElements
<1>2. TypeOK
  <2>1. starts \in 1 .. MaxStarts /\ Len(unacked) <= Prefetch
    BY <1>1, PrefetchAssumption, StartAssumption DEF Init
  <2>2. requeued \in [Messages -> Nat] /\ runs \in [Messages -> Nat]  BY DEF Init
  <2>3. closing \in BOOLEAN  BY DEF Init
  <2> QED  BY <1>1, <2>1, <2>2, <2>3 DEF Init, TypeOK
<1>3. Pending = {}  BY <1>1 DEF Init, Pending
<1>4. Kept /\ Channel  BY <1>1 DEF Init, Kept, Channel
<1>5. Answers  BY <1>1, <1>3 DEF Init, Answers
<1>6. Redelivered  BY <1>1, <1>3 DEF Init, Redelivered, RepeatsAreRedeliveries
<1> QED  BY <1>2, <1>4, <1>5, <1>6 DEF IInv

LEMMA NextInv == IInv /\ [Next]_vars => IInv'
<1> SUFFICES ASSUME IInv, [Next]_vars PROVE IInv'  OBVIOUS
<1>1. CASE Broker  BY <1>1, DeliverInv, ReceiveAckInv DEF Broker
<1>2. CASE Receive
  BY <1>2, CalmSteps, StartPlayInv, EndPlayInv, RequeueSteps DEF Receive, ChannelCloseOk
<1>3. CASE Fault
  BY <1>3, CalmSteps, RestartBrokerInv, RequeueSteps DEF Fault
<1>4. CASE Stop \/ SocketCloses \/ Restart  BY <1>4, CalmSteps, RequeueSteps
<1>5. CASE \E m \in Messages : Publish(m)  BY <1>5, PublishInv
<1>6. CASE UNCHANGED vars
  <2>1. TypeOK' /\ Channel'
    BY <1>6 DEF vars, brokerVars, procVars, IInv, TypeOK, Channel
  <2> QED  BY <1>6, <2>1, CalmInv DEF vars, procVars
<1> QED  BY <1>1, <1>2, <1>3, <1>4, <1>5, <1>6 DEF Next

\* The invariant of the queue and the receiver holds in every reachable state.
THEOREM Invariance == Spec => []IInv
  BY InitInv, NextInv, PTL DEF Spec

\* Every variable keeps its type, and the prefetch window is never exceeded.
THEOREM TypeCorrect == Spec => []TypeOK
<1>1. IInv => TypeOK
  BY DEF IInv
<1> QED
  BY <1>1, Invariance, PTL

\* No job is lost, kept twice, or acknowledged before it ran, through broken connections,
\* closed channels, interrupts and restarts of the program.
THEOREM JobsAreKept == Spec => []NoJobLost
<1>1. IInv => NoJobLost
  <2> SUFFICES ASSUME IInv PROVE NoJobLost  OBVIOUS
  <2>1. unacked \in Seq(Messages) /\ queue \in Seq(Messages)
    BY DEF IInv, TypeOK
  <2>2. Distinct(Backlog) /\ Elements(Backlog) = Elements(unacked) \cup Elements(queue)
    BY <2>1, ConcatElements DEF IInv, Kept, Backlog
  <2>3. \A i, j \in 1 .. Len(Backlog) : Backlog[i] = Backlog[j] => i = j
    BY <2>2 DEF Distinct
  <2> QED  BY <2>2, <2>3 DEF IInv, Kept, NoJobLost
<1> QED
  BY <1>1, Invariance, PTL

\* A job runs once more than it went back to the queue at most.
THEOREM RepeatsHaveACause == Spec => []RepeatsAreRedeliveries
<1>1. IInv => RepeatsAreRedeliveries
  BY DEF IInv, Redelivered
<1> QED
  BY <1>1, Invariance, PTL
-----------------------------------------------------------------------------
(* Jobs run for the first time in the order in which they were published,  *)
(* for any number of jobs and any prefetch window.                         *)

Precedes(s, k, m) == \E i, j \in 1 .. Len(s) : i < j /\ s[i] = k /\ s[j] = m

Done(k) == runs[k] > 0 \/ k \in wiped

\* The broker keeps the order of publication, through deliveries and requeues.
Queued ==
    \A k, m \in Messages :
        Precedes(published, k, m) /\ m \in Elements(unacked) \cup Elements(queue) =>
            \/ k \in acked \cup wiped
            \/ Precedes(unacked, k, m) \/ Precedes(queue, k, m)
            \/ k \in Elements(unacked) /\ m \in Elements(queue)

\* What the receiver has in hand is in order too, and what it does not have any more ran.
HandedOver ==
    proc = "running" =>
        \A k, m \in Messages :
            Precedes(published, k, m) =>
                /\ m = handling => Done(k)
                /\ m \in Elements(inbox) => Done(k) \/ k = handling \/ Precedes(inbox, k, m)

\* A receiver that consumes ran what it was given on this connection or has it in hand; before
\* it consumes it has nothing.
Consumed ==
    /\ Pending # {} => stage = "consume"
    /\ stage \in {"connect", "channel", "exchange", "queue", "bind"} => unacked = <<>>
    /\ stage = "consume" /\ proc = "running" =>
          \A m \in Elements(unacked) : runs[m] > 0 \/ m \in Pending

FirstRuns ==
    \A k, m \in Messages : Precedes(published, k, m) /\ runs[m] > 0 => Done(k)

OrderInv == Queued /\ HandedOver /\ Consumed /\ FirstRuns

-----------------------------------------------------------------------------
(* The order of a sequence, and what the operations on it keep.            *)

LEMMA PrecedesElements ==
    ASSUME NEW s, NEW k, NEW m, Precedes(s, k, m)
    PROVE  k \in Elements(s) /\ m \in Elements(s)
  BY DEF Precedes, Elements

LEMMA AppendPrecedes ==
    ASSUME NEW S, NEW s \in Seq(S), NEW x \in S, NEW k, NEW m
    PROVE  /\ Precedes(s, k, m) => Precedes(Append(s, x), k, m)
           /\ k \in Elements(s) => Precedes(Append(s, x), k, x)
           /\ Precedes(Append(s, x), k, m) =>
                Precedes(s, k, m) \/ (m = x /\ k \in Elements(s))
<1> DEFINE a == Append(s, x)
<1>1. /\ Len(a) = Len(s) + 1 /\ a[Len(s) + 1] = x /\ Len(s) \in Nat
      /\ \A i \in 1 .. Len(s) : a[i] = s[i]
  BY AppendProperties, LenProperties
<1> HIDE DEF a
<1>2. ASSUME Precedes(s, k, m) PROVE Precedes(a, k, m)
  <2>1. PICK i, j \in 1 .. Len(s) : i < j /\ s[i] = k /\ s[j] = m  BY <1>2 DEF Precedes
  <2>2. i \in 1 .. Len(a) /\ j \in 1 .. Len(a) /\ a[i] = k /\ a[j] = m  BY <1>1, <2>1
  <2> QED  BY <2>1, <2>2 DEF Precedes
<1>3. ASSUME k \in Elements(s) PROVE Precedes(a, k, x)
  <2>1. PICK i \in 1 .. Len(s) : s[i] = k  BY <1>3 DEF Elements
  <2>2. /\ i \in 1 .. Len(a) /\ Len(s) + 1 \in 1 .. Len(a) /\ i < Len(s) + 1 /\ a[i] = k
        /\ a[Len(s) + 1] = x
    BY <1>1, <2>1
  <2> QED  BY <2>2 DEF Precedes
<1>4. ASSUME Precedes(a, k, m), ~Precedes(s, k, m) PROVE m = x /\ k \in Elements(s)
  <2>1. PICK i, j \in 1 .. Len(a) : i < j /\ a[i] = k /\ a[j] = m  BY <1>4 DEF Precedes
  <2>2. i \in 1 .. Len(s) /\ s[i] = k  BY <1>1, <2>1
  <2>3. j \notin 1 .. Len(s)  BY <1>1, <1>4, <2>1, <2>2 DEF Precedes
  <2>4. j = Len(s) + 1  BY <1>1, <2>3
  <2> QED  BY <1>1, <2>1, <2>2, <2>4 DEF Elements
<1> QED
  BY <1>2, <1>3, <1>4 DEF a

LEMMA TailPrecedes ==
    ASSUME NEW S, NEW s \in Seq(S), s # <<>>, Distinct(s), NEW k, NEW m, Precedes(s, k, m)
    PROVE  m # Head(s) /\ (k = Head(s) \/ Precedes(Tail(s), k, m))
<1> DEFINE r == Tail(s)
<1>1. /\ Len(r) = Len(s) - 1 /\ Len(s) \in Nat \ {0} /\ Head(s) = s[1]
      /\ \A i \in 1 .. Len(r) : r[i] = s[i + 1]
  BY HeadTailProperties, EmptySeq, LenProperties
<1> HIDE DEF r
<1>2. PICK i, j \in 1 .. Len(s) : i < j /\ s[i] = k /\ s[j] = m  BY DEF Precedes
<1>3. m # s[1]
  <2>1. 1 \in 1 .. Len(s) /\ j # 1  BY <1>1, <1>2
  <2> QED  BY <1>2, <2>1 DEF Distinct
<1>4. ASSUME k # s[1] PROVE Precedes(r, k, m)
  <2>1. i # 1  BY <1>2, <1>4
  <2>2. /\ i - 1 \in 1 .. Len(r) /\ j - 1 \in 1 .. Len(r) /\ i - 1 < j - 1
        /\ (i - 1) + 1 = i /\ (j - 1) + 1 = j
    BY <1>1, <1>2, <2>1
  <2>3. r[i - 1] = k /\ r[j - 1] = m  BY <1>1, <1>2, <2>2
  <2> QED  BY <2>2, <2>3 DEF Precedes
<1> QED
  BY <1>1, <1>3, <1>4 DEF r

LEMMA ConcatPrecedes ==
    ASSUME NEW S, NEW s \in Seq(S), NEW t \in Seq(S), NEW k, NEW m,
           Precedes(s, k, m) \/ Precedes(t, k, m) \/ (k \in Elements(s) /\ m \in Elements(t))
    PROVE  Precedes(s \o t, k, m)
<1> DEFINE c == s \o t
<1>1. /\ Len(c) = Len(s) + Len(t) /\ Len(s) \in Nat /\ Len(t) \in Nat
      /\ \A i \in 1 .. Len(s) : i \in 1 .. Len(c) /\ c[i] = s[i]
  BY ConcatProperties, LenProperties
<1>2. \A i \in 1 .. Len(t) : Len(s) + i \in 1 .. Len(c) /\ c[Len(s) + i] = t[i]
  <2>1. \A i \in Len(s) + 1 .. Len(c) : c[i] = t[i - Len(s)]
    BY ConcatProperties
  <2> HIDE DEF c
  <2> QED  BY <1>1, <2>1
<1> HIDE DEF c
<1>3. CASE Precedes(s, k, m)
  <2>1. PICK i, j \in 1 .. Len(s) : i < j /\ s[i] = k /\ s[j] = m  BY <1>3 DEF Precedes
  <2>2. Precedes(c, k, m)  BY <1>1, <2>1 DEF Precedes
  <2> QED  BY <2>2 DEF c
<1>4. CASE Precedes(t, k, m)
  <2>1. PICK i, j \in 1 .. Len(t) : i < j /\ t[i] = k /\ t[j] = m  BY <1>4 DEF Precedes
  <2>2. Len(s) + i < Len(s) + j  BY <1>1, <2>1
  <2>3. Precedes(c, k, m)  BY <1>2, <2>1, <2>2 DEF Precedes
  <2> QED  BY <2>3 DEF c
<1>5. CASE k \in Elements(s) /\ m \in Elements(t)
  <2>1. PICK i \in 1 .. Len(s) : s[i] = k  BY <1>5 DEF Elements
  <2>2. PICK j \in 1 .. Len(t) : t[j] = m  BY <1>5 DEF Elements
  <2>3. i < Len(s) + j  BY <1>1, <2>1, <2>2
  <2>4. Precedes(c, k, m)  BY <1>1, <1>2, <2>1, <2>2, <2>3 DEF Precedes
  <2> QED  BY <2>4 DEF c
<1> QED
  BY <1>3, <1>4, <1>5

LEMMA DroppedPrecedes ==
    ASSUME NEW S, NEW s \in Seq(S), NEW n \in 1 .. Len(s), Distinct(s), NEW k, NEW m,
           Precedes(s, k, m), k # s[n], m # s[n]
    PROVE  Precedes(Dropped(s, n), k, m)
<1> DEFINE d == Dropped(s, n)
<1>1. Len(d) = Len(s) - 1  BY DroppedElements
<1>2. Len(s) \in Nat \ {0} /\ n \in Nat  BY LenProperties
<1>3. \A i \in 1 .. Len(s) - 1 : d[i] = IF i < n THEN s[i] ELSE s[i + 1]
  BY DEF Dropped
<1> HIDE DEF d
<1>4. PICK i, j \in 1 .. Len(s) : i < j /\ s[i] = k /\ s[j] = m  BY DEF Precedes
<1> DEFINE at(u) == IF u < n THEN u ELSE u - 1
<1>5. \A u \in 1 .. Len(s) : u # n => at(u) \in 1 .. Len(d) /\ d[at(u)] = s[u]
  <2> SUFFICES ASSUME NEW u \in 1 .. Len(s), u # n
               PROVE  at(u) \in 1 .. Len(d) /\ d[at(u)] = s[u]
    OBVIOUS
  <2>1. CASE u < n  BY <1>1, <1>2, <1>3, <2>1
  <2>2. CASE ~(u < n)
    <3>1. u - 1 \in 1 .. Len(s) - 1 /\ ~(u - 1 < n) /\ (u - 1) + 1 = u  BY <1>2, <2>2
    <3> QED  BY <1>1, <1>3, <2>2, <3>1
  <2> QED  BY <2>1, <2>2
<1>6. i # n /\ j # n  BY <1>4
<1>7. at(i) < at(j)  BY <1>2, <1>4, <1>6
<1> HIDE DEF at
<1>8. Precedes(d, k, m)  BY <1>4, <1>5, <1>6, <1>7 DEF Precedes
<1> QED
  BY <1>8 DEF d

LEMMA PrefixPrecedes ==
    ASSUME NEW S, NEW s \in Seq(S), NEW n \in 0 .. Len(s), Distinct(s), NEW k, NEW m,
           Precedes(s, k, m), m \in Elements(SubSeq(s, 1, n))
    PROVE  Precedes(SubSeq(s, 1, n), k, m)
<1> DEFINE p == SubSeq(s, 1, n)
<1>1. Len(s) \in Nat /\ n \in Nat /\ n <= Len(s) /\ \A i \in 1 .. n : s[i] \in S
  BY LenProperties, ElementOfSeq
<1>2. Len(p) = n /\ \A i \in 1 .. n : p[i] = s[i]
  BY <1>1, SubSeqProperties
<1>3. m \in Elements(p)  OBVIOUS
<1> HIDE DEF p
<1>4. PICK i, j \in 1 .. Len(s) : i < j /\ s[i] = k /\ s[j] = m  BY DEF Precedes
<1>5. PICK u \in 1 .. n : p[u] = m  BY <1>2, <1>3 DEF Elements
<1>6. u = j  BY <1>1, <1>2, <1>4, <1>5 DEF Distinct
<1>7. i \in 1 .. n /\ p[i] = k  BY <1>1, <1>2, <1>4, <1>6
<1>8. Precedes(p, k, m)  BY <1>2, <1>4, <1>5, <1>6, <1>7 DEF Precedes
<1> QED
  BY <1>8 DEF p

-----------------------------------------------------------------------------
(* Steps that leave the broker alone.                                      *)

\* An empty hand is in order.
LEMMA EmptyHand ==
    ASSUME inbox' = <<>>, handling' = NoMessage
    PROVE  HandedOver' /\ Pending' = {}
<1>1. Elements(inbox') = {}
  BY EmptyElements
<1> QED
  BY <1>1, MessageAssumption DEF HandedOver, Pending

\* Without anything in hand the inbox is empty.
LEMMA NothingPending ==
    ASSUME IInv, Pending = {} PROVE inbox = <<>> /\ handling = NoMessage
<1>1. handling = NoMessage /\ Elements(inbox) = {}
  BY DEF Pending
<1>2. inbox \in Seq(Messages)
  BY DEF IInv, TypeOK
<1>3. inbox # <<>> => inbox[1] \in Elements(inbox)
  <2>1. inbox # <<>> => 1 \in 1 .. Len(inbox)  BY <1>2, EmptySeq, LenProperties
  <2> QED  BY <2>1 DEF Elements
<1> QED
  BY <1>1, <1>3

LEMMA CalmOrder ==
    ASSUME OrderInv, UNCHANGED <<published, queue, unacked, acked, wiped, runs>>,
           HandedOver', Consumed'
    PROVE  OrderInv'
  BY DEF OrderInv, Queued, FirstRuns, Done

LEMMA CalmOrderSteps ==
    ASSUME IInv, OrderInv,
           \/ \E i \in 1 .. Len(Setup) - 1 : SetUp(i)
           \/ ConnectFails \/ PlayRaises \/ OnConnectionClosed \/ Stop \/ CancelOk \/ Restart
    PROVE  OrderInv'
<1>0. UNCHANGED <<published, queue, unacked, acked, wiped, runs>>
  BY DEF SetUp, ConnectFails, PlayRaises, OnConnectionClosed, Stop, CancelOk, Restart, brokerVars
<1>1. ASSUME NEW i \in 1 .. Len(Setup) - 1, SetUp(i) PROVE OrderInv'
  <2>1. /\ stage \in {"connect", "channel", "exchange", "queue", "bind"}
        /\ UNCHANGED <<proc, handling, inbox>>
    BY <1>1 DEF SetUp, Setup
  <2>2. Pending' = {} /\ unacked = <<>>
    BY <2>1 DEF OrderInv, Consumed, Pending
  <2>3. Elements(unacked) = {}
    BY <2>2, EmptyElements
  <2>4. Consumed'
    BY <1>0, <2>2, <2>3 DEF Consumed
  <2>5. HandedOver'
    BY <1>0, <2>1 DEF OrderInv, HandedOver, Done
  <2> QED  BY <1>0, <2>4, <2>5, CalmOrder
<1>2. CASE ConnectFails \/ PlayRaises
  <2>1. /\ proc' = "dead" /\ UNCHANGED <<stage, inbox>> /\ handling' \in {handling, NoMessage}
    BY <1>2 DEF ConnectFails, PlayRaises
  <2>2. Pending' \subseteq Pending
    BY <2>1 DEF Pending
  <2>3. HandedOver' /\ Consumed'
    BY <1>0, <2>1, <2>2 DEF OrderInv, HandedOver, Consumed
  <2> QED  BY <1>0, <2>3, CalmOrder
<1>3. CASE OnConnectionClosed
  <2>1. /\ inbox' = <<>> /\ handling' = NoMessage /\ stage' = stage /\ proc' # "running"
    BY <1>3 DEF OnConnectionClosed, LoopIdle, AfterClose
  <2>2. HandedOver' /\ Pending' = {}
    BY <2>1, EmptyHand
  <2>3. Consumed'
    BY <1>0, <2>1, <2>2 DEF OrderInv, Consumed
  <2> QED  BY <1>0, <2>2, <2>3, CalmOrder
<1>4. CASE Stop
  <2>1. /\ handling' = NoMessage
        /\ \/ stage = "consume" /\ stage' = "cancel" /\ inbox' = <<>>
           \/ stage # "consume" /\ stage' = stage /\ inbox' = inbox
    BY <1>4 DEF Stop
  <2>2. inbox' = <<>>
    BY <2>1, NothingPending DEF OrderInv, Consumed
  <2>3. HandedOver' /\ Pending' = {}
    BY <2>1, <2>2, EmptyHand
  <2>4. Consumed'
    BY <1>0, <2>1, <2>3 DEF OrderInv, Consumed
  <2> QED  BY <1>0, <2>3, <2>4, CalmOrder
<1>5. CASE CancelOk
  <2>1. /\ stage = "cancel" /\ stage' = "chclose" /\ UNCHANGED <<proc, handling, inbox>>
    BY <1>5 DEF CancelOk
  <2>2. Pending' = {}
    BY <2>1 DEF OrderInv, Consumed, Pending
  <2>3. HandedOver' /\ Consumed'
    BY <1>0, <2>1, <2>2 DEF OrderInv, HandedOver, Consumed, Done
  <2> QED  BY <1>0, <2>3, CalmOrder
<1>6. CASE Restart
  <2>1. link = "none" /\ stage' = "connect" /\ UNCHANGED <<handling, inbox>>
    BY <1>6 DEF Restart
  <2>2. inbox' = <<>> /\ handling' = NoMessage /\ unacked = <<>>
    BY <2>1 DEF IInv, Channel
  <2>3. HandedOver' /\ Pending' = {}
    BY <2>2, EmptyHand
  <2>4. Consumed'
    BY <1>0, <2>1, <2>2, <2>3 DEF Consumed
  <2> QED  BY <1>0, <2>3, <2>4, CalmOrder
<1> QED
  BY <1>1, <1>2, <1>3, <1>4, <1>5, <1>6

\* The job that is played next was the first in hand: all before it are done.
LEMMA StartPlayOrder == ASSUME IInv, OrderInv, StartPlay PROVE OrderInv'
<1>1. /\ inbox \in Seq(Messages) /\ inbox # <<>> /\ Distinct(inbox) /\ handling = NoMessage
      /\ handling' = Head(inbox) /\ inbox' = Tail(inbox) /\ proc = "running"
      /\ UNCHANGED <<published, queue, unacked, acked, wiped, runs, stage, proc>>
  BY DEF StartPlay, LoopIdle, IInv, TypeOK, Answers, brokerVars
<1>2. /\ handling' \in Elements(inbox) /\ Elements(inbox') = Elements(inbox) \ {handling'}
      /\ Elements(inbox) \subseteq Messages
  BY <1>1, TailElements, ElementsSubset
<1>3. Pending' = Pending
  BY <1>1, <1>2, MessageAssumption DEF Pending
<1>4. HandedOver'
  <2> SUFFICES ASSUME NEW k \in Messages, NEW m \in Messages, Precedes(published, k, m)
               PROVE  /\ m = handling' => Done(k)
                      /\ m \in Elements(inbox') =>
                            Done(k) \/ k = handling' \/ Precedes(inbox', k, m)
    BY <1>1 DEF HandedOver, Done
  <2>1. m \in Elements(inbox) => Done(k) \/ Precedes(inbox, k, m)
    BY <1>1, MessageAssumption DEF OrderInv, HandedOver
  <2>2. Precedes(inbox, k, m) => m # handling' /\ (k = handling' \/ Precedes(inbox', k, m))
    BY <1>1, TailPrecedes
  <2> QED  BY <1>2, <2>1, <2>2
<1>5. Consumed'
  BY <1>1, <1>3 DEF OrderInv, Consumed
<1> QED
  BY <1>1, <1>4, <1>5, CalmOrder

LEMMA EndPlayOrder == ASSUME IInv, OrderInv, EndPlay PROVE OrderInv'
<1>0. PICK h \in Messages : h = handling
  BY DEF EndPlay, IInv, TypeOK
<1>1. /\ proc = "running" /\ runs \in [Messages -> Nat]
      /\ Elements(inbox) \subseteq Messages
  BY ElementsSubset DEF EndPlay, IInv, TypeOK
<1>2. /\ runs' = [runs EXCEPT ![h] = runs[h] + 1] /\ handling' = NoMessage
      /\ UNCHANGED <<published, queue, unacked, acked, wiped, proc, stage, inbox>>
  BY <1>0 DEF EndPlay, Played, brokerVars
<1>3. /\ runs'[h] > 0 /\ \A n \in Messages : n # h => runs'[n] = runs[n]
      /\ \A n \in Messages : runs[n] > 0 => runs'[n] > 0
  BY <1>1, <1>2
<1>4. \A n \in Messages : Done(n) => Done(n)'
  BY <1>2, <1>3 DEF Done
<1>5. Pending' = Pending \ {h}
  <2>1. h \notin Elements(inbox)  BY <1>0 DEF IInv, Answers
  <2> QED  BY <1>0, <1>2, <2>1, MessageAssumption DEF Pending
<1>6. \A k \in Messages : Precedes(published, k, h) => Done(k)
  BY <1>0, <1>1 DEF OrderInv, HandedOver
<1>7. Done(h)'
  BY <1>3 DEF Done
<1>8. \A k, m \in Messages : Precedes(published, k, m) /\ m \in Elements(inbox) =>
          Done(k) \/ k = h \/ Precedes(inbox, k, m)
  BY <1>0, <1>1 DEF OrderInv, HandedOver
<1>9. \A m \in Elements(unacked) : m \in Messages
  BY ElementsSubset DEF IInv, TypeOK
<1>10. HandedOver'
  BY <1>2, <1>4, <1>7, <1>8, MessageAssumption DEF HandedOver
<1>11. Consumed'
  BY <1>2, <1>3, <1>5, <1>9 DEF OrderInv, Consumed
<1>12. FirstRuns'
  BY <1>2, <1>3, <1>4, <1>6 DEF OrderInv, FirstRuns
<1>13. Queued'
  BY <1>2 DEF OrderInv, Queued
<1> QED
  BY <1>10, <1>11, <1>12, <1>13 DEF OrderInv

-----------------------------------------------------------------------------
(* Steps of the broker.                                                    *)

LEMMA PublishOrder ==
    ASSUME IInv, OrderInv, NEW m \in Messages, Publish(m) PROVE OrderInv'
<1>1. /\ published' = Append(published, m) /\ queue' = Append(queue, m)
      /\ m \notin Elements(published) /\ published \in Seq(Messages) /\ queue \in Seq(Messages)
      /\ UNCHANGED <<unacked, acked, wiped, procVars, inbox, runs>>
  BY DEF Publish, IInv, TypeOK
<1>2. m \notin Elements(queue) \cup Elements(unacked) \cup Pending /\ runs[m] = 0
  BY <1>1 DEF IInv, TypeOK, Kept, Redelivered
<1>3. \A k, x : Precedes(published', k, x) =>
          Precedes(published, k, x) \/ (x = m /\ k \in Elements(published))
  BY <1>1, AppendPrecedes
<1>4. Elements(queue') = Elements(queue) \cup {m}
  BY <1>1, AppendElements
<1>5. UNCHANGED <<Pending, proc, stage, handling>>
  BY <1>1 DEF Pending, procVars
<1>6. Queued'
  <2> SUFFICES ASSUME NEW k \in Messages, NEW x \in Messages, Precedes(published', k, x),
                      x \in Elements(unacked) \cup Elements(queue')
               PROVE  \/ k \in acked \cup wiped
                      \/ Precedes(unacked, k, x) \/ Precedes(queue', k, x)
                      \/ k \in Elements(unacked) /\ x \in Elements(queue')
    BY <1>1 DEF Queued
  <2>1. CASE x = m
    <3>1. k \in Elements(published)
      BY <1>1, <1>3, <2>1, PrecedesElements
    <3>2. k \in Elements(unacked) \cup Elements(queue) \cup acked \cup wiped
      BY <3>1 DEF IInv, Kept
    <3>3. k \in Elements(queue) => Precedes(queue', k, x)
      BY <1>1, <2>1, AppendPrecedes
    <3> QED  BY <1>4, <2>1, <3>2, <3>3
  <2>2. CASE x # m
    <3>1. Precedes(published, k, x) /\ x \in Elements(unacked) \cup Elements(queue)
      BY <1>3, <1>4, <2>2
    <3>2. Precedes(queue, k, x) => Precedes(queue', k, x)
      BY <1>1, AppendPrecedes
    <3> QED  BY <1>4, <3>1, <3>2 DEF OrderInv, Queued
  <2> QED  BY <2>1, <2>2
<1>7. HandedOver'
  <2>1. \A x \in Messages : x = handling \/ x \in Elements(inbox) => x # m
    BY <1>2, MessageAssumption DEF Pending
  <2> QED  BY <1>1, <1>3, <1>5, <2>1 DEF OrderInv, HandedOver, Done
<1>8. Consumed'
  BY <1>1, <1>5 DEF OrderInv, Consumed
<1>9. FirstRuns'
  BY <1>1, <1>2, <1>3 DEF OrderInv, FirstRuns, Done
<1> QED
  BY <1>6, <1>7, <1>8, <1>9 DEF OrderInv

\* The head of the queue follows what was delivered before it.
LEMMA DeliverOrder == ASSUME IInv, OrderInv, Deliver PROVE OrderInv'
<1>0. PICK m : m = Head(queue)  OBVIOUS
<1>1. /\ queue' = Tail(queue) /\ unacked' = Append(unacked, m) /\ inbox' = Append(inbox, m)
      /\ link = "up" /\ stage = "consume" /\ queue # <<>>
      /\ UNCHANGED <<published, acked, wiped, proc, stage, handling, runs>>
  BY <1>0 DEF Deliver, procVars
<1>2. /\ queue \in Seq(Messages) /\ unacked \in Seq(Messages) /\ inbox \in Seq(Messages)
      /\ Distinct(queue)
  BY DEF IInv, TypeOK, Kept
<1>3. /\ m \in Elements(queue) /\ m \in Messages
      /\ Elements(queue') = Elements(queue) \ {m}
  BY <1>0, <1>1, <1>2, TailElements, ElementsSubset
<1>4. m \notin Elements(unacked) \cup Pending
  BY <1>1, <1>3 DEF IInv, Kept, Answers
<1>5. /\ Elements(unacked') = Elements(unacked) \cup {m}
      /\ Elements(inbox') = Elements(inbox) \cup {m}
  BY <1>1, <1>2, <1>3, AppendElements
<1>6. Pending' = Pending \cup {m}
  BY <1>1, <1>5 DEF Pending
<1>7. \A k, x : Precedes(queue, k, x) => x # m /\ (k = m \/ Precedes(queue', k, x))
  BY <1>0, <1>1, <1>2, TailPrecedes
<1>8. Queued'
  <2> SUFFICES ASSUME NEW k \in Messages, NEW x \in Messages, Precedes(published, k, x),
                      x \in Elements(unacked') \cup Elements(queue')
               PROVE  \/ k \in acked \cup wiped
                      \/ Precedes(unacked', k, x) \/ Precedes(queue', k, x)
                      \/ k \in Elements(unacked') /\ x \in Elements(queue')
    BY <1>1 DEF Queued
  <2>1. x \in Elements(unacked) \cup Elements(queue)
    BY <1>3, <1>5
  <2>2. CASE Precedes(unacked, k, x)
    <3>1. Precedes(unacked', k, x)  BY <1>1, <1>2, <1>3, <2>2, AppendPrecedes
    <3> QED  BY <3>1
  <2>3. CASE Precedes(queue, k, x)
    <3>1. x \in Elements(queue)  BY <2>3, PrecedesElements
    <3> QED  BY <1>3, <1>5, <1>7, <2>3, <3>1
  <2>4. CASE k \in Elements(unacked) /\ x \in Elements(queue)
    <3>1. x = m => Precedes(unacked', k, x)  BY <1>1, <1>2, <1>3, <2>4, AppendPrecedes
    <3> QED  BY <1>3, <1>5, <2>4, <3>1
  <2> QED  BY <2>1, <2>2, <2>3, <2>4 DEF OrderInv, Queued
<1>9. HandedOver'
  <2> SUFFICES ASSUME proc = "running", NEW k \in Messages, NEW x \in Messages,
                      Precedes(published, k, x)
               PROVE  /\ x = handling => Done(k)
                      /\ x \in Elements(inbox') =>
                            Done(k) \/ k = handling \/ Precedes(inbox', k, x)
    BY <1>1 DEF HandedOver, Done
  <2>1. /\ x = handling => Done(k)
        /\ x \in Elements(inbox) => Done(k) \/ k = handling \/ Precedes(inbox, k, x)
    BY DEF OrderInv, HandedOver
  <2>2. Precedes(inbox, k, x) => Precedes(inbox', k, x)
    BY <1>1, <1>2, <1>3, AppendPrecedes
  <2>3. ASSUME x = m PROVE Done(k) \/ k = handling \/ Precedes(inbox', k, x)
    <3>1. ~Precedes(queue, k, x)  BY <1>7, <2>3
    <3>2. ~Precedes(unacked, k, x)  BY <1>4, <2>3, PrecedesElements
    <3>3. k \in acked \cup wiped \cup Elements(unacked)
      BY <1>3, <2>3, <3>1, <3>2 DEF OrderInv, Queued
    <3>4. k \in acked => runs[k] > 0
      BY DEF IInv, Kept
    <3>5. k \in Elements(unacked) => runs[k] > 0 \/ k \in Pending
      BY <1>1 DEF OrderInv, Consumed
    <3>6. k \in Elements(inbox) => Precedes(inbox', k, x)
      BY <1>1, <1>2, <1>3, <2>3, AppendPrecedes
    <3> QED  BY <3>3, <3>4, <3>5, <3>6 DEF Done, Pending
  <2> QED  BY <1>5, <2>1, <2>2, <2>3
<1>10. Consumed'
  BY <1>1, <1>5, <1>6 DEF OrderInv, Consumed
<1>11. FirstRuns'
  BY <1>1 DEF OrderInv, FirstRuns, Done
<1> QED
  BY <1>8, <1>9, <1>10, <1>11 DEF OrderInv

LEMMA ReceiveAckOrder ==
    ASSUME IInv, OrderInv, NEW m \in Messages, ReceiveAck(m) PROVE OrderInv'
<1>1. /\ m \in acks /\ acked' = acked \cup {m}
      /\ UNCHANGED <<published, queue, wiped, proc, stage, handling, inbox, runs>>
  BY DEF ReceiveAck, procVars
<1>2. PICK i \in 1 .. Len(unacked) : unacked[i] = m /\ unacked' = Dropped(unacked, i)
  BY DEF ReceiveAck
<1>3. unacked \in Seq(Messages) /\ Distinct(unacked)
  BY DEF IInv, TypeOK, Kept
<1>4. Elements(unacked') = Elements(unacked) \ {m}
  BY <1>2, <1>3, DroppedElements
<1>5. m \in Elements(unacked) /\ m \notin Elements(queue)
  BY <1>1 DEF IInv, Answers, Kept
<1>6. Queued'
  <2> SUFFICES ASSUME NEW k \in Messages, NEW x \in Messages, Precedes(published, k, x),
                      x \in Elements(unacked') \cup Elements(queue), k # m
               PROVE  \/ k \in acked \cup wiped
                      \/ Precedes(unacked', k, x) \/ Precedes(queue, k, x)
                      \/ k \in Elements(unacked') /\ x \in Elements(queue)
    BY <1>1 DEF Queued
  <2>1. x \in Elements(unacked) \cup Elements(queue) /\ x # m
    BY <1>4, <1>5
  <2>2. Precedes(unacked, k, x) => Precedes(unacked', k, x)
    BY <1>2, <1>3, <2>1, DroppedPrecedes
  <2> QED  BY <1>4, <2>1, <2>2 DEF OrderInv, Queued
<1>7. HandedOver' /\ FirstRuns'
  BY <1>1 DEF OrderInv, HandedOver, FirstRuns, Done
<1>8. Consumed'
  <2>1. unacked # <<>>
    BY <1>5, EmptyElements
  <2> QED  BY <1>1, <1>4, <2>1 DEF OrderInv, Consumed, Pending
<1> QED
  BY <1>6, <1>7, <1>8 DEF OrderInv

\* What the broker takes back it puts in front.
LEMMA RequeueOrder ==
    ASSUME IInv, OrderInv, LoseConnection \/ ChannelClosed \/ SocketCloses
    PROVE  OrderInv'
<1>1. /\ queue' = unacked \o queue /\ unacked' = <<>>
      /\ UNCHANGED <<published, acked, wiped, proc, handling, runs>>
  BY DEF LoseConnection, ChannelClosed, SocketCloses, Requeue, procVars
<1>2. queue \in Seq(Messages) /\ unacked \in Seq(Messages) /\ inbox \in Seq(Messages)
      /\ Distinct(inbox)
  BY DEF IInv, TypeOK, Answers
<1>3. /\ Elements(queue') = Elements(unacked) \cup Elements(queue) /\ Elements(unacked') = {}
  BY <1>1, <1>2, ConcatElements, EmptyElements
<1>4. Queued'
  <2> SUFFICES ASSUME NEW k \in Messages, NEW x \in Messages, Precedes(published, k, x),
                      x \in Elements(unacked) \cup Elements(queue)
               PROVE  k \in acked \cup wiped \/ Precedes(queue', k, x)
    BY <1>1, <1>3 DEF Queued
  <2>1. \/ Precedes(unacked, k, x) \/ Precedes(queue, k, x)
        \/ k \in Elements(unacked) /\ x \in Elements(queue)
        => Precedes(queue', k, x)
    BY <1>1, <1>2, ConcatPrecedes
  <2> QED  BY <2>1 DEF OrderInv, Queued
<1>5. FirstRuns'
  BY <1>1 DEF OrderInv, FirstRuns, Done
<1>6. CASE LoseConnection
  <2>1. PICK n \in 0 .. Len(inbox) : inbox' = SubSeq(inbox, 1, n)
    BY <1>6 DEF LoseConnection
  <2>2. stage' = stage  BY <1>6 DEF LoseConnection, procVars
  <2>3. Elements(inbox') \subseteq Elements(inbox)
    BY <1>2, <2>1, PrefixElements
  <2>4. \A k, x : Precedes(inbox, k, x) /\ x \in Elements(inbox') => Precedes(inbox', k, x)
    BY <1>2, <2>1, PrefixPrecedes
  <2>5. HandedOver'
    BY <1>1, <2>3, <2>4 DEF OrderInv, HandedOver, Done
  <2>6. Pending' \subseteq Pending  BY <1>1, <2>3 DEF Pending
  <2>7. Consumed'
    BY <1>1, <1>3, <2>2, <2>6 DEF OrderInv, Consumed
  <2> QED  BY <1>4, <1>5, <2>5, <2>7 DEF OrderInv
<1>7. CASE ChannelClosed \/ SocketCloses
  <2>1. inbox' = <<>> /\ handling' = NoMessage
    BY <1>7 DEF ChannelClosed, SocketCloses, LoopIdle, procVars, IInv, Channel
  <2>2. HandedOver' /\ Pending' = {}
    BY <2>1, EmptyHand
  <2>3. Consumed'
    BY <1>1, <1>3, <2>2 DEF Consumed
  <2> QED  BY <1>4, <1>5, <2>2, <2>3 DEF OrderInv
<1> QED
  BY <1>6, <1>7

\* A restart of the broker excuses every job it had.
LEMMA RestartBrokerOrder == ASSUME IInv, OrderInv, RestartBroker PROVE OrderInv'
<1>1. /\ queue' = <<>> /\ unacked' = <<>> /\ wiped \subseteq wiped'
      /\ UNCHANGED <<published, proc, stage, handling, inbox, runs>>
  BY DEF RestartBroker, procVars
<1>2. Elements(queue') = {} /\ Elements(unacked') = {}
  BY <1>1, EmptyElements
<1>3. Queued'
  BY <1>2 DEF Queued
<1>4. HandedOver' /\ FirstRuns'
  BY <1>1 DEF OrderInv, HandedOver, FirstRuns, Done
<1>5. Consumed'
  BY <1>1, <1>2 DEF OrderInv, Consumed, Pending
<1> QED
  BY <1>3, <1>4, <1>5 DEF OrderInv

-----------------------------------------------------------------------------

LEMMA OrderInit == Init => OrderInv
<1> SUFFICES ASSUME Init PROVE OrderInv  OBVIOUS
<1>1. /\ Elements(<<>>) = {} /\ published = <<>> /\ unacked = <<>> /\ queue = <<>>
      /\ inbox = <<>> /\ handling = NoMessage
  BY EmptyElements DEF Init
<1>2. \A k, m : ~Precedes(published, k, m)
  BY <1>1, PrecedesElements
<1> QED
  BY <1>1, <1>2 DEF OrderInv, Queued, HandedOver, Consumed, FirstRuns, Pending

LEMMA OrderNext == IInv /\ OrderInv /\ [Next]_vars => OrderInv'
<1> SUFFICES ASSUME IInv, OrderInv, [Next]_vars PROVE OrderInv'  OBVIOUS
<1>1. CASE Broker  BY <1>1, DeliverOrder, ReceiveAckOrder DEF Broker
<1>2. CASE Receive
  BY <1>2, CalmOrderSteps, StartPlayOrder, EndPlayOrder, RequeueOrder DEF Receive, ChannelCloseOk
<1>3. CASE Fault
  BY <1>3, CalmOrderSteps, RestartBrokerOrder, RequeueOrder DEF Fault
<1>4. CASE Stop \/ SocketCloses \/ Restart  BY <1>4, CalmOrderSteps, RequeueOrder
<1>5. CASE \E m \in Messages : Publish(m)  BY <1>5, PublishOrder
<1>6. CASE UNCHANGED vars
  BY <1>6 DEF vars, brokerVars, procVars, OrderInv, Queued, HandedOver, Consumed, FirstRuns,
              Done, Pending
<1> QED  BY <1>1, <1>2, <1>3, <1>4, <1>5, <1>6 DEF Next

\* Queue, deliveries and plays keep the order of publication in every reachable state.
THEOREM OrderInvariance == Spec => []OrderInv
  BY Invariance, OrderInit, OrderNext, PTL DEF Spec

\* No job overtakes an earlier one that has not run: not by a redelivery, not by the jobs
\* prefetched behind it, and not through a restart of the program.
THEOREM FirstRunsAreOrdered == Spec => []FirstRunsInOrder
<1>1. IInv /\ OrderInv => FirstRunsInOrder
  <2> SUFFICES ASSUME IInv, OrderInv,
                      NEW i \in 1 .. Len(published), NEW j \in 1 .. Len(published),
                      i < j, runs[published[j]] > 0
               PROVE  runs[published[i]] > 0 \/ published[i] \in wiped
    BY DEF FirstRunsInOrder
  <2>1. Precedes(published, published[i], published[j])
    BY DEF Precedes
  <2>2. published[i] \in Messages /\ published[j] \in Messages
    BY DEF IInv, TypeOK
  <2> QED  BY <2>1, <2>2 DEF OrderInv, FirstRuns, Done
<1> QED
  BY <1>1, Invariance, OrderInvariance, PTL
=============================================================================
