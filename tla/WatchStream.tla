----------------------------- MODULE WatchStream -----------------------------
(***************************************************************************)
(* The loop with which loadbalancer.py and the performance test driver     *)
(* case.py read a watch of the Kubernetes API: the chunked encoding of the *)
(* response reaches it as it is, and it reads a length line byte by byte   *)
(* and then the chunk at once. One event is one chunk.                     *)
(***************************************************************************)
EXTENDS Naturals, Sequences

S == INSTANCE SequencesExt

CONSTANT Radix   \* of a chunk's length, 16 in HTTP

ASSUME RadixAssumption == Radix \in Nat \ {0, 1}

VARIABLES
    sent,   \* events the server sent on this watch
    wire,   \* bytes on their way to the reader
    open,   \* the server has not ended the response, nor the network
    text,   \* "message" in loadbalancer.py, "event" in case.py: the line read so far
    put     \* the chunks handed on

streamVars == <<sent, wire, open, text, put>>

Byte(kind, v) == [kind |-> kind, v |-> v]
CRLF == <<Byte("cr", 0), Byte("lf", 0)>>

\* The i-th event in JSON; less than its two bytes is an event that is cut off.
Data(i) == <<Byte("data", i), Byte("data", i)>>
IsWhole(chunk) == Len(chunk) = 2

Digits[n \in Nat] ==
    IF n < Radix THEN <<Byte("digit", n)>>
    ELSE Append(Digits[n \div Radix], Byte("digit", n % Radix))

Chunk(data) == Digits[Len(data)] \o CRLF \o data \o CRLF

StreamInit == sent = <<>> /\ wire = <<>> /\ open = FALSE /\ text = <<>> /\ put = <<>>

-----------------------------------------------------------------------------
(* The server and the network (external).                                  *)

\* The request is answered.
Open == open' = TRUE /\ UNCHANGED <<sent, wire, text, put>>

\* What happens is an event for those who watch.
Send(e) ==
    IF open
      THEN /\ sent' = Append(sent, e) /\ wire' = wire \o Chunk(Data(Len(sent) + 1))
           /\ UNCHANGED <<open, text, put>>
      ELSE UNCHANGED streamVars

\* The server ends the watch with an empty chunk, or the connection breaks at any byte.
EndStream ==
    /\ open /\ open' = FALSE
    /\ \/ wire' = wire \o Chunk(<<>>)
       \/ \E k \in 0 .. Len(wire) : wire' = SubSeq(wire, 1, k)
    /\ UNCHANGED <<sent, text, put>>

-----------------------------------------------------------------------------
(* The loop.                                                               *)

EndsLine(s) == Len(s) >= 2 /\ SubSeq(s, Len(s) - 1, Len(s)) = CRLF

\* rstrip()
Stripped(s) ==
    LET solid == {i \in 1 .. Len(s) : s[i].kind \notin {"cr", "lf"}}
    IN  SubSeq(s, 1, S!Max(solid \cup {0}))

Line == IF EndsLine(text) THEN Stripped(text) ELSE text

HasLength == EndsLine(text) /\ Line # <<>>

OneDigitLength == Line[1].v

\* What digits stand for.
Number(s) ==
    LET value[i \in 0 .. Len(s)] == IF i = 0 THEN 0 ELSE value[i - 1] * Radix + s[i].v
    IN  value[Len(s)]

\* int(message, 16)
Length == Number(Line)

\* read(1), which returns '' for ever once the stream has ended.
ReadByte ==
    /\ ~HasLength
    /\ \/ wire # <<>> /\ text' = Append(Line, Head(wire)) /\ wire' = Tail(wire)
       \/ wire = <<>> /\ ~open /\ text' = Line /\ UNCHANGED wire
    /\ UNCHANGED <<sent, open, put>>

\* read(length) waits for the whole chunk or the end of the stream.
ReadChunk ==
    /\ HasLength
    /\ Len(wire) >= Length \/ ~open
    /\ LET n == IF Len(wire) >= Length THEN Length ELSE Len(wire) IN
         /\ put' = Append(put, SubSeq(wire, 1, n))
         /\ wire' = SubSeq(wire, n + 1, Len(wire))
    /\ text' = <<>>
    /\ UNCHANGED <<sent, open>>

-----------------------------------------------------------------------------
\* Every event is handed on once, whole and in order, and nothing else is taken for an
\* event or a length, but for what is cut off when the watch ends: then the last thing
\* handed on is a part of an event, or empty.
EventsIntact ==
    /\ \A i \in 1 .. Len(put) :
          \/ i <= Len(sent) /\ put[i] = Data(i)
          \/ ~open /\ i = Len(put) /\ S!IsStrictPrefix(put[i], Data(i))
    /\ HasLength => \A i \in 1 .. Len(Line) : Line[i].kind = "digit"
=============================================================================
