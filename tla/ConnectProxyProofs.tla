-------------------------- MODULE ConnectProxyProofs --------------------------
(***************************************************************************)
(* Proofs about ConnectProxy, for streams, header limits and high water    *)
(* marks of any size: types, that every client is answered, that bytes     *)
(* keep their order, and that the peers see no more than a Tunnel.         *)
(***************************************************************************)
EXTENDS ConnectProxy, SequenceTheorems, TLAPS

\* The client has its answer or has given up waiting for one.
Settled == got["client"] # <<>> \/ rd["client"] # "open"

\* A client is settled when it cannot be written to any more, when its request
\* was refused and when its tunnel stands or is gone, if the proxy is there.
Settling ==
    /\ wr["client"] # "open" => Settled
    /\ phase \in {"refused", "tunnel"} => Settled
    /\ alive /\ phase = "connecting" /\ socket["upstream"] # "connecting" => Settled
    /\ alive /\ phase = "connecting" /\ socket["client"] = "closed" => Settled

\* With the proxy all sockets are gone.
Gone == ~ alive => \A s \in Sides : socket[s] \in {"none", "closed"}

\* What steps are proved to keep one by one, and all of it.
Base == TypeOK /\ Settling
IInv == Base /\ Gone

-----------------------------------------------------------------------------
(* Sequences of bytes.                                                     *)

\* A part of a sequence of bytes is one.
LEMMA SubSeqBytes ==
  ASSUME NEW b \in Seq(Bytes), NEW m \in Nat \ {0}, NEW n \in Nat, n <= Len(b)
  PROVE  SubSeq(b, m, n) \in Seq(Bytes)
<1>1. \A i \in m .. n : b[i] \in Bytes
  BY ElementOfSeq
<1> QED BY <1>1, SubSeqProperties

\* What a peer sends are bytes.
LEMMA StreamBytes ==
  ASSUME TypeOK, NEW s \in Sides
  PROVE  Stream(s) \in Seq(Bytes)
<1>1. request.head \in Nat
  BY LimitAssumption DEF TypeOK, Requests
<1>2. [i \in 1 .. request.head |-> "head"] \in Seq(Bytes)
  <2>1. [i \in 1 .. request.head |-> "head"] \in [1 .. request.head -> Bytes]
    BY DEF Bytes
  <2> QED BY <1>1, <2>1, SeqDef
<1>3. <<"end">> \in Seq(Bytes)
  BY DEF Bytes
<1>d. ClientBytes \in Seq(Bytes) /\ UpstreamBytes \in Seq(Bytes)
  BY BytesAssumption, SeqMonotonic DEF Bytes
<1>4. [i \in 1 .. request.head |-> "head"] \o <<"end">> \in Seq(Bytes)
  BY <1>2, <1>3, ConcatProperties
<1>5. [i \in 1 .. request.head |-> "head"] \o <<"end">> \o ClientBytes \in Seq(Bytes)
  BY <1>4, <1>d, ConcatProperties
<1> QED BY <1>5, <1>d DEF Stream

\* Reading a chunk takes it from the bytes that have arrived.
LEMMA Chunk ==
  ASSUME NEW b \in Seq(Bytes), NEW n \in 1 .. Len(b)
  PROVE  /\ SubSeq(b, 1, n) \in Seq(Bytes)
         /\ SubSeq(b, n + 1, Len(b)) \in Seq(Bytes)
<1>1. Len(b) \in Nat
  BY LenProperties
<1> QED BY <1>1, SubSeqBytes

-----------------------------------------------------------------------------
\* The invariant holds initially.
LEMMA InitInv == Init => IInv
<1> SUFFICES ASSUME Init PROVE IInv
  OBVIOUS
<1>1. <<>> \in Seq(Bytes) /\ Len(<<>>) = 0
  BY EmptySeq
<1>2. TypeOK
  BY <1>1, LimitAssumption DEF Init, TypeOK, Sides
<1>3. Settling
  BY DEF Init, Settling, Sides
<1>4. Gone
  BY DEF Init, Gone
<1> QED BY <1>2, <1>3, <1>4 DEF IInv, Base

\* What a step of onHeaders() does.
LEMMA OnHeadersInv ==
  ASSUME IInv, NEW n \in 1 .. Len(in["client"]), OnHeaders(n)
  PROVE  Base'
<1> DEFINE read == buf \o SubSeq(in["client"], 1, n)
<1> USE DEF IInv, Base
<1>1. /\ in["client"] \in Seq(Bytes) /\ buf \in Seq(Bytes)
      /\ "client" \in Sides /\ "upstream" \in Sides
  BY DEF TypeOK, Sides
<1>2. /\ SubSeq(in["client"], 1, n) \in Seq(Bytes)
      /\ in' \in [Sides -> Seq(Bytes)]
  BY <1>1, Chunk DEF OnHeaders, TypeOK
<1>3. read \in Seq(Bytes) /\ Len(read) \in Nat
  BY <1>1, <1>2, ConcatProperties, LenProperties
<1>4. CASE ~ Headed(read)
  <2> HIDE DEF read
  <2>1. /\ buf' = read
        /\ IF TooLong(read) THEN Close("client") ELSE UNCHANGED socket
        /\ UNCHANGED <<alive, phase, wr, got, request, sent, rd, out>>
        /\ phase = "header" /\ socket["client"] = "open"
    BY <1>4 DEF OnHeaders, IsOpen, read
  <2>2. socket' \in [Sides -> {"none", "connecting", "open", "closed"}]
    BY <2>1 DEF TypeOK, Close
  <2>3. phase' = "header" /\ socket'["client"] = "open" => Len(buf') <= HeaderLimit
    BY <2>1, <1>3, LimitAssumption, <1>1 DEF Close, TooLong
  <2>4. TypeOK'
    BY <2>1, <2>2, <2>3, <1>2, <1>3 DEF TypeOK
  <2> QED BY <2>1, <2>4 DEF Settling, Settled
<1>5. CASE Headed(read) /\ request.line = "other"
  <2> HIDE DEF read
  <2>1. /\ phase' = "refused"
        /\ buf' = <<>>
        /\ got' = [got EXCEPT !["client"] = <<"405">>]
        /\ wr' = [wr EXCEPT !["client"] = "ending"]
        /\ UNCHANGED <<alive, socket, request, sent, rd, out>>
    BY <1>5 DEF OnHeaders, read
  <2>2. buf' \in Seq(Bytes) /\ <<"405">> \in Seq(Bytes) /\ <<"405">> # <<>>
    BY <2>1 DEF Bytes
  <2>3. TypeOK'
    BY <2>1, <2>2, <1>2 DEF TypeOK
  <2> QED BY <2>1, <2>2, <2>3, <1>1 DEF Settling, Settled, TypeOK
<1>6. CASE Headed(read) /\ request.line # "other"
  <2> HIDE DEF read
  <2>1. /\ phase' = "connecting"
        /\ buf' = Behind(read)
        /\ \/ Die
           \/ /\ socket' = [socket EXCEPT !["upstream"] = "connecting"]
              /\ UNCHANGED alive
        /\ UNCHANGED <<wr, got, request, sent, rd, out>>
        /\ socket["client"] = "open"
    BY <1>6 DEF OnHeaders, IsOpen, read
  <2>2. Behind(read) \in Seq(Bytes)
    <3>1. request.head \in Nat
      BY LimitAssumption DEF TypeOK, Requests
    <3> QED BY <3>1, <1>3, SubSeqBytes DEF Behind
  <2>3. TypeOK'
    <3>1. /\ alive' \in BOOLEAN
          /\ socket' \in [Sides -> {"none", "connecting", "open", "closed"}]
      BY <2>1 DEF Die, Close, TypeOK
    <3> QED BY <2>1, <2>2, <3>1, <1>2 DEF TypeOK
  <2>4. alive' => socket'["upstream"] = "connecting" /\ socket'["client"] = "open"
    BY <2>1, <1>1 DEF Die, TypeOK
  <2> QED BY <2>1, <2>3, <2>4 DEF Settling, Settled
<1> QED BY <1>4, <1>5, <1>6

\* A step preserves types and answers: one step of the proof per action.
LEMMA BaseStep == IInv /\ [Next]_vars => Base'
<1> SUFFICES ASSUME IInv, [Next]_vars PROVE Base'
  OBVIOUS
<1> USE DEF IInv, Base
<1>s. "client" \in Sides /\ "upstream" \in Sides
  BY DEF Sides
<1>e. <<>> \in Seq(Bytes) /\ Len(<<>>) = 0 /\ 0 <= HeaderLimit
  BY EmptySeq, LimitAssumption
<1>1. CASE Discard
  BY <1>1, <1>s, <1>e DEF Discard, IsOpen, TypeOK, Settling, Settled
<1>2. ASSUME NEW n \in 1 .. Len(in["client"]), OnHeaders(n) PROVE Base'
  BY <1>2, OnHeadersInv
<1>3. CASE Connect
  <2>1. <<"200">> \in Seq(Bytes) /\ <<"200">> # <<>>
    BY DEF Bytes
  <2>2. CASE wr["client"] = "open"
    <3>1. /\ phase' = "tunnel" /\ buf' = <<>>
          /\ socket' = [socket EXCEPT !["upstream"] = "open"]
          /\ got' = [got EXCEPT !["client"] = <<"200">>]
          /\ out' = [out EXCEPT !["upstream"] = buf]
          /\ UNCHANGED <<alive, request, sent, in, rd, wr>>
      BY <1>3, <2>2 DEF Connect
    <3>2. got' \in [Sides -> Seq(Bytes)] /\ out' \in [Sides -> Seq(Bytes)]
      BY <3>1, <2>1 DEF TypeOK
    <3>3. TypeOK'
      BY <3>1, <3>2, <1>e DEF TypeOK
    <3>4. got'["client"] # <<>>
      BY <3>1, <2>1, <1>s DEF TypeOK
    <3> QED BY <3>1, <3>3, <3>4 DEF Settling, Settled
  <2>3. CASE wr["client"] # "open"
    <3>1. /\ \E b \in {<<>>, buf} : got' = [got EXCEPT !["upstream"] = b]
          /\ Close("client") /\ phase' = "tunnel" /\ buf' = <<>>
          /\ UNCHANGED <<alive, request, sent, in, rd, wr, out>>
      BY <1>3, <2>3 DEF Connect
    <3>2. TypeOK'
      <4>1. got' \in [Sides -> Seq(Bytes)]
        <5>1. PICK b \in {<<>>, buf} : got' = [got EXCEPT !["upstream"] = b]
          BY <3>1
        <5>2. b \in Seq(Bytes)
          BY <5>1, <1>e DEF TypeOK
        <5> QED BY <5>1, <5>2 DEF TypeOK
      <4>2. socket' \in [Sides -> {"none", "connecting", "open", "closed"}]
        BY <3>1 DEF Close, TypeOK
      <4> QED BY <3>1, <4>1, <4>2, <1>e DEF TypeOK
    <3>3. got'["client"] = got["client"]
      BY <3>1, <1>s DEF TypeOK
    <3> QED BY <3>1, <3>2, <3>3, <2>3 DEF Settling, Settled
  <2> QED BY <2>2, <2>3
<1>4. CASE ConnectFails
  <2>1. <<"502">> \in Seq(Bytes) /\ <<"502">> # <<>>
    BY DEF Bytes
  <2>2. /\ Close("upstream")
        /\ got' = IF wr["client"] = "open"
                  THEN [got EXCEPT !["client"] = <<"502">>] ELSE got
        /\ UNCHANGED <<alive, request, phase, buf, sent, in, rd, out, wr>>
    BY <1>4 DEF ConnectFails
  <2>3. TypeOK'
    BY <2>1, <2>2, <1>s DEF Close, TypeOK
  <2>4. Settled'
    BY <2>1, <2>2, <1>s DEF Settling, Settled, TypeOK
  <2> QED BY <2>3, <2>4 DEF Settling
<1>5. ASSUME NEW s \in Sides, PeerSends(s) PROVE Base'
  <2>1. Stream(s) \in Seq(Bytes) /\ sent[s] \in Nat /\ in[s] \in Seq(Bytes)
    BY StreamBytes DEF TypeOK
  <2>2. sent'[s] = sent[s] + 1 /\ sent[s] < Len(Stream(s)) /\ Len(Stream(s)) \in Nat
    BY <1>5, <2>1, LenProperties DEF PeerSends, TypeOK
  <2>3. Stream(s)[sent'[s]] \in Bytes
    BY <2>1, <2>2, ElementOfSeq
  <2>4. Append(in[s], Stream(s)[sent'[s]]) \in Seq(Bytes)
    BY <2>1, <2>3, AppendProperties
  <2>5. in' \in [Sides -> Seq(Bytes)] /\ sent' \in [Sides -> Nat]
    BY <1>5, <2>1, <2>4 DEF PeerSends, TypeOK
  <2> QED BY <1>5, <2>5 DEF PeerSends, TypeOK, Settling, Settled
<1>6. ASSUME NEW s \in Sides, PeerEnds(s) PROVE Base'
  BY <1>6, <1>s DEF PeerEnds, TypeOK, Settling, Settled, IsOpen
<1>7. ASSUME NEW s \in Sides, Reset(s) PROVE Base'
  BY <1>7, <1>s DEF Reset, Close, TypeOK, Settling, Settled, IsOpen, Sides
<1>8. ASSUME NEW s \in Sides, End(s) PROVE Base'
  BY <1>8, <1>s DEF End, Close, TypeOK, Settling, Settled, IsOpen, Sides
<1>9. ASSUME NEW s \in Sides, Finish(s) PROVE Base'
  BY <1>9, <1>s DEF Finish, Close, TypeOK, Settling, Settled, IsOpen, Sides
<1>10. ASSUME NEW s \in Sides, NEW n \in 1 .. Len(in[s]), Pipe(s, n) PROVE Base'
  <2>1. Other(s) \in Sides /\ phase = "tunnel" /\ in[s] \in Seq(Bytes)
    BY <1>10, <1>s DEF Other, Pipe, TypeOK
  <2>2. /\ SubSeq(in[s], 1, n) \in Seq(Bytes)
        /\ SubSeq(in[s], n + 1, Len(in[s])) \in Seq(Bytes)
    BY <2>1, Chunk
  <2>3. out[Other(s)] \o SubSeq(in[s], 1, n) \in Seq(Bytes)
    BY <2>1, <2>2, ConcatProperties DEF TypeOK
  <2>4. in' \in [Sides -> Seq(Bytes)] /\ out' \in [Sides -> Seq(Bytes)]
    BY <1>10, <2>2, <2>3 DEF Pipe, TypeOK
  <2>5. socket' \in [Sides -> {"none", "connecting", "open", "closed"}]
    BY <1>10 DEF Pipe, Close, TypeOK
  <2>6. UNCHANGED <<alive, request, phase, buf, sent, rd, wr, got>>
    BY <1>10 DEF Pipe
  <2> QED BY <2>1, <2>4, <2>5, <2>6 DEF TypeOK, Settling, Settled
<1>11. ASSUME NEW s \in Sides, Flush(s) PROVE Base'
  <2>1. got[s] \in Seq(Bytes) /\ out[s] \in Seq(Bytes) /\ out[s] # <<>>
    BY <1>11 DEF Flush, TypeOK
  <2>2. Head(out[s]) \in Bytes /\ Tail(out[s]) \in Seq(Bytes)
    BY <2>1, HeadTailProperties
  <2>3. /\ Append(got[s], Head(out[s])) \in Seq(Bytes)
        /\ Append(got[s], Head(out[s])) # <<>>
    BY <2>1, <2>2, AppendProperties
  <2>4. TypeOK'
    BY <1>11, <2>2, <2>3 DEF Flush, TypeOK
  <2>5. Settled => Settled'
    BY <1>11, <2>3, <1>s DEF Flush, Settled, TypeOK
  <2> QED BY <1>11, <2>4, <2>5 DEF Flush, Settling
<1>12. CASE UNCHANGED vars
  BY <1>12 DEF vars, TypeOK, Settling, Settled
<1>13. CASE DiesOtherwise
  BY <1>13, <1>s DEF DiesOtherwise, Die, Close, TypeOK, Settling, Settled, Sides
<1> QED
  BY <1>1, <1>2, <1>3, <1>4, <1>5, <1>6, <1>7, <1>8, <1>9, <1>10, <1>11, <1>12,
     <1>13 DEF Next, Read, Piped

\* No socket is opened by a proxy that is not there.
LEMMA GoneStep == IInv /\ [Next]_vars => Gone'
<1> SUFFICES ASSUME TypeOK, Gone, [Next]_vars PROVE Gone'
  BY DEF IInv, Base
<1>1. ASSUME alive' = alive,
             \A s \in Sides : socket'[s] \in {"none", "closed", socket[s]}
      PROVE  Gone'
  BY <1>1 DEF Gone
<1>2. ASSUME NEW s \in Sides, Close(s) PROVE Gone'
  BY <1>2 DEF Gone, Close, TypeOK
<1>3. CASE Discard
  BY <1>1, <1>3 DEF Discard
<1>4. ASSUME NEW n \in 1 .. Len(in["client"]), OnHeaders(n) PROVE Gone'
  <2>1. alive
    BY <1>4 DEF OnHeaders, IsOpen, Gone, Sides
  <2>2. CASE alive' = alive
    BY <2>1, <2>2 DEF Gone
  <2>3. CASE alive' # alive
    BY <1>2, <1>4, <2>3 DEF OnHeaders, Die, Sides
  <2> QED BY <2>2, <2>3
<1>5. CASE Connect \/ ConnectFails
  <2>1. alive /\ alive' = alive
    BY <1>5 DEF Connect, ConnectFails, Gone, Sides
  <2> QED BY <2>1 DEF Gone
<1>6. ASSUME NEW s \in Sides,
             PeerSends(s) \/ PeerEnds(s) \/ Reset(s) \/ End(s) \/ Finish(s)
               \/ Flush(s)
      PROVE  Gone'
  <2>1. alive /\ alive' = alive
    BY <1>6 DEF PeerSends, PeerEnds, Reset, End, Finish, Flush, IsOpen, Gone
  <2> QED BY <2>1 DEF Gone
<1>7. ASSUME NEW s \in Sides, NEW n \in 1 .. Len(in[s]), Pipe(s, n) PROVE Gone'
  <2>1. alive /\ alive' = alive
    BY <1>7 DEF Pipe, IsOpen, Gone
  <2> QED BY <2>1 DEF Gone
<1>8. CASE DiesOtherwise
  BY <1>2, <1>8 DEF DiesOtherwise, Die, Sides
<1>9. CASE UNCHANGED vars
  BY <1>1, <1>9 DEF vars
<1> QED BY <1>3, <1>4, <1>5, <1>6, <1>7, <1>8, <1>9 DEF Next, Read, Piped

\* A step preserves the invariant.
LEMMA StepInv == IInv /\ [Next]_vars => IInv'
BY BaseStep, GoneStep DEF IInv

\* The inductive invariant holds of every behaviour.
THEOREM InvariantHolds == Spec => []IInv
BY InitInv, StepInv, PTL DEF Spec

\* Every variable keeps its type, and the header buffer its limit.
THEOREM TypeCorrect == Spec => []TypeOK
<1>1. IInv => TypeOK
  BY DEF IInv, Base
<1> QED BY InvariantHolds, <1>1, PTL

\* As long as the proxy is there, no client whose request was read is closed
\* without an answer, unless it gave up itself.
THEOREM EveryClientAnswered == Spec => []Answered
<1>1. IInv => Answered
  BY DEF IInv, Base, TypeOK, Settling, Settled, Answered
<1> QED BY InvariantHolds, <1>1, PTL

-----------------------------------------------------------------------------
(* GotInOrder and concatenations of bytes.                                   *)

\* What a sequence begins with is a prefix of it.
LEMMA PrefixOfConcat ==
  ASSUME NEW a \in Seq(Bytes), NEW b \in Seq(Bytes)
  PROVE  IsPrefix(a, a \o b)
<1>1. Len(a) \in Nat /\ Len(b) \in Nat /\ Len(a \o b) = Len(a) + Len(b)
  BY LenProperties, ConcatProperties
<1>2. CASE Len(a) = 0
  BY <1>1, <1>2, SubSeqEmpty DEF IsPrefix
<1>3. CASE Len(a) # 0
  BY <1>1, <1>3, SubSeqOfConcat1 DEF IsPrefix
<1> QED BY <1>2, <1>3

\* A prefix stays one when more is added behind.
LEMMA PrefixExtended ==
  ASSUME NEW a \in Seq(Bytes), NEW b \in Seq(Bytes), NEW c \in Seq(Bytes),
         IsPrefix(a, b)
  PROVE  IsPrefix(a, b \o c)
<1>1. /\ Len(a) \in Nat /\ Len(b) \in Nat /\ Len(c) \in Nat
      /\ Len(b \o c) = Len(b) + Len(c)
  BY LenProperties, ConcatProperties
<1>2. Len(a) <= Len(b) /\ SubSeq(a, 1, Len(a)) = SubSeq(b, 1, Len(a))
  BY DEF IsPrefix
<1>3. SubSeq(b \o c, 1, Len(a)) = SubSeq(b, 1, Len(a))
  <2>1. CASE Len(a) = 0
    BY <2>1, SubSeqEmpty
  <2>2. CASE Len(a) # 0
    BY <1>1, <1>2, <2>2, SubSeqOfConcat1
  <2> QED BY <2>1, <2>2
<1> QED BY <1>1, <1>2, <1>3 DEF IsPrefix

\* The empty sequence is a prefix of each.
LEMMA PrefixEmpty ==
  ASSUME NEW b \in Seq(Bytes) PROVE IsPrefix(<<>>, b)
<1>1. <<>> \in Seq(Bytes) /\ <<>> \o b = b
  BY EmptySeq, ConcatEmptySeq
<1> QED BY <1>1, PrefixOfConcat

\* Concatenations may be grouped at will: bytes that are cut in two can be
\* moved in part.
Grouping(a, b, c, d) ==
  /\ (b \o c) \o d = b \o (c \o d)
  /\ (a \o (b \o c)) \o d = (a \o b) \o (c \o d)

LEMMA Regroup == \A a, b, c, d \in Seq(Bytes) : Grouping(a, b, c, d)
<1> TAKE a, b, c, d \in Seq(Bytes)
<1>1. b \o c \in Seq(Bytes) /\ c \o d \in Seq(Bytes)
  BY ConcatProperties
<1>2. (b \o c) \o d = b \o (c \o d)
  BY ConcatAssociative
<1>3. (a \o (b \o c)) \o d = a \o ((b \o c) \o d)
  BY <1>1, ConcatAssociative, SMTT(20)
<1>4. (a \o b) \o (c \o d) = a \o (b \o (c \o d))
  BY <1>1, ConcatAssociative
<1> QED BY <1>2, <1>3, <1>4 DEF Grouping

\* A chunk that moves from one buffer to the next changes nothing of the whole.
Chunked(a, b, c, n) ==
  /\ (a \o (b \o SubSeq(c, 1, n))) \o SubSeq(c, n + 1, Len(c)) = (a \o b) \o c
  /\ (b \o SubSeq(c, 1, n)) \o SubSeq(c, n + 1, Len(c)) = b \o c

LEMMA ChunkMoves ==
  \A a, b, c \in Seq(Bytes) : \A n \in 1 .. Len(c) : Chunked(a, b, c, n)
<1> TAKE a, b, c \in Seq(Bytes)
<1> TAKE n \in 1 .. Len(c)
<1>1. /\ SubSeq(c, 1, n) \in Seq(Bytes) /\ SubSeq(c, n + 1, Len(c)) \in Seq(Bytes)
      /\ Len(c) \in Nat
  BY Chunk, LenProperties
<1>2. SubSeq(c, 1, n) \o SubSeq(c, n + 1, Len(c)) = c
  <2>1. SubSeq(c, 1, n) \o SubSeq(c, n + 1, Len(c)) = SubSeq(c, 1, Len(c))
    BY <1>1, ConcatAdjacentSubSeq
  <2> QED BY <2>1, SubSeqFull
<1>3. Grouping(a, b, SubSeq(c, 1, n), SubSeq(c, n + 1, Len(c)))
  BY <1>1, Regroup
<1> QED BY <1>2, <1>3 DEF Grouping, Chunked

\* So does a byte that is flushed.
LEMMA ByteMoves ==
  ASSUME NEW a \in Seq(Bytes), NEW b \in Seq(Bytes), b # <<>>
  PROVE  Append(a, Head(b)) \o Tail(b) = a \o b
<1>1. Len(b) \in Nat \ {0} /\ Head(b) \in Bytes /\ Tail(b) \in Seq(Bytes)
  BY EmptySeq, HeadTailProperties
<1>2. b = <<Head(b)>> \o Tail(b)
  <2>1. SubSeq(b, 1, Len(b)) = <<b[1]>> \o SubSeq(b, 2, Len(b))
    BY <1>1, SubSeqRecursiveFirst
  <2>2. SubSeq(b, 1, Len(b)) = b /\ Tail(b) = SubSeq(b, 2, Len(b))
    BY SubSeqFull, TailIsSubSeq
  <2>3. Head(b) = b[1]
    BY <1>1, <2>2, HeadTailOfSubSeq
  <2> QED BY <2>1, <2>2, <2>3
<1>3. <<Head(b)>> \in Seq(Bytes)
  BY <1>1
<1>4. Append(a, Head(b)) = a \o <<Head(b)>>
  BY <1>1, AppendIsConcat
<1>5. (a \o <<Head(b)>>) \o Tail(b) = a \o (<<Head(b)>> \o Tail(b))
  BY <1>1, <1>3, ConcatAssociative
<1> QED BY <1>2, <1>4, <1>5

-----------------------------------------------------------------------------
(* Streams and payloads.                                                   *)

\* The client's stream, byte by byte.
LEMMA ClientStream ==
  ASSUME TypeOK
  PROVE  /\ request.head \in Nat /\ Len(ClientBytes) \in Nat
         /\ Stream("client") \in Seq(Bytes)
         /\ Len(Stream("client")) = request.head + 1 + Len(ClientBytes)
         /\ \A i \in 1 .. request.head + 1 + Len(ClientBytes) :
               Stream("client")[i] =
                   IF i <= request.head THEN "head"
                   ELSE IF i = request.head + 1 THEN "end"
                   ELSE ClientBytes[i - request.head - 1]
<1> DEFINE h == [i \in 1 .. request.head |-> "head"]
<1>1. request.head \in Nat
  BY LimitAssumption DEF TypeOK, Requests
<1>2. h \in Seq(Bytes) /\ Len(h) = request.head
  <2>1. h \in [1 .. request.head -> Bytes]
    BY DEF Bytes
  <2>2. h \in Seq(Bytes)
    BY <1>1, <2>1, SeqDef
  <2>3. DOMAIN h = 1 .. request.head /\ DOMAIN h = 1 .. Len(h) /\ Len(h) \in Nat
    BY <2>1, <2>2, LenProperties
  <2> QED BY <1>1, <2>2, <2>3
<1>3. <<"end">> \in Seq(Bytes) /\ Len(<<"end">>) = 1 /\ <<"end">>[1] = "end"
  BY DEF Bytes
<1>4. ClientBytes \in Seq(Bytes) /\ Len(ClientBytes) \in Nat
  BY BytesAssumption, SeqMonotonic, LenProperties DEF Bytes
<1>5. \A i \in 1 .. request.head : h[i] = "head"
  OBVIOUS
<1> HIDE DEF h
<1>6. /\ h \o <<"end">> \in Seq(Bytes)
      /\ Len(h \o <<"end">>) = request.head + 1
      /\ \A i \in 1 .. request.head + 1 : (h \o <<"end">>)[i] =
            IF i <= request.head THEN "head" ELSE "end"
  <2>1. \A i \in 1 .. request.head + 1 : (h \o <<"end">>)[i] =
            IF i <= request.head THEN h[i] ELSE <<"end">>[i - request.head]
    BY <1>2, <1>3, ConcatProperties
  <2>2. ASSUME NEW i \in 1 .. request.head + 1
        PROVE  (h \o <<"end">>)[i] = IF i <= request.head THEN "head" ELSE "end"
    <3>1. CASE i <= request.head
      BY <1>1, <1>5, <2>1, <3>1
    <3>2. CASE ~ (i <= request.head)
      <4>1. i - request.head = 1
        BY <1>1, <3>2
      <4> QED BY <1>3, <2>1, <3>2, <4>1
    <3> QED BY <3>1, <3>2
  <2>3. /\ h \o <<"end">> \in Seq(Bytes)
        /\ Len(h \o <<"end">>) = request.head + 1
    BY <1>2, <1>3, ConcatProperties
  <2> QED BY <2>2, <2>3
<1>7. Stream("client") = (h \o <<"end">>) \o ClientBytes
  BY DEF Stream, h
<1> DEFINE t == h \o <<"end">>
<1>8. /\ t \o ClientBytes \in Seq(Bytes)
      /\ Len(t \o ClientBytes) = Len(t) + Len(ClientBytes)
      /\ \A i \in 1 .. Len(t) + Len(ClientBytes) : (t \o ClientBytes)[i] =
            IF i <= Len(t) THEN t[i] ELSE ClientBytes[i - Len(t)]
  <2> HIDE DEF t
  <2>1. t \in Seq(Bytes)
    BY <1>6 DEF t
  <2> QED BY <1>4, <2>1, ConcatProperties
<1>9. ASSUME NEW i \in 1 .. request.head + 1 + Len(ClientBytes)
      PROVE  (t \o ClientBytes)[i] =
                IF i <= request.head THEN "head"
                ELSE IF i = request.head + 1 THEN "end"
                ELSE ClientBytes[i - request.head - 1]
  <2>1. Len(t) = request.head + 1
    BY <1>6
  <2>2. \A j \in 1 .. request.head + 1 :
           t[j] = IF j <= request.head THEN "head" ELSE "end"
    BY <1>6
  <2> HIDE DEF t
  <2>3. CASE i <= request.head + 1
    BY <1>1, <1>4, <1>8, <2>1, <2>2, <2>3
  <2>4. CASE ~ (i <= request.head + 1)
    <3>1. i - (request.head + 1) = i - request.head - 1
      BY <1>1, <1>4
    <3> QED BY <1>1, <1>4, <1>8, <2>1, <2>4, <3>1
  <2> QED BY <2>3, <2>4
<1> QED BY <1>1, <1>4, <1>6, <1>7, <1>8, <1>9

\* The front of a sequence of bytes is one, a negative number of them included.
LEMMA FrontBytes ==
  ASSUME NEW b \in Seq(Bytes), NEW n \in Int, n <= Len(b)
  PROVE  SubSeq(b, 1, n) \in Seq(Bytes)
<1>1. CASE n < 1
  BY <1>1, SubSeqEmpty, EmptySeq
<1>2. CASE n >= 1
  BY <1>2, SubSeqBytes
<1> QED BY <1>1, <1>2

\* Payloads are bytes.
LEMMA PayloadBytes ==
  ASSUME TypeOK, \A s \in Sides : sent[s] <= Len(Stream(s))
  PROVE  \A s \in Sides : Payload(s) \in Seq(Bytes)
<1>1. /\ request.head \in Nat /\ Len(ClientBytes) \in Nat
      /\ sent["client"] \in Nat /\ sent["upstream"] \in Nat
      /\ sent["client"] <= request.head + 1 + Len(ClientBytes)
      /\ sent["upstream"] <= Len(UpstreamBytes)
  BY ClientStream DEF TypeOK, Sides, Stream
<1>2. ClientBytes \in Seq(Bytes) /\ UpstreamBytes \in Seq(Bytes)
  BY BytesAssumption, SeqMonotonic DEF Bytes
<1>3. SubSeq(UpstreamBytes, 1, sent["upstream"]) \in Seq(Bytes)
  BY <1>1, <1>2, SubSeqBytes
<1>4. <<"200">> \in Seq(Bytes)
  BY DEF Bytes
<1>5. Payload("client") \in Seq(Bytes)
  BY <1>3, <1>4, ConcatProperties DEF Payload
<1>6. Payload("upstream") \in Seq(Bytes)
  <2>1. /\ sent["client"] - request.head - 1 \in Int
        /\ sent["client"] - request.head - 1 <= Len(ClientBytes)
    BY <1>1
  <2> QED BY <1>2, <2>1, FrontBytes DEF Payload
<1> QED BY <1>5, <1>6 DEF Sides

\* A concatenation, part by part.
LEMMA ConcatAt ==
  ASSUME NEW a \in Seq(Bytes), NEW b \in Seq(Bytes)
  PROVE  /\ Len(a) \in Nat /\ Len(b) \in Nat /\ a \o b \in Seq(Bytes)
         /\ Len(a \o b) = Len(a) + Len(b)
         /\ \A i \in 1 .. Len(a) : (a \o b)[i] = a[i]
         /\ \A i \in 1 .. Len(b) : (a \o b)[Len(a) + i] = b[i]
<1>1. Len(a) \in Nat /\ Len(b) \in Nat
  BY LenProperties
<1>2. /\ a \o b \in Seq(Bytes)
      /\ Len(a \o b) = Len(a) + Len(b)
      /\ \A i \in 1 .. Len(a) + Len(b) : (a \o b)[i] =
            IF i <= Len(a) THEN a[i] ELSE b[i - Len(a)]
  BY ConcatProperties
<1>3. ASSUME NEW i \in 1 .. Len(a) PROVE (a \o b)[i] = a[i]
  <2>1. i \in 1 .. Len(a) + Len(b) /\ i <= Len(a)
    BY <1>1
  <2> QED BY <1>2, <2>1
<1>4. ASSUME NEW i \in 1 .. Len(b) PROVE (a \o b)[Len(a) + i] = b[i]
  <2>1. /\ Len(a) + i \in 1 .. Len(a) + Len(b) /\ ~ (Len(a) + i <= Len(a))
        /\ Len(a) + i - Len(a) = i
    BY <1>1
  <2>2. (a \o b)[Len(a) + i] =
            IF Len(a) + i <= Len(a) THEN a[Len(a) + i] ELSE b[Len(a) + i - Len(a)]
    BY <1>2, <2>1
  <2> QED BY <2>1, <2>2
<1> QED BY <1>1, <1>2, <1>3, <1>4

\* The part of a sequence behind its first j bytes.
LEMMA SubSeqAt ==
  ASSUME NEW a \in Seq(Bytes), NEW j \in Nat, NEW n \in Nat,
         j <= n, n <= Len(a)
  PROVE  /\ SubSeq(a, j + 1, n) \in Seq(Bytes)
         /\ Len(SubSeq(a, j + 1, n)) = n - j
         /\ \A i \in 1 .. n - j : SubSeq(a, j + 1, n)[i] = a[j + i]
<1>1. Len(a) \in Nat
  BY LenProperties
<1>2. \A i \in j + 1 .. n : a[i] \in Bytes
  BY <1>1, ElementOfSeq
<1>3. /\ SubSeq(a, j + 1, n) \in Seq(Bytes)
      /\ Len(SubSeq(a, j + 1, n)) = IF j + 1 <= n THEN n - (j + 1) + 1 ELSE 0
      /\ \A i \in 1 .. n - (j + 1) + 1 :
            SubSeq(a, j + 1, n)[i] = a[j + 1 + i - 1]
  BY <1>2, SubSeqProperties
<1>4. ASSUME NEW i \in 1 .. n - j PROVE SubSeq(a, j + 1, n)[i] = a[j + i]
  <2>1. i \in 1 .. n - (j + 1) + 1 /\ j + 1 + i - 1 = j + i
    OBVIOUS
  <2> QED BY <1>3, <2>1
<1> QED BY <1>3, <1>4

\* read and rest are the first k bytes of a stream that carries the data t
\* behind its first h bytes, and read has those.
FrontOf(read, rest, t, stream, h, k) ==
  /\ Len(read) >= h /\ k <= h + Len(t) /\ Len(read) + Len(rest) = k
  /\ \A i \in 1 .. k : (read \o rest)[i] = stream[i]
  /\ \A i \in 1 .. Len(t) : stream[h + i] = t[i]

\* The data of both is the front of t.
DataOf(read, rest, t, h, k) ==
  SubSeq(read, h + 1, Len(read)) \o rest = SubSeq(t, 1, k - h)

LEMMA CutData ==
  ASSUME NEW read \in Seq(Bytes), NEW rest \in Seq(Bytes), NEW t \in Seq(Bytes),
         NEW stream \in Seq(Bytes), NEW h \in Nat, NEW k \in Nat,
         FrontOf(read, rest, t, stream, h, k)
  PROVE  DataOf(read, rest, t, h, k)
<1>0. /\ Len(read) >= h /\ k <= h + Len(t) /\ Len(read) + Len(rest) = k
      /\ \A i \in 1 .. k : (read \o rest)[i] = stream[i]
      /\ \A i \in 1 .. Len(t) : stream[h + i] = t[i]
  BY DEF FrontOf
<1> DEFINE behind == SubSeq(read, h + 1, Len(read))
           data == SubSeq(t, 1, k - h)
<1>1. /\ Len(read) \in Nat /\ Len(rest) \in Nat /\ Len(t) \in Nat
      /\ k - h \in Nat /\ k - h <= Len(t)
      /\ Len(read) - h \in Nat /\ Len(read) - h + Len(rest) = k - h
  <2>1. Len(read) \in Nat /\ Len(rest) \in Nat /\ Len(t) \in Nat
    BY LenProperties
  <2> QED BY <1>0, <2>1
<1>2. /\ behind \in Seq(Bytes) /\ Len(behind) = Len(read) - h
      /\ \A i \in 1 .. Len(read) - h : behind[i] = read[h + i]
  BY <1>1, SubSeqAt
<1>3. /\ data \in Seq(Bytes) /\ Len(data) = k - h
      /\ \A i \in 1 .. k - h : data[i] = t[i]
  <2>1. /\ SubSeq(t, 0 + 1, k - h) \in Seq(Bytes)
        /\ Len(SubSeq(t, 0 + 1, k - h)) = k - h - 0
        /\ \A i \in 1 .. k - h - 0 : SubSeq(t, 0 + 1, k - h)[i] = t[0 + i]
    BY <1>1, SubSeqAt
  <2>2. 0 + 1 = 1 /\ k - h - 0 = k - h /\ \A i \in 1 .. k - h : 0 + i = i
    BY <1>1
  <2> QED BY <2>1, <2>2
<1> HIDE DEF behind, data
<1>4. /\ behind \o rest \in Seq(Bytes) /\ Len(behind \o rest) = k - h
      /\ \A i \in 1 .. Len(behind) : (behind \o rest)[i] = behind[i]
      /\ \A i \in 1 .. Len(rest) : (behind \o rest)[Len(behind) + i] = rest[i]
  <2>1. /\ behind \o rest \in Seq(Bytes)
        /\ Len(behind \o rest) = Len(behind) + Len(rest)
        /\ \A i \in 1 .. Len(behind) : (behind \o rest)[i] = behind[i]
        /\ \A i \in 1 .. Len(rest) : (behind \o rest)[Len(behind) + i] = rest[i]
    BY <1>2, ConcatAt
  <2>2. Len(behind) + Len(rest) = k - h
    BY <1>1, <1>2
  <2> QED BY <2>1, <2>2
<1>5. ASSUME NEW i \in 1 .. k - h PROVE (behind \o rest)[i] = t[i]
  <2>1. h + i \in 1 .. k /\ i \in 1 .. Len(t)
    BY <1>1
  <2>2. (read \o rest)[h + i] = t[i]
    BY <1>0, <2>1
  <2>3. CASE i <= Len(read) - h
    <3>1. i \in 1 .. Len(behind) /\ i \in 1 .. Len(read) - h
          /\ h + i \in 1 .. Len(read)
      BY <1>1, <1>2, <2>3
    <3>2. (behind \o rest)[i] = behind[i] /\ behind[i] = read[h + i]
      BY <1>2, <1>4, <3>1
    <3>3. (read \o rest)[h + i] = read[h + i]
      BY <3>1, ConcatAt
    <3> QED BY <2>2, <3>2, <3>3
  <2>4. CASE ~ (i <= Len(read) - h)
    <3>1. PICK j \in 1 .. Len(rest) : i = Len(read) - h + j
      <4>1. i - (Len(read) - h) \in 1 .. Len(rest)
        BY <1>1, <2>4
      <4>2. i = Len(read) - h + (i - (Len(read) - h))
        BY <1>1
      <4> QED BY <4>1, <4>2
    <3>2. Len(read) + j = h + i /\ Len(behind) + j = i
      BY <1>1, <1>2, <3>1
    <3>3. (behind \o rest)[Len(behind) + j] = rest[j]
      BY <1>4
    <3>4. (read \o rest)[Len(read) + j] = rest[j]
      BY ConcatAt
    <3> QED BY <2>2, <3>2, <3>3, <3>4
  <2> QED BY <2>3, <2>4
<1>6. behind \o rest = data
  <2>1. \A i \in 1 .. k - h : (behind \o rest)[i] = data[i]
    BY <1>3, <1>5
  <2> QED BY <1>3, <1>4, <2>1, SeqEqual
<1> QED BY <1>6 DEF behind, data, DataOf

\* When the end of the request has been read, what is behind it is the front of
\* what the upstream is to get, and the client's unread bytes are the rest.
LEMMA BehindRead ==
  ASSUME TypeOK, NEW read \in Seq(Bytes), NEW rest \in Seq(Bytes),
         sent["client"] <= Len(Stream("client")),
         read \o rest = SubSeq(Stream("client"), 1, sent["client"]),
         Headed(read)
  PROVE  /\ sent["client"] > request.head
         /\ Behind(read) \in Seq(Bytes)
         /\ Behind(read) \o rest = Payload("upstream")
<1>1. PICK h \in Nat : h = request.head + 1 /\ request.head \in Nat
  BY ClientStream
<1>2. PICK k \in Nat : k = sent["client"]
  BY DEF TypeOK, Sides
<1>3. PICK stream \in Seq(Bytes) : stream = Stream("client")
  BY ClientStream
<1>4. /\ ClientBytes \in Seq(Bytes) /\ Len(ClientBytes) \in Nat
      /\ Len(stream) = h + Len(ClientBytes)
      /\ \A i \in 1 .. h - 1 : stream[i] = "head"
      /\ \A i \in 1 .. Len(ClientBytes) : stream[h + i] = ClientBytes[i]
  <2>1. ClientBytes \in Seq(Bytes)
    BY BytesAssumption, SeqMonotonic DEF Bytes
  <2>2. request.head = h - 1 /\ request.head \in Nat /\ Len(ClientBytes) \in Nat
    BY <1>1, ClientStream
  <2>3. /\ Len(stream) = h - 1 + 1 + Len(ClientBytes)
        /\ \A i \in 1 .. h - 1 + 1 + Len(ClientBytes) : stream[i] =
              IF i <= h - 1 THEN "head"
              ELSE IF i = h - 1 + 1 THEN "end"
              ELSE ClientBytes[i - (h - 1) - 1]
    BY <1>3, <2>2, ClientStream
  <2>4. ASSUME NEW i \in 1 .. Len(ClientBytes)
        PROVE  stream[h + i] = ClientBytes[i]
    <3>1. /\ h + i \in 1 .. h - 1 + 1 + Len(ClientBytes) /\ ~ (h + i <= h - 1)
          /\ h + i # h - 1 + 1 /\ h + i - (h - 1) - 1 = i
      BY <2>2
    <3>2. stream[h + i] = ClientBytes[h + i - (h - 1) - 1]
      BY <2>3, <3>1
    <3> QED BY <3>1, <3>2
  <2>5. ASSUME NEW i \in 1 .. h - 1 PROVE stream[i] = "head"
    <3>1. i \in 1 .. h - 1 + 1 + Len(ClientBytes) /\ i <= h - 1
      BY <2>2
    <3> QED BY <2>3, <3>1
  <2> QED BY <2>1, <2>2, <2>3, <2>4, <2>5
<1>5. k <= Len(stream) /\ read \o rest = SubSeq(stream, 1, k)
  BY <1>2, <1>3
<1>6. /\ Len(read) \in Nat /\ Len(rest) \in Nat /\ Len(read) + Len(rest) = k
      /\ \A i \in 1 .. k : (read \o rest)[i] = stream[i]
      /\ \A i \in 1 .. Len(read) : read[i] = stream[i]
  <2>1. /\ Len(SubSeq(stream, 0 + 1, k)) = k - 0
        /\ \A i \in 1 .. k - 0 : SubSeq(stream, 0 + 1, k)[i] = stream[0 + i]
    BY <1>5, SubSeqAt
  <2>2. 0 + 1 = 1 /\ k - 0 = k /\ \A i \in 1 .. k : 0 + i = i
    OBVIOUS
  <2>3. Len(read \o rest) = k /\ \A i \in 1 .. k : (read \o rest)[i] = stream[i]
    BY <1>5, <2>1, <2>2
  <2>4. /\ Len(read) \in Nat /\ Len(rest) \in Nat
        /\ Len(read) + Len(rest) = k
        /\ \A i \in 1 .. Len(read) : (read \o rest)[i] = read[i]
    BY <2>3, ConcatAt
  <2>5. \A i \in 1 .. Len(read) : i \in 1 .. k
    BY <2>4
  <2> QED BY <2>3, <2>4, <2>5
<1>7. Len(read) >= h
  <2>1. DOMAIN read = 1 .. Len(read)
    BY LenProperties
  <2>2. PICK i \in 1 .. Len(read) : read[i] = "end"
    BY <2>1 DEF Headed
  <2>3. i \notin 1 .. h - 1
    BY <1>4, <1>6, <2>2
  <2> QED BY <1>6, <2>2, <2>3
<1>8. SubSeq(read, h + 1, Len(read)) \o rest = SubSeq(ClientBytes, 1, k - h)
  <2>1. k <= h + Len(ClientBytes)
    BY <1>4, <1>5
  <2>2. FrontOf(read, rest, ClientBytes, stream, h, k)
    BY <1>4, <1>6, <1>7, <2>1 DEF FrontOf
  <2>3. DataOf(read, rest, ClientBytes, h, k)
    BY <1>4, <2>2, CutData
  <2> QED BY <2>3 DEF DataOf
<1>9. request.head + 2 = h + 1 /\ sent["client"] - request.head - 1 = k - h
      /\ sent["client"] > request.head
  <2>1. k >= h
    BY <1>1, <1>2, <1>6, <1>7
  <2>2. PICK m \in Nat : m = request.head
    BY <1>1
  <2>3. h = m + 1
    BY <1>1, <2>2
  <2>4. m + 2 = h + 1 /\ k - m - 1 = k - h /\ k > m
    BY <2>1, <2>3
  <2> QED BY <1>2, <2>2, <2>4, Zenon
<1>10. Behind(read) = SubSeq(read, h + 1, Len(read))
  BY <1>9 DEF Behind
<1>11. Behind(read) \in Seq(Bytes)
  <2>1. h \in Nat /\ Len(read) \in Nat /\ h <= Len(read)
    BY <1>1, <1>6, <1>7
  <2> QED BY <1>10, <2>1, SubSeqAt
<1>12. Payload("upstream") = SubSeq(ClientBytes, 1, k - h)
  BY <1>9 DEF Payload
<1> QED BY <1>8, <1>9, <1>10, <1>11, <1>12

\* What a peer is to get is the other's doing.
LEMMA SameAnswer ==
  ASSUME sent'["upstream"] = sent["upstream"]
  PROVE  Payload("client")' = Payload("client")
BY DEF Payload

LEMMA SameData ==
  ASSUME sent'["client"] = sent["client"], request' = request
  PROVE  Payload("upstream")' = Payload("upstream")
BY DEF Payload

\* What a peer sends is added to what the other one is to get, if the request is
\* over.
LEMMA PayloadGrows ==
  ASSUME TypeOK, NEW s \in Sides, sent["client"] > request.head,
         sent[s] < Len(Stream(s)), sent["upstream"] <= Len(UpstreamBytes),
         sent' = [sent EXCEPT ![s] = @ + 1], UNCHANGED request
  PROVE  /\ Payload(Other(s))' = Payload(Other(s)) \o <<Stream(s)[sent[s] + 1]>>
         /\ Payload(s)' = Payload(s)
         /\ Stream(s)[sent[s] + 1] \in Bytes
<1>1. ClientBytes \in Seq(Bytes) /\ UpstreamBytes \in Seq(Bytes) /\ <<"200">> \in Seq(Bytes)
  BY BytesAssumption, SeqMonotonic DEF Bytes
<1>2. /\ Len(ClientBytes) \in Nat /\ Len(UpstreamBytes) \in Nat
      /\ sent[s] \in Nat /\ sent["client"] \in Nat /\ request.head \in Nat
  BY <1>1, LenProperties, ClientStream DEF TypeOK, Sides
<1>3. CASE s = "upstream"
  <2>1. PICK n \in Nat : n = sent["upstream"]
    BY <1>2, <1>3
  <2>2. n + 1 \in 1 .. Len(UpstreamBytes)
    BY <1>2, <1>3, <2>1 DEF Stream
  <2>3. SubSeq(UpstreamBytes, 1, n + 1) =
            SubSeq(UpstreamBytes, 1, n + 1 - 1) \o <<UpstreamBytes[n + 1]>>
    BY <1>1, <2>2, SubSeqRecursiveSecond
  <2>4. n + 1 - 1 = n /\ UpstreamBytes[n + 1] \in Bytes
    BY <1>1, <2>2, ElementOfSeq
  <2>5. SubSeq(UpstreamBytes, 1, n) \in Seq(Bytes)
    BY <1>1, <2>2, <1>2, SubSeqBytes
  <2>6. <<UpstreamBytes[n + 1]>> \in Seq(Bytes)
    BY <2>4
  <2>7. (<<"200">> \o SubSeq(UpstreamBytes, 1, n)) \o <<UpstreamBytes[n + 1]>> =
            <<"200">> \o (SubSeq(UpstreamBytes, 1, n) \o <<UpstreamBytes[n + 1]>>)
    <3>1. Grouping(<<"200">>, <<"200">>, SubSeq(UpstreamBytes, 1, n),
                   <<UpstreamBytes[n + 1]>>)
      BY <1>1, <2>5, <2>6, Regroup
    <3> QED BY <3>1 DEF Grouping
  <2>8. /\ sent'["upstream"] = n + 1 /\ sent'["client"] = sent["client"]
    BY <1>3, <2>1 DEF TypeOK, Sides
  <2>9. Payload("client")' = Payload("client") \o <<UpstreamBytes[n + 1]>>
    BY <2>1, <2>3, <2>4, <2>7, <2>8 DEF Payload
  <2>10. Payload("upstream")' = Payload("upstream")
    BY <2>8, SameData
  <2> QED BY <1>3, <2>1, <2>4, <2>9, <2>10 DEF Other, Stream
<1>4. CASE s = "client"
  <2>1. PICK n \in Nat : n = sent["client"] - request.head - 1
    BY <1>2
  <2>2. n + 1 \in 1 .. Len(ClientBytes) /\ Stream(s)[sent[s] + 1] = ClientBytes[n + 1]
    <3>1. sent["client"] + 1 \in 1 .. request.head + 1 + Len(ClientBytes)
      BY <1>2, <1>4, ClientStream
    <3>2. /\ ~ (sent["client"] + 1 <= request.head)
          /\ sent["client"] + 1 # request.head + 1
          /\ sent["client"] + 1 - request.head - 1 = n + 1
      BY <1>2, <2>1
    <3>3. sent["client"] < request.head + 1 + Len(ClientBytes)
      BY <1>4, ClientStream
    <3>4. n + 1 \in 1 .. Len(ClientBytes)
      <4>1. \A m, h, l \in Nat : n = m - h - 1 /\ m < h + 1 + l => n + 1 \in 1 .. l
        BY <2>1
      <4>2. /\ sent["client"] \in Nat /\ request.head \in Nat
            /\ Len(ClientBytes) \in Nat
            /\ n = sent["client"] - request.head - 1
            /\ sent["client"] < request.head + 1 + Len(ClientBytes)
        BY <1>2, <2>1, <3>3
      <4> QED BY <4>1, <4>2, Zenon
    <3>5. PICK m \in 1 .. request.head + 1 + Len(ClientBytes) :
              m = sent["client"] + 1
      BY <3>1
    <3>6. Stream("client")[m] = ClientBytes[m - request.head - 1]
      BY <3>2, <3>5, ClientStream
    <3>7. Stream("client")[sent["client"] + 1] = ClientBytes[n + 1]
      <4>1. m - request.head - 1 = n + 1
        <5>1. \A k, h \in Nat : n = k - h - 1 /\ m = k + 1 => m - h - 1 = n + 1
          BY <3>5
        <5> QED BY <1>2, <2>1, <3>5, <5>1, Zenon
      <4> QED BY <3>5, <3>6, <4>1
    <3> QED BY <1>4, <3>4, <3>7
  <2>3. SubSeq(ClientBytes, 1, n + 1) =
            SubSeq(ClientBytes, 1, n + 1 - 1) \o <<ClientBytes[n + 1]>>
    BY <1>1, <2>2, SubSeqRecursiveSecond
  <2>4. n + 1 - 1 = n /\ ClientBytes[n + 1] \in Bytes
    BY <1>1, <2>2, ElementOfSeq
  <2>5. sent'["client"] = sent["client"] + 1 /\ sent'["upstream"] = sent["upstream"]
    BY <1>4 DEF TypeOK, Sides
  <2>6. sent'["client"] - request.head - 1 = n + 1
    BY <1>2, <2>1, <2>5
  <2>7. Payload("upstream")' = Payload("upstream") \o <<ClientBytes[n + 1]>>
    BY <2>1, <2>3, <2>4, <2>6 DEF Payload
  <2>8. Payload("client")' = Payload("client")
    BY <2>5, SameAnswer
  <2> QED BY <1>4, <2>2, <2>4, <2>7, <2>8 DEF Other
<1> QED BY <1>3, <1>4 DEF Sides
-----------------------------------------------------------------------------
(* The order of the bytes.                                                 *)

\* All bytes on their way to the peer of s, as far as they have come.
Whole(s) == got[s] \o out[s] \o in[Other(s)]

\* Before the tunnel nothing is on its way to or from the upstream.
Untouched ==
    /\ got["upstream"] = <<>> /\ in["upstream"] = <<>>
    /\ out["client"] = <<>> /\ out["upstream"] = <<>>
    /\ sent["upstream"] = 0
    /\ socket["upstream"] # "open"

\* What the peers have got is in order, tunnel or not.
GotInOrder ==
    /\ IsPrefix(got["upstream"], Payload("upstream"))
    /\ \/ IsPrefix(got["client"], Payload("client"))
       \/ got["client"] \in {<<"405">>, <<"502">>}

\* Where the client's bytes are in each phase; InOrder alone does not say how
\* they come from the header into the tunnel.
Ordered ==
    /\ \A s \in Sides : sent[s] <= Len(Stream(s))
    /\ socket["client"] # "none"
    /\ socket["upstream"] \in {"connecting", "open"} => IsOpen("client")
    /\ socket["upstream"] = "connecting" => phase = "connecting"
    /\ phase # "tunnel" => Untouched
    /\ phase = "header" =>
          buf \o in["client"] = SubSeq(Stream("client"), 1, sent["client"])
    /\ phase # "header" => sent["client"] > request.head
    /\ phase = "connecting" => buf \o in["client"] = Payload("upstream")
    /\ phase = "tunnel" /\ IsOpen("client") =>
          \A s \in Sides : Whole(s) = Payload(s)
    /\ GotInOrder

\* At the beginning nothing has been sent.
LEMMA OrderedInit == Init => Ordered
<1> SUFFICES ASSUME Init PROVE Ordered
  OBVIOUS
<1>1. TypeOK
  BY InitInv DEF IInv, Base
<1>2. /\ \A s \in Sides : sent[s] = 0 /\ out[s] = <<>> /\ got[s] = <<>> /\ in[s] = <<>>
      /\ buf = <<>> /\ phase = "header"
      /\ socket["client"] = "open" /\ socket["upstream"] = "none"
  BY DEF Init, Sides
<1>3. \A s \in Sides : Len(Stream(s)) \in Nat
  BY <1>1, StreamBytes, LenProperties
<1>4. \A s \in Sides : sent[s] <= Len(Stream(s))
  BY <1>2, <1>3
<1>5. \A s \in Sides : IsPrefix(<<>>, Payload(s))
  BY <1>1, <1>4, PayloadBytes, PrefixEmpty
<1>6. <<>> \o <<>> = SubSeq(Stream("client"), 1, 0)
  <2>1. <<>> \o <<>> = <<>>
    BY EmptySeq, ConcatEmptySeq
  <2> QED BY <2>1, SubSeqEmpty
<1> QED BY <1>2, <1>4, <1>5, <1>6 DEF Ordered, Untouched, GotInOrder, Sides

\* The sockets stay as they are, or those that there are are closed.
Shut == \A t \in Sides : /\ socket'[t] \in {"none", "closed"}
                         /\ socket[t] # "none" => socket'[t] = "closed"

\* A 'close' takes the other side along.
LEMMA CloseShuts ==
  ASSUME TypeOK, NEW s \in Sides, Close(s)
  PROVE  Shut
BY DEF Shut, Close, TypeOK

\* Steps that neither read, write nor flush anything.
LEMMA OrderedStill ==
  ASSUME TypeOK, Ordered, UNCHANGED <<request, phase, buf, sent, in, out, got>>,
         UNCHANGED socket \/ Shut
  PROVE  Ordered'
<1>1. \A s \in Sides : Stream(s)' = Stream(s) /\ Payload(s)' = Payload(s)
                       /\ Whole(s)' = Whole(s)
  BY DEF Stream, Payload, Whole
<1>2. GotInOrder'
  BY <1>1 DEF Ordered, GotInOrder, Sides
<1>3. phase' # "tunnel" => Untouched'
  BY DEF Ordered, Untouched, Shut, Sides
<1>4. /\ socket'["client"] # "none"
      /\ socket'["upstream"] \in {"connecting", "open"} => IsOpen("client")'
      /\ IsOpen("client")' => IsOpen("client")
      /\ socket'["upstream"] = "connecting" => socket["upstream"] = "connecting"
  BY DEF Ordered, Shut, Sides, IsOpen
<1> QED BY <1>1, <1>2, <1>3, <1>4 DEF Ordered, Sides

\* A byte is added behind what is on its way.
Added(a, b, c, x) ==
    /\ b \o Append(c, x) = (b \o c) \o <<x>>
    /\ a \o b \o Append(c, x) = (a \o b \o c) \o <<x>>

LEMMA ByteAdded == \A a, b, c \in Seq(Bytes), x \in Bytes : Added(a, b, c, x)
<1> TAKE a, b, c \in Seq(Bytes), x \in Bytes
<1>1. Append(c, x) = c \o <<x>> /\ <<x>> \in Seq(Bytes) /\ a \o b \in Seq(Bytes)
  BY AppendIsConcat, ConcatProperties
<1>2. Grouping(a, b, c, <<x>>) /\ Grouping(a, a \o b, c, <<x>>)
  BY <1>1, Regroup
<1> QED BY <1>1, <1>2 DEF Grouping, Added

\* A peer sends a byte.
LEMMA OrderedSends ==
  ASSUME TypeOK, Ordered, NEW s \in Sides, PeerSends(s)
  PROVE  Ordered'
<1> DEFINE o == Other(s)
<1>1. /\ IsOpen(s) /\ sent[s] < Len(Stream(s))
      /\ sent' = [sent EXCEPT ![s] = @ + 1] /\ sent'[s] = sent[s] + 1
      /\ sent[s] \in Nat /\ Len(Stream(s)) \in Nat
      /\ UNCHANGED <<request, phase, buf, socket, out, got>>
  BY StreamBytes, LenProperties DEF PeerSends, TypeOK
<1>2. PICK x \in Bytes : /\ x = Stream(s)[sent[s] + 1]
                         /\ in' = [in EXCEPT ![s] = Append(@, x)]
  <2>1. sent[s] + 1 \in 1 .. Len(Stream(s)) /\ Stream(s) \in Seq(Bytes)
    BY <1>1, StreamBytes
  <2>2. Stream(s)[sent[s] + 1] \in Bytes
    BY <2>1, ElementOfSeq
  <2> QED BY <1>1, <2>2 DEF PeerSends
<1>3. /\ in[s] \in Seq(Bytes) /\ in'[s] = Append(in[s], x)
      /\ buf \in Seq(Bytes) /\ <<x>> \in Seq(Bytes)
      /\ \A t \in Sides \ {s} : sent'[t] = sent[t] /\ in'[t] = in[t]
      /\ \A t \in Sides : out[t] \in Seq(Bytes) /\ got[t] \in Seq(Bytes)
                          /\ in[t] \in Seq(Bytes)
      /\ o \in Sides /\ o # s /\ Other(o) = s /\ Sides = {s, o}
  BY <1>1, <1>2 DEF TypeOK, Other, Sides
<1>4. /\ \A t \in Sides : Stream(t)' = Stream(t)
      /\ \A t \in Sides : sent'[t] <= Len(Stream(t)')
  <2>1. \A t \in Sides : Stream(t)' = Stream(t)
    BY <1>1 DEF Stream
  <2> QED BY <1>1, <1>3, <2>1 DEF Ordered
<1>5. \A t \in Sides : Payload(t) \in Seq(Bytes)
  BY PayloadBytes DEF Ordered
<1>6. IsOpen("client") /\ (phase # "tunnel" => s = "client")
  BY <1>1 DEF Ordered, Untouched, IsOpen, Sides
<1>9. phase # "header" => sent'["client"] > request.head
  <2>1. PICK h \in Nat, k \in Nat, l \in Nat :
            h = request.head /\ k = sent["client"] /\ l = sent'["client"] /\ l >= k
    <3>1. request.head \in Nat /\ sent["client"] \in Nat
      BY ClientStream DEF TypeOK, Sides
    <3>2. sent'["client"] \in {sent["client"], sent["client"] + 1}
      BY <1>1, <1>3 DEF Sides
    <3> QED BY <3>1, <3>2
  <2> QED BY <2>1 DEF Ordered
<1>7. CASE phase = "header"
  <2>1. /\ s = "client" /\ in'["upstream"] = in["upstream"]
        /\ sent'["upstream"] = sent["upstream"]
        /\ sent'["client"] = sent["client"] + 1
    BY <1>1, <1>3, <1>6, <1>7 DEF Sides
  <2>2. Untouched'
    BY <1>1, <1>7, <2>1 DEF Ordered, Untouched
  <2>3. (buf \o in["client"])' = SubSeq(Stream("client"), 1, sent'["client"])
    <3>1. PICK k \in Nat : k = sent["client"]
      BY <1>1, <2>1
    <3>2. k + 1 \in 1 .. Len(Stream("client")) /\ Stream("client") \in Seq(Bytes)
      BY <1>1, <2>1, <3>1, StreamBytes
    <3>3. SubSeq(Stream("client"), 1, k + 1) =
              SubSeq(Stream("client"), 1, k + 1 - 1) \o <<Stream("client")[k + 1]>>
      BY <3>2, SubSeqRecursiveSecond
    <3>4. k + 1 - 1 = k
      OBVIOUS
    <3>5. buf \o in'["client"] = (buf \o in["client"]) \o <<x>>
      <4>1. Added(buf, buf, in["client"], x)
        BY <1>3, <2>1, ByteAdded
      <4> QED BY <1>3, <2>1, <4>1 DEF Added
    <3>6. buf \o in["client"] = SubSeq(Stream("client"), 1, k)
      BY <1>7, <3>1 DEF Ordered
    <3>7. x = Stream("client")[k + 1] /\ sent'["client"] = k + 1 /\ buf' = buf
      BY <1>1, <1>2, <2>1, <3>1
    <3> QED BY <3>3, <3>4, <3>5, <3>6, <3>7
  <2>4. GotInOrder'
    <3>1. IsPrefix(<<>>, Payload("upstream")')
      <4>1. /\ request.head \in Nat /\ sent'["client"] \in Nat
            /\ sent'["client"] <= request.head + 1 + Len(ClientBytes)
            /\ Len(ClientBytes) \in Nat /\ ClientBytes \in Seq(Bytes)
        BY <1>1, <1>4, <2>1, ClientStream, BytesAssumption, SeqMonotonic DEF Bytes
      <4>2. PICK n \in Int : n = sent'["client"] - request.head - 1
        BY <4>1
      <4>3. n <= Len(ClientBytes)
        BY <4>1, <4>2
      <4>4. SubSeq(ClientBytes, 1, n) \in Seq(Bytes)
        BY <4>1, <4>3, FrontBytes
      <4>5. Payload("upstream")' = SubSeq(ClientBytes, 1, n)
        BY <1>1, <4>2 DEF Payload
      <4> QED BY <4>4, <4>5, PrefixEmpty
    <3>2. Payload("client")' = Payload("client")
      BY <2>1, SameAnswer
    <3> QED BY <1>1, <1>7, <3>1, <3>2 DEF Ordered, GotInOrder, Untouched
  <2> QED BY <1>1, <1>4, <1>7, <2>2, <2>3, <2>4, <1>6 DEF Ordered, IsOpen
<1>8. CASE phase # "header"
  <2>1. /\ Payload(o)' = Payload(o) \o <<x>>
        /\ Payload(s)' = Payload(s)
    <3>1. sent["client"] > request.head /\ sent["upstream"] <= Len(UpstreamBytes)
      BY <1>8 DEF Ordered, Stream, Sides
    <3> QED BY <1>1, <1>2, <3>1, PayloadGrows
  <2>2. GotInOrder'
    <3>1. \A t \in Sides : IsPrefix(got[t], Payload(t)) => IsPrefix(got[t], Payload(t)')
      <4>1. IsPrefix(got[o], Payload(o)) => IsPrefix(got[o], Payload(o)')
        BY <1>3, <1>5, <2>1, PrefixExtended
      <4> QED BY <1>3, <2>1, <4>1
    <3> QED BY <1>1, <3>1 DEF Ordered, GotInOrder, Sides
  <2>3. CASE phase = "tunnel"
    <3>1. Whole(s)' = Payload(s)'
      <4>1. Whole(s)' = Whole(s)
        BY <1>1, <1>3 DEF Whole
      <4> QED BY <1>6, <2>1, <2>3, <4>1 DEF Ordered
    <3>2. Whole(o)' = Payload(o)'
      <4>1. Whole(o)' = got[o] \o out[o] \o Append(in[s], x)
        BY <1>1, <1>3 DEF Whole
      <4>2. Whole(o) = got[o] \o out[o] \o in[s]
        BY <1>3 DEF Whole
      <4>3. got[o] \o out[o] \o Append(in[s], x) = (got[o] \o out[o] \o in[s]) \o <<x>>
        <5>1. Added(got[o], out[o], in[s], x)
          BY <1>3, ByteAdded
        <5> QED BY <5>1 DEF Added
      <4>4. Whole(o) = Payload(o)
        BY <1>3, <1>6, <2>3 DEF Ordered
      <4> QED BY <2>1, <4>1, <4>2, <4>3, <4>4
    <3>3. \A t \in Sides : Whole(t)' = Payload(t)'
      BY <1>3, <3>1, <3>2
    <3>4. sent'["client"] > request.head
      BY <1>8, <1>9
    <3> QED BY <1>1, <1>4, <1>6, <2>2, <2>3, <3>3, <3>4 DEF Ordered, IsOpen
  <2>4. CASE phase # "tunnel"
    <3>1. s = "client" /\ o = "upstream" /\ sent'["upstream"] = sent["upstream"]
          /\ in'["upstream"] = in["upstream"]
      BY <1>3, <1>6, <2>4 DEF Other
    <3>2. Untouched'
      BY <1>1, <2>4, <3>1 DEF Ordered, Untouched
    <3>3. phase = "connecting" => (buf \o in["client"])' = Payload("upstream")'
      <4>1. buf \o Append(in[s], x) = (buf \o in[s]) \o <<x>>
        <5>1. Added(buf, buf, in[s], x)
          BY <1>3, ByteAdded
        <5> QED BY <5>1 DEF Added
      <4>2. buf' \o in'[s] = (buf \o in[s]) \o <<x>>
        BY <1>1, <1>3, <4>1
      <4> QED BY <2>1, <3>1, <4>2 DEF Ordered
    <3>4. sent'["client"] > request.head
      BY <1>8, <1>9
    <3> QED BY <1>1, <1>4, <1>6, <1>8, <2>2, <2>4, <3>2, <3>3, <3>4 DEF Ordered, IsOpen
  <2> QED BY <2>3, <2>4
<1> QED BY <1>7, <1>8
\* onHeaders(): the bytes move from the socket to the buffer, and when the
\* request is over, what is in the buffer behind it is the upstream's.
LEMMA OrderedHeaders ==
  ASSUME TypeOK, Ordered, NEW n \in 1 .. Len(in["client"]), OnHeaders(n)
  PROVE  Ordered'
<1>1. PICK read \in Seq(Bytes), rest \in Seq(Bytes) :
          /\ read = buf \o SubSeq(in["client"], 1, n)
          /\ rest = SubSeq(in["client"], n + 1, Len(in["client"]))
          /\ read \o rest = buf \o in["client"]
  <2>1. buf \in Seq(Bytes) /\ in["client"] \in Seq(Bytes)
    BY DEF TypeOK, Sides
  <2>2. /\ SubSeq(in["client"], 1, n) \in Seq(Bytes)
        /\ SubSeq(in["client"], n + 1, Len(in["client"])) \in Seq(Bytes)
    BY <2>1, Chunk
  <2>3. buf \o SubSeq(in["client"], 1, n) \in Seq(Bytes)
    BY <2>1, <2>2, ConcatProperties
  <2>4. (buf \o SubSeq(in["client"], 1, n))
            \o SubSeq(in["client"], n + 1, Len(in["client"])) = buf \o in["client"]
    <3>1. Chunked(buf, buf, in["client"], n)
      BY <2>1, ChunkMoves
    <3> QED BY <3>1 DEF Chunked
  <2> QED BY <2>2, <2>3, <2>4
<1>2. /\ phase = "header" /\ socket["client"] = "open"
      /\ in' = [in EXCEPT !["client"] = rest]
      /\ in'["client"] = rest /\ in'["upstream"] = in["upstream"]
      /\ UNCHANGED <<request, sent, rd, out>>
  BY <1>1 DEF OnHeaders, IsOpen, TypeOK, Sides
<1>3. read \o rest = SubSeq(Stream("client"), 1, sent["client"])
  BY <1>1, <1>2 DEF Ordered
<1>4. \A s \in Sides : Stream(s)' = Stream(s) /\ Payload(s)' = Payload(s)
  BY <1>2 DEF Stream, Payload
<1>5. Untouched /\ \A s \in Sides : sent[s] <= Len(Stream(s))
  BY <1>2 DEF Ordered
<1>6. Headed(read) =>
          /\ sent["client"] > request.head
          /\ Behind(read) \o rest = Payload("upstream")
  BY <1>3, <1>5, BehindRead DEF Sides
<1>7. CASE ~ Headed(read)
  <2>1. /\ buf' = read
        /\ UNCHANGED socket \/ Close("client")
        /\ UNCHANGED <<phase, wr, got>>
    BY <1>1, <1>7 DEF OnHeaders
  <2>2. UNCHANGED socket \/ Shut
    BY <2>1, CloseShuts DEF Sides
  <2>3. /\ socket'["client"] # "none"
        /\ socket'["upstream"] \notin {"connecting", "open"}
    BY <1>2, <1>5, <2>2 DEF Ordered, Untouched, Shut, Sides, IsOpen
  <2>4. Untouched'
    BY <1>2, <1>5, <2>1, <2>3 DEF Untouched
  <2>5. GotInOrder'
    BY <1>4, <2>1 DEF Ordered, GotInOrder, Sides
  <2>6. buf' \o in'["client"] = SubSeq(Stream("client")', 1, sent'["client"])
    BY <1>2, <1>3, <1>4, <2>1 DEF Sides
  <2> QED BY <1>2, <1>4, <1>5, <2>1, <2>3, <2>4, <2>5, <2>6 DEF Ordered
<1>8. CASE Headed(read) /\ request.line = "other"
  <2>1. /\ phase' = "refused"
        /\ got'["client"] = <<"405">> /\ got'["upstream"] = got["upstream"]
        /\ UNCHANGED socket
    BY <1>1, <1>8 DEF OnHeaders, TypeOK, Sides
  <2>2. Untouched'
    BY <1>2, <1>5, <2>1 DEF Untouched
  <2>3. GotInOrder'
    BY <1>4, <2>1 DEF Ordered, GotInOrder, Sides
  <2> QED BY <1>2, <1>4, <1>5, <1>6, <1>8, <2>1, <2>2, <2>3 DEF Ordered, IsOpen
<1>9. CASE Headed(read) /\ request.line # "other"
  <2>0. /\ phase' = "connecting"
        /\ buf' = Behind(read)
        /\ UNCHANGED got
        /\ \/ Die
           \/ socket' = [socket EXCEPT !["upstream"] = "connecting"]
    BY <1>1, <1>9 DEF OnHeaders
  <2>1. /\ phase' = "connecting"
        /\ buf' = Behind(read)
        /\ socket'["client"] # "none" /\ socket'["upstream"] # "open"
        /\ socket'["upstream"] = "connecting" => socket'["client"] = "open"
        /\ UNCHANGED got
    BY <1>2, <2>0 DEF Die, Close, TypeOK, Sides
  <2>2. Untouched'
    BY <1>2, <1>5, <2>1 DEF Untouched
  <2>3. GotInOrder'
    BY <1>4, <2>1 DEF Ordered, GotInOrder, Sides
  <2>4. buf' \o in'["client"] = Payload("upstream")'
    BY <1>2, <1>4, <1>6, <1>9, <2>1 DEF Sides
  <2> QED BY <1>2, <1>4, <1>5, <1>6, <1>9, <2>1, <2>2, <2>3, <2>4 DEF Ordered, IsOpen
<1> QED BY <1>7, <1>8, <1>9

\* A refused client's bytes go nowhere.
LEMMA OrderedDiscard ==
  ASSUME TypeOK, Ordered, Discard
  PROVE  Ordered'
<1>1. /\ phase = "refused" /\ in'["upstream"] = in["upstream"]
      /\ UNCHANGED <<request, phase, buf, socket, sent, rd, out, wr, got>>
  BY DEF Discard, TypeOK, Sides
<1>2. \A s \in Sides : Stream(s)' = Stream(s) /\ Payload(s)' = Payload(s)
  BY <1>1 DEF Stream, Payload
<1>3. GotInOrder' /\ Untouched'
  BY <1>1, <1>2 DEF Ordered, GotInOrder, Untouched, Sides
<1> QED BY <1>1, <1>2, <1>3 DEF Ordered, IsOpen

\* The tunnel begins with the answer for the client and with the buffer for the
\* upstream.
LEMMA OrderedConnect ==
  ASSUME TypeOK, Ordered, Connect
  PROVE  Ordered'
<1>1. /\ socket["upstream"] = "connecting" /\ socket["client"] = "open"
      /\ phase = "connecting" /\ phase' = "tunnel"
      /\ UNCHANGED <<alive, request, sent, in, rd, wr>>
  BY DEF Connect, Ordered, IsOpen
<1>2. /\ Untouched /\ \A s \in Sides : sent[s] <= Len(Stream(s))
      /\ buf \o in["client"] = Payload("upstream")
      /\ sent["client"] > request.head
  BY <1>1 DEF Ordered
<1>3. \A s \in Sides : Stream(s)' = Stream(s) /\ Payload(s)' = Payload(s)
                       /\ Payload(s) \in Seq(Bytes)
  <2>1. \A s \in Sides : Stream(s)' = Stream(s) /\ Payload(s)' = Payload(s)
    BY <1>1 DEF Stream, Payload
  <2> QED BY <1>2, <2>1, PayloadBytes
<1>4. /\ buf \in Seq(Bytes) /\ in["client"] \in Seq(Bytes)
      /\ <<"200">> \in Seq(Bytes) /\ <<>> \in Seq(Bytes)
  BY DEF TypeOK, Sides, Bytes
<1>5. CASE wr["client"] = "open"
  <2>1. /\ socket'["client"] = "open" /\ socket'["upstream"] = "open"
        /\ got'["client"] = <<"200">> /\ got'["upstream"] = <<>>
        /\ out'["upstream"] = buf /\ out'["client"] = <<>>
        /\ in'["upstream"] = <<>>
    BY <1>1, <1>2, <1>5 DEF Connect, TypeOK, Sides, Untouched
  <2>2. Payload("client") = <<"200">>
    <3>1. SubSeq(UpstreamBytes, 1, 0) = <<>>
      BY SubSeqEmpty
    <3>2. <<"200">> \o <<>> = <<"200">>
      BY <1>4, ConcatEmptySeq
    <3> QED BY <1>2, <3>1, <3>2 DEF Payload, Untouched
  <2>3. Whole("client")' = <<"200">>
    <3>1. <<"200">> \o <<>> \o <<>> = <<"200">>
      BY <1>4, ConcatEmptySeq
    <3> QED BY <2>1, <3>1 DEF Whole, Other
  <2>4. Whole("upstream")' = buf \o in["client"]
    <3>1. <<>> \o buf = buf
      BY <1>4, ConcatEmptySeq
    <3>2. Whole("upstream")' = <<>> \o buf \o in["client"]
      BY <1>1, <2>1 DEF Whole, Other
    <3> QED BY <3>1, <3>2
  <2>5. \A s \in Sides : Whole(s)' = Payload(s)'
    BY <1>2, <1>3, <2>2, <2>3, <2>4 DEF Sides
  <2>6. GotInOrder'
    <3>1. IsPrefix(<<>>, Payload("upstream"))
      BY <1>3, PrefixEmpty DEF Sides
    <3>2. IsPrefix(<<"200">>, Payload("client"))
      <4>1. IsPrefix(<<"200">>, <<"200">> \o <<>>) /\ <<"200">> \o <<>> = <<"200">>
        BY <1>4, PrefixOfConcat, ConcatEmptySeq
      <4> QED BY <2>2, <4>1
    <3> QED BY <1>3, <2>1, <3>1, <3>2 DEF GotInOrder, Sides
  <2> QED BY <1>1, <1>2, <1>3, <2>1, <2>5, <2>6 DEF Ordered, IsOpen
<1>6. CASE wr["client"] # "open"
  <2>1. PICK b \in {<<>>, buf} : /\ got' = [got EXCEPT !["upstream"] = b]
                                 /\ Close("client")
    BY <1>6 DEF Connect
  <2>2. Shut
    BY <2>1, CloseShuts DEF Sides
  <2>3. IsPrefix(b, Payload("upstream"))
    <3>1. IsPrefix(<<>>, Payload("upstream"))
      BY <1>3, PrefixEmpty DEF Sides
    <3>2. IsPrefix(buf, buf \o in["client"])
      BY <1>4, PrefixOfConcat
    <3> QED BY <1>2, <2>1, <3>1, <3>2
  <2>4. got'["client"] = got["client"] /\ got'["upstream"] = b
    BY <2>1 DEF TypeOK, Sides
  <2>5. GotInOrder'
    BY <1>3, <2>3, <2>4 DEF Ordered, GotInOrder, Sides
  <2>6. socket'["client"] = "closed" /\ socket'["upstream"] = "closed"
    BY <1>1, <2>2 DEF Shut, Sides
  <2> QED BY <1>1, <1>2, <1>3, <2>5, <2>6 DEF Ordered, IsOpen
<1> QED BY <1>5, <1>6

\* A failed connection leaves the client with its answer.
LEMMA OrderedFails ==
  ASSUME TypeOK, Ordered, ConnectFails
  PROVE  Ordered'
<1>1. /\ socket["upstream"] = "connecting" /\ socket["client"] = "open"
      /\ Close("upstream") /\ phase = "connecting"
      /\ got'["upstream"] = got["upstream"]
      /\ got'["client"] \in {got["client"], <<"502">>}
      /\ UNCHANGED <<alive, request, phase, buf, sent, in, rd, out, wr>>
  BY DEF ConnectFails, Ordered, IsOpen, TypeOK, Sides
<1>2. socket'["client"] = "closed" /\ socket'["upstream"] = "closed"
  BY <1>1, CloseShuts DEF Shut, Sides
<1>3. \A s \in Sides : Stream(s)' = Stream(s) /\ Payload(s)' = Payload(s)
  BY <1>1 DEF Stream, Payload
<1>4. GotInOrder'
  BY <1>1, <1>3 DEF Ordered, GotInOrder, Sides
<1>5. Untouched'
  BY <1>1, <1>2 DEF Ordered, Untouched
<1>6. /\ \A s \in Sides : sent'[s] <= Len(Stream(s)')
      /\ sent'["client"] > request'.head
  BY <1>1, <1>3 DEF Ordered
<1>7. buf' \o in'["client"] = Payload("upstream")'
  BY <1>1, <1>3 DEF Ordered, Sides
<1> QED BY <1>1, <1>2, <1>4, <1>5, <1>6, <1>7 DEF Ordered, IsOpen

\* The pipe takes a chunk from one socket to the other.
LEMMA OrderedPipe ==
  ASSUME TypeOK, Ordered, NEW s \in Sides, NEW n \in 1 .. Len(in[s]), Pipe(s, n)
  PROVE  Ordered'
<1> DEFINE o == Other(s)
<1>1. /\ phase = "tunnel" /\ IsOpen(s) /\ IsOpen(o)
      /\ in' = [in EXCEPT ![s] = SubSeq(@, n + 1, Len(@))]
      /\ UNCHANGED <<alive, request, phase, buf, sent, rd, wr, got>>
  BY DEF Pipe
<1>2. /\ o \in Sides /\ o # s /\ Other(o) = s /\ Sides = {s, o}
      /\ in[s] \in Seq(Bytes) /\ in'[s] = SubSeq(in[s], n + 1, Len(in[s]))
      /\ in'[o] = in[o] /\ got[o] \in Seq(Bytes) /\ out[o] \in Seq(Bytes)
  BY <1>1 DEF Other, Sides, TypeOK
<1>3. \A t \in Sides : Stream(t)' = Stream(t) /\ Payload(t)' = Payload(t)
  BY <1>1 DEF Stream, Payload
<1>4. GotInOrder'
  BY <1>1, <1>3 DEF Ordered, GotInOrder, Sides
<1>5. CASE wr[o] = "open"
  <2>1. /\ UNCHANGED socket
        /\ out'[o] = out[o] \o SubSeq(in[s], 1, n) /\ out'[s] = out[s]
    BY <1>2, <1>5 DEF Pipe, TypeOK
  <2>2. Whole(s)' = Whole(s)
    BY <1>1, <1>2, <2>1 DEF Whole
  <2>3. Whole(o)' = Whole(o)
    <3>1. Chunked(got[o], out[o], in[s], n)
      BY <1>2, ChunkMoves
    <3>2. Whole(o)' = got[o] \o (out[o] \o SubSeq(in[s], 1, n))
                             \o SubSeq(in[s], n + 1, Len(in[s]))
      BY <1>1, <1>2, <2>1 DEF Whole
    <3>3. Whole(o) = got[o] \o out[o] \o in[s]
      BY <1>2 DEF Whole
    <3> QED BY <3>1, <3>2, <3>3 DEF Chunked
  <2>4. IsOpen("client") => \A t \in Sides : Whole(t)' = Payload(t)'
    BY <1>1, <1>2, <1>3, <2>2, <2>3 DEF Ordered
  <2> QED BY <1>1, <1>3, <1>4, <2>1, <2>4 DEF Ordered, IsOpen
<1>6. CASE wr[o] # "open"
  <2>1. Shut
    BY <1>2, <1>6, CloseShuts DEF Pipe
  <2>2. socket'["client"] = "closed" /\ socket'["upstream"] \in {"none", "closed"}
    BY <2>1 DEF Shut, Ordered, Sides
  <2> QED BY <1>1, <1>3, <1>4, <2>2 DEF Ordered, IsOpen
<1> QED BY <1>5, <1>6

\* A byte that is flushed is the next one.
LEMMA OrderedFlush ==
  ASSUME TypeOK, Ordered, NEW s \in Sides, Flush(s)
  PROVE  Ordered'
<1>1. /\ IsOpen(s) /\ out[s] # <<>>
      /\ got' = [got EXCEPT ![s] = Append(@, Head(out[s]))]
      /\ out' = [out EXCEPT ![s] = Tail(@)]
      /\ UNCHANGED <<request, phase, buf, socket, sent, in, rd, wr>>
  BY DEF Flush
<1>2. /\ got'[s] = Append(got[s], Head(out[s])) /\ out'[s] = Tail(out[s])
      /\ \A t \in Sides \ {s} : got'[t] = got[t] /\ out'[t] = out[t]
      /\ got[s] \in Seq(Bytes) /\ out[s] \in Seq(Bytes)
      /\ Other(s) \in Sides /\ in[Other(s)] \in Seq(Bytes)
  BY <1>1 DEF TypeOK, Other, Sides
<1>3. phase = "tunnel" /\ IsOpen("client")
  BY <1>1 DEF Ordered, Untouched, IsOpen, Sides
<1>4. \A t \in Sides : Stream(t)' = Stream(t) /\ Payload(t)' = Payload(t)
  BY <1>1 DEF Stream, Payload
<1>5. Append(got[s], Head(out[s])) \o Tail(out[s]) = got[s] \o out[s]
  BY <1>1, <1>2, ByteMoves
<1>6. \A t \in Sides : Whole(t)' = Whole(t)
  <2>1. Whole(s)' = Whole(s)
    BY <1>1, <1>2, <1>5 DEF Whole
  <2>2. \A t \in Sides \ {s} : Whole(t)' = Whole(t)
    BY <1>1, <1>2 DEF Whole
  <2> QED BY <2>1, <2>2
<1>7. \A t \in Sides : Whole(t) = Payload(t)
  BY <1>3 DEF Ordered
<1>8. IsPrefix(got'[s], Payload(s))
  <2>1. Tail(out[s]) \in Seq(Bytes) /\ Append(got[s], Head(out[s])) \in Seq(Bytes)
        /\ Tail(out[s]) \o in[Other(s)] \in Seq(Bytes)
    <3>1. Head(out[s]) \in Bytes /\ Tail(out[s]) \in Seq(Bytes)
      BY <1>1, <1>2, HeadTailProperties
    <3> QED BY <1>2, <3>1, AppendProperties, ConcatProperties
  <2>2. PICK g \in Seq(Bytes), r \in Seq(Bytes), i \in Seq(Bytes) :
            g = got'[s] /\ r = out'[s] /\ i = in[Other(s)]
    BY <1>2, <2>1
  <2>3. Payload(s) = g \o r \o i
    BY <1>1, <1>6, <1>7, <2>2 DEF Whole
  <2>4. IsPrefix(g, g \o r \o i)
    <3>1. IsPrefix(g, g \o (r \o i)) /\ Grouping(g, g, r, i)
      BY PrefixOfConcat, ConcatProperties, Regroup
    <3> QED BY <3>1 DEF Grouping
  <2> QED BY <2>2, <2>3, <2>4
<1>9. GotInOrder'
  <2>1. \A t \in Sides : IsPrefix(got[t], Payload(t)) => IsPrefix(got'[t], Payload(t)')
    BY <1>2, <1>4, <1>8
  <2>2. IsPrefix(got'[s], Payload(s)')
    BY <1>4, <1>8
  <2>3. \A t \in Sides \ {s} : got'[t] = got[t]
    BY <1>2
  <2> QED BY <2>1, <2>2, <2>3 DEF Ordered, GotInOrder, Sides
<1> QED BY <1>1, <1>3, <1>4, <1>6, <1>7, <1>9 DEF Ordered, IsOpen

\* Every step keeps the order.
LEMMA OrderedStep ==
  ASSUME TypeOK, Ordered, [Next]_vars
  PROVE  Ordered'
<1>1. CASE Discard
  BY <1>1, OrderedDiscard
<1>2. ASSUME NEW n \in 1 .. Len(in["client"]), OnHeaders(n) PROVE Ordered'
  BY <1>2, OrderedHeaders
<1>3. CASE Connect
  BY <1>3, OrderedConnect
<1>4. CASE ConnectFails
  BY <1>4, OrderedFails
<1>5. ASSUME NEW s \in Sides, PeerSends(s) PROVE Ordered'
  BY <1>5, OrderedSends
<1>6. ASSUME NEW s \in Sides, PeerEnds(s) PROVE Ordered'
  BY <1>6, OrderedStill DEF PeerEnds
<1>7. ASSUME NEW s \in Sides, Reset(s) PROVE Ordered'
  BY <1>7, OrderedStill, CloseShuts DEF Reset
<1>8. ASSUME NEW s \in Sides, End(s) PROVE Ordered'
  BY <1>8, OrderedStill, CloseShuts DEF End
<1>9. ASSUME NEW s \in Sides, Finish(s) PROVE Ordered'
  BY <1>9, OrderedStill, CloseShuts DEF Finish
<1>10. ASSUME NEW s \in Sides, NEW n \in 1 .. Len(in[s]), Pipe(s, n) PROVE Ordered'
  BY <1>10, OrderedPipe
<1>11. ASSUME NEW s \in Sides, Flush(s) PROVE Ordered'
  BY <1>11, OrderedFlush
<1>12. CASE UNCHANGED vars
  BY <1>12, OrderedStill DEF vars
<1>13. CASE DiesOtherwise
  BY <1>13, OrderedStill, CloseShuts DEF DiesOtherwise, Die, Sides
<1> QED
  BY <1>1, <1>2, <1>3, <1>4, <1>5, <1>6, <1>7, <1>8, <1>9, <1>10, <1>11, <1>12,
     <1>13 DEF Next, Read, Piped

\* Each peer gets the other's bytes in their order, none twice and none left
\* out, and as long as the tunnel stands none is lost.
THEOREM BytesInOrder == Spec => []InOrder
<1>1. Init => TypeOK /\ Ordered
  BY InitInv, OrderedInit DEF IInv, Base
<1>2. TypeOK /\ Ordered /\ [Next]_vars => Ordered'
  BY OrderedStep
<1>3. IInv => TypeOK
  BY DEF IInv, Base
<1>4. Ordered => InOrder
  BY DEF Ordered, GotInOrder, Whole, InOrder
<1> QED BY InvariantHolds, <1>1, <1>2, <1>3, <1>4, PTL DEF Spec

-----------------------------------------------------------------------------
(* The promise to the peers.                                               *)

\* A client that waits has no answer yet.
Unanswered == Mode \in {"asking", "asked"} => got["client"] = <<>>

\* Where the phases are in the life of a tunnel.
LEMMA Modes ==
  ASSUME TypeOK
  PROVE  /\ Mode \in {"asking", "asked", "open", "over"}
         /\ Mode = "over" <=> (socket["client"] = "closed" \/ phase = "refused")
         /\ Mode = "asking" <=> (phase = "header" /\ socket["client"] # "closed")
         /\ Mode = "asked" <=> (phase = "connecting" /\ socket["client"] # "closed")
         /\ Mode = "open" <=> (phase = "tunnel" /\ socket["client"] # "closed")
BY DEF Mode, TypeOK

\* What is due to the peers is the payload.
LEMMA DueIsPayload ==
  ASSUME TypeOK, NEW s \in Sides
  PROVE  Promise!Due(s) = Payload(s)
<1>1. CASE s = "client"
  BY <1>1 DEF Promise!Due, Payload, SentOn, Sides
<1>2. CASE s = "upstream"
  <2>1. request.head \in Nat /\ sent["client"] \in Nat
    BY ClientStream DEF TypeOK, Sides
  <2>2. CASE sent["client"] > request.head
    BY <1>2, <2>2 DEF Promise!Due, Payload, SentOn, Sides
  <2>3. CASE ~ (sent["client"] > request.head)
    <3>1. /\ SubSeq(ClientBytes, 1, 0) = <<>>
          /\ SubSeq(ClientBytes, 1, sent["client"] - request.head - 1) = <<>>
      BY <2>1, <2>3, SubSeqEmpty
    <3> QED BY <1>2, <2>3, <3>1 DEF Promise!Due, Payload, SentOn, Sides
  <2> QED BY <2>2, <2>3
<1> QED BY <1>1, <1>2 DEF Sides

\* A step that neither sends nor gives the peers anything, nor goes on to the
\* next phase, leaves the tunnel as it is, or leaves both peers, or is a client
\* giving up.
LEMMA LeaveStep ==
  ASSUME TypeOK, Ordered, UNCHANGED <<alive, request, phase, sent, got>>,
         UNCHANGED socket \/ Shut,
         rd["client"] # "open" => rd'["client"] # "open",
         Mode = "asked" /\ socket' # socket => rd'["client"] # "open",
         TypeOK'
  PROVE  [Promise!Next]_(Promise!vars)
<1>1. SentOn' = SentOn /\ got' = got
  BY DEF SentOn
<1>2. CASE Mode' = Mode
  <2>1. CASE (rd'["client"] # "open") = (rd["client"] # "open")
    BY <1>1, <1>2, <2>1 DEF Promise!vars
  <2>2. CASE (rd'["client"] # "open") /\ ~ (rd["client"] # "open")
    BY <1>1, <1>2, <2>2 DEF Promise!Next, Promise!GiveUp
  <2> QED BY <2>1, <2>2
<1>3. CASE Mode' # Mode
  <2>1. socket' # socket
    <3>1. socket' = socket => Mode' = Mode
      BY DEF Mode
    <3> QED BY <1>3, <3>1
  <2>2. socket'["client"] = "closed" /\ socket["client"] # "closed"
        /\ phase # "refused"
    BY <1>3, <2>1 DEF Shut, Ordered, Mode, Sides
  <2>3. Mode # "over" /\ Mode' = "over"
    <3>1. Mode # "over"
      BY <2>2, Modes
    <3>2. Mode' = "over"
      BY <2>2 DEF Mode
    <3> QED BY <3>1, <3>2
  <2>4. (rd'["client"] # "open") \in {rd["client"] # "open", TRUE}
    OBVIOUS
  <2>5. CASE Mode # "asked"
    BY <1>1, <2>3, <2>4, <2>5 DEF Promise!Next, Promise!Leave
  <2>6. CASE Mode = "asked"
    <3>1. got["upstream"] = <<>>
      BY <2>6, Modes DEF Ordered, Untouched
    <3>2. Promise!Due("upstream") \in Seq(Bytes)
      BY DueIsPayload, PayloadBytes DEF Ordered, Sides
    <3>3. 0 \in 0 .. Len(Promise!Due("upstream"))
      BY <3>2, LenProperties
    <3>4. SubSeq(Promise!Due("upstream"), 1, 0) = <<>>
      BY SubSeqEmpty
    <3>5. got' = [got EXCEPT !["upstream"] = SubSeq(Promise!Due("upstream"), 1, 0)]
      BY <1>1, <3>1, <3>4 DEF TypeOK, Sides
    <3>6. rd'["client"] # "open"
      BY <2>1, <2>6
    <3> QED BY <1>1, <2>3, <2>6, <3>3, <3>5, <3>6 DEF Promise!Next, Promise!Leave
  <2> QED BY <2>5, <2>6
<1> QED BY <1>2, <1>3

\* With the proxy everything is over.
LEMMA DieStep ==
  ASSUME alive, Die, UNCHANGED <<request, sent, rd, got>>
  PROVE  Promise!Next
<1>1. Mode' = "over" /\ SentOn' = SentOn /\ alive' = FALSE
  BY DEF Die, Close, Mode, SentOn, Sides
<1> QED BY <1>1 DEF Promise!Next, Promise!Die

\* What onHeaders() does with a chunk: nothing yet, or the client is left, or
\* refused, or has asked, or the proxy dies of it.
LEMMA PromiseHeaders ==
  ASSUME IInv, Ordered, TypeOK', NEW n \in 1 .. Len(in["client"]), OnHeaders(n)
  PROVE  [Promise!Next]_(Promise!vars)
<1> DEFINE read == buf \o SubSeq(in["client"], 1, n)
<1>1. TypeOK /\ Mode = "asking" /\ phase = "header" /\ socket["client"] = "open"
      /\ UNCHANGED <<request, sent, rd, out>> /\ SentOn' = SentOn
      /\ alive
  BY Modes DEF IInv, Base, OnHeaders, IsOpen, SentOn, Gone, Sides
<1>2. CASE ~ Headed(read)
  <2>1. /\ UNCHANGED <<alive, phase, got>>
        /\ UNCHANGED socket \/ Close("client")
    BY <1>2 DEF OnHeaders
  <2>2. UNCHANGED socket \/ Shut
    BY <1>1, <2>1, CloseShuts DEF Sides
  <2> QED BY <1>1, <2>1, <2>2, LeaveStep
<1>3. CASE Headed(read) /\ request.line = "other"
  <2>1. phase' = "refused" /\ got' = [got EXCEPT !["client"] = <<"405">>]
        /\ alive' = alive
    BY <1>3 DEF OnHeaders
  <2>2. Mode' = "over"
    BY <2>1 DEF Mode
  <2> QED BY <1>1, <2>1, <2>2 DEF Promise!Next, Promise!Refuse
<1>4. CASE Headed(read) /\ request.line = "badport"
  <2>1. Die /\ UNCHANGED got
    BY <1>4 DEF OnHeaders
  <2> QED BY <1>1, <2>1, DieStep
<1>5. CASE Headed(read) /\ request.line \notin {"badport", "other"}
  <2>1. /\ phase' = "connecting" /\ UNCHANGED <<got, alive>>
        /\ socket' = [socket EXCEPT !["upstream"] = "connecting"]
    BY <1>5 DEF OnHeaders
  <2>2. socket'["client"] # "closed"
    BY <1>1, <2>1 DEF TypeOK, Sides
  <2>3. Mode' = "asked"
    BY <2>1, <2>2 DEF Mode
  <2> QED BY <1>1, <2>1, <2>3 DEF Promise!Next, Promise!Ask
<1> QED BY <1>2, <1>3, <1>4, <1>5

\* The answer to a client that has asked.
LEMMA PromiseConnect ==
  ASSUME IInv, Ordered, Unanswered, TypeOK', Connect \/ ConnectFails
  PROVE  Promise!Next
<1>1. /\ TypeOK /\ phase = "connecting" /\ socket["client"] = "open"
      /\ UNCHANGED <<alive, request, sent, rd>> /\ SentOn' = SentOn
      /\ got["client"] = <<>> /\ Mode = "asked"
  <2>1. /\ TypeOK /\ phase = "connecting" /\ socket["client"] = "open"
        /\ UNCHANGED <<alive, request, sent, rd>>
    BY DEF IInv, Base, Connect, ConnectFails, Ordered, IsOpen
  <2> QED BY <2>1, Modes DEF SentOn, Unanswered
<1>2. \A s \in Sides : Close(s) => socket'["client"] = "closed" /\ Mode' = "over"
  BY <1>1 DEF Close, Mode, Sides
<1>3. CASE Connect /\ wr["client"] = "open"
  <2>1. /\ phase' = "tunnel" /\ got' = [got EXCEPT !["client"] = <<"200">>]
        /\ socket' = [socket EXCEPT !["upstream"] = "open"]
    BY <1>3 DEF Connect
  <2>2. Mode' = "open"
    BY <1>1, <2>1 DEF Mode, TypeOK, Sides
  <2> QED BY <1>1, <2>1, <2>2 DEF Promise!Next, Promise!Open
<1>4. CASE Connect /\ wr["client"] # "open"
  <2>1. PICK b \in {<<>>, buf} : got' = [got EXCEPT !["upstream"] = b]
    BY <1>4 DEF Connect
  <2>2. Mode' = "over"
    BY <1>2, <1>4 DEF Connect, Sides
  <2>3. rd["client"] # "open"
    BY <1>1, <1>4 DEF IInv, Base, Settling, Settled
  <2>4. /\ Promise!Due("upstream") = buf \o in["client"]
        /\ buf \in Seq(Bytes) /\ in["client"] \in Seq(Bytes)
    BY <1>1, DueIsPayload DEF Ordered, TypeOK, Sides
  <2>5. \E n \in 0 .. Len(Promise!Due("upstream")) :
           b = SubSeq(Promise!Due("upstream"), 1, n)
    <3>1. /\ Len(buf) \in Nat /\ Len(in["client"]) \in Nat
          /\ Len(buf \o in["client"]) = Len(buf) + Len(in["client"])
      BY <2>4, ConcatAt
    <3>2. CASE b = <<>>
      BY <2>4, <3>1, <3>2, SubSeqEmpty
    <3>3. CASE b = buf
      <4>1. IsPrefix(buf, buf \o in["client"])
        BY <2>4, PrefixOfConcat
      <4>2. SubSeq(buf, 1, Len(buf)) = buf
        BY <2>4, SubSeqFull
      <4>3. SubSeq(buf \o in["client"], 1, Len(buf)) = buf
        BY <4>1, <4>2 DEF IsPrefix
      <4>4. Len(buf) \in 0 .. Len(buf \o in["client"])
        BY <3>1
      <4> QED BY <2>4, <3>3, <4>3, <4>4
    <3> QED BY <3>2, <3>3
  <2> QED BY <1>1, <2>1, <2>2, <2>3, <2>5 DEF Promise!Next, Promise!Leave
<1>5. CASE ConnectFails /\ wr["client"] = "open"
  <2>1. got' = [got EXCEPT !["client"] = <<"502">>] /\ Mode' = "over"
    BY <1>2, <1>5 DEF ConnectFails, Sides
  <2> QED BY <1>1, <2>1 DEF Promise!Next, Promise!Fail
<1>6. CASE ConnectFails /\ wr["client"] # "open"
  <2>1. got' = got /\ phase' = phase /\ Close("upstream")
    BY <1>6 DEF ConnectFails
  <2>2. rd["client"] # "open"
    BY <1>1, <1>6 DEF IInv, Base, Settling, Settled
  <2>3. Shut /\ Mode' # Mode
    BY <1>1, <1>2, <2>1, CloseShuts DEF Sides
  <2>4. [Promise!Next]_(Promise!vars)
    BY <1>1, <2>1, <2>2, <2>3, LeaveStep
  <2> QED BY <2>3, <2>4 DEF Promise!vars
<1> QED BY <1>3, <1>4, <1>5, <1>6

\* A byte that is sent is one for the other peer, or of the request.
LEMMA PromiseSends ==
  ASSUME IInv, Ordered, NEW s \in Sides, PeerSends(s)
  PROVE  [Promise!Next]_(Promise!vars)
<1>1. /\ TypeOK /\ IsOpen(s) /\ sent[s] < Len(Stream(s)) /\ sent[s] \in Nat
      /\ sent' = [sent EXCEPT ![s] = @ + 1]
      /\ UNCHANGED <<alive, request, phase, socket, rd, got>>
  BY DEF PeerSends, IInv, Base, TypeOK
<1>2. Mode' = Mode
  BY <1>1 DEF Mode
<1>3. CASE s = "upstream"
  <2>1. Mode = "open"
    <3>1. phase = "tunnel" /\ socket["client"] = "open"
      BY <1>1, <1>3 DEF Ordered, Untouched, IsOpen
    <3> QED BY <1>1, <3>1, Modes
  <2>2. SentOn' = [SentOn EXCEPT ![s] = @ + 1]
    BY <1>1, <1>3 DEF SentOn, TypeOK, Sides
  <2>3. SentOn[s] < Len(Promise!Stream(s))
    BY <1>1, <1>3 DEF SentOn, Stream, Promise!Stream
  <2> QED BY <1>1, <1>2, <1>3, <2>1, <2>2, <2>3 DEF Promise!Next, Promise!Send, Promise!Sides, Sides
<1>4. CASE s = "client"
  <2>1. /\ request.head \in Nat /\ Len(ClientBytes) \in Nat
        /\ sent["client"] < request.head + 1 + Len(ClientBytes)
    BY <1>1, <1>4, ClientStream
  <2>2. /\ sent["client"] \in Nat /\ sent'["client"] = sent["client"] + 1
        /\ sent'["upstream"] = sent["upstream"] /\ request' = request
    BY <1>1, <1>4 DEF TypeOK, Sides
  <2>3. PICK m \in Nat, h \in Nat : m = sent["client"] /\ h = request.head
    BY <2>1, <2>2
  <2>4. /\ SentOn["client"] = IF m > h THEN m - h - 1 ELSE 0
        /\ SentOn'["client"] = IF m + 1 > h THEN m + 1 - h - 1 ELSE 0
        /\ SentOn'["upstream"] = SentOn["upstream"]
    BY <2>2, <2>3 DEF SentOn, Sides
  <2>5. CASE sent["client"] > request.head
    <3>1. SentOn' = [SentOn EXCEPT ![s] = @ + 1]
      <4>1. SentOn'["client"] = SentOn["client"] + 1
        BY <2>5, <2>3, <2>4
      <4> QED BY <1>4, <2>4, <4>1 DEF SentOn, Sides
    <3>2. SentOn[s] < Len(Promise!Stream(s))
      BY <1>1, <1>4, <2>1, <2>5 DEF SentOn, Promise!Stream, Sides
    <3> QED BY <1>1, <1>2, <1>4, <3>1, <3>2 DEF Promise!Next, Promise!Send, Promise!Sides, Sides
  <2>6. CASE ~ (sent["client"] > request.head)
    <3>1. SentOn' = SentOn
      <4>1. SentOn'["client"] = SentOn["client"]
        BY <2>6, <2>3, <2>4
      <4> QED BY <2>4, <4>1 DEF SentOn, Sides
    <3> QED BY <1>1, <1>2, <3>1 DEF Promise!vars
  <2> QED BY <2>5, <2>6
<1> QED BY <1>3, <1>4 DEF Sides

\* A byte that is flushed is the next that is due.
LEMMA PromiseFlush ==
  ASSUME IInv, Ordered, NEW s \in Sides, Flush(s)
  PROVE  Promise!Next
<1>1. /\ TypeOK /\ IsOpen(s) /\ out[s] # <<>>
      /\ got' = [got EXCEPT ![s] = Append(@, Head(out[s]))]
      /\ UNCHANGED <<alive, request, phase, socket, sent, rd>>
  BY DEF Flush, IInv, Base
<1>2. phase = "tunnel" /\ socket["client"] = "open"
  BY <1>1 DEF Ordered, Untouched, IsOpen, Sides
<1>3. Mode = "open" /\ Mode' = Mode /\ SentOn' = SentOn
  <2>1. Mode = "open"
    BY <1>1, <1>2, Modes
  <2> QED BY <1>1, <2>1 DEF Mode, SentOn
<1>4. PICK g \in Seq(Bytes), r \in Seq(Bytes), i \in Seq(Bytes) :
          g = got[s] /\ r = out[s] /\ i = in[Other(s)]
  BY <1>1 DEF TypeOK, Other, Sides
<1>5. Promise!Due(s) = g \o r \o i
  <2>1. Whole(s) = Payload(s)
    BY <1>2 DEF Ordered, IsOpen
  <2> QED BY <1>1, <1>4, <2>1, DueIsPayload DEF Whole
<1>6. Len(r) \in Nat \ {0} /\ Head(r) = r[1]
  BY <1>1, <1>4, EmptySeq
<1>7. /\ g \o r \in Seq(Bytes) /\ Len(g) \in Nat /\ Len(i) \in Nat
      /\ Len(g \o r) = Len(g) + Len(r)
      /\ (g \o r)[Len(g) + 1] = r[1]
  BY <1>6, ConcatAt
<1>8. /\ Len(g \o r \o i) = Len(g) + Len(r) + Len(i)
      /\ (g \o r \o i)[Len(g) + 1] = r[1]
  <2>1. PICK h \in Seq(Bytes) : h = g \o r
    BY <1>7
  <2>2. Len(g) + 1 \in 1 .. Len(h)
    BY <1>6, <1>7, <2>1
  <2>3. Len(h \o i) = Len(h) + Len(i) /\ (h \o i)[Len(g) + 1] = h[Len(g) + 1]
    BY <2>2, ConcatAt
  <2> QED BY <1>7, <2>1, <2>3
<1>9. /\ Len(got[s]) < Len(Promise!Due(s))
      /\ Head(out[s]) = Promise!Due(s)[Len(got[s]) + 1]
  <2>1. PICK d : d = g \o r \o i
    OBVIOUS
  <2>2. Len(d) = Len(g) + Len(r) + Len(i) /\ d[Len(g) + 1] = r[1]
    BY <1>8, <2>1
  <2>3. Len(g) < Len(d) /\ Head(r) = d[Len(g) + 1]
    BY <1>6, <1>7, <2>2
  <2> QED BY <1>4, <1>5, <2>1, <2>3
<1> QED BY <1>1, <1>3, <1>9 DEF Promise!Next, Promise!Deliver, Promise!Sides, Sides

\* The step of the implementation is one of the promise, or none.
LEMMA PromiseStep ==
  ASSUME IInv, IInv', Ordered, Unanswered, [Next]_vars
  PROVE  [Promise!Next]_(Promise!vars)
<1>1. TypeOK /\ TypeOK'
  BY DEF IInv, Base
<1>2. Mode = "asked" =>
        /\ socket["upstream"] # "open"
        /\ wr["client"] # "open" => rd["client"] # "open"
  BY <1>1, Modes DEF IInv, Base, Settling, Settled, Unanswered, Ordered, Untouched
<1>3. CASE Discard
  BY <1>1, <1>3, LeaveStep DEF Discard
<1>4. ASSUME NEW n \in 1 .. Len(in["client"]), OnHeaders(n)
      PROVE  [Promise!Next]_(Promise!vars)
  BY <1>1, <1>4, PromiseHeaders
<1>5. CASE Connect \/ ConnectFails
  BY <1>1, <1>5, PromiseConnect
<1>6. ASSUME NEW s \in Sides, PeerSends(s) PROVE [Promise!Next]_(Promise!vars)
  BY <1>6, PromiseSends
<1>7. ASSUME NEW s \in Sides, Flush(s) PROVE [Promise!Next]_(Promise!vars)
  BY <1>7, PromiseFlush
<1>8. ASSUME NEW s \in Sides, PeerEnds(s) PROVE [Promise!Next]_(Promise!vars)
  <2>1. rd["client"] # "open" => rd'["client"] # "open"
    BY <1>1, <1>8 DEF PeerEnds, TypeOK, Sides
  <2> QED BY <1>1, <1>8, <2>1, LeaveStep DEF PeerEnds
<1>9. ASSUME NEW s \in Sides, Reset(s) \/ End(s) \/ Finish(s)
      PROVE  [Promise!Next]_(Promise!vars)
  <2>1. /\ IsOpen(s) /\ UNCHANGED <<alive, request, phase, sent, got>>
        /\ UNCHANGED socket \/ Shut
    BY <1>1, <1>9, CloseShuts DEF Reset, End, Finish
  <2>2. rd["client"] # "open" => rd'["client"] # "open"
    BY <1>1, <1>9 DEF Reset, End, Finish, TypeOK, Sides
  <2>3. Mode = "asked" => rd'["client"] # "open" \/ socket' = socket
    <3> SUFFICES ASSUME Mode = "asked" PROVE rd'["client"] # "open" \/ socket' = socket
      OBVIOUS
    <3>1. s = "client"
      BY <1>2, <2>1 DEF IsOpen, Sides
    <3>2. CASE Reset(s) \/ End(s)
      BY <1>1, <3>1, <3>2 DEF Reset, End, TypeOK, Sides
    <3>3. CASE Finish(s)
      BY <1>2, <2>2, <3>1, <3>3 DEF Finish
    <3> QED BY <1>9, <3>2, <3>3
  <2> QED BY <1>1, <2>1, <2>2, <2>3, LeaveStep
<1>10. ASSUME NEW s \in Sides, NEW n \in 1 .. Len(in[s]), Pipe(s, n)
       PROVE  [Promise!Next]_(Promise!vars)
  <2>1. /\ phase = "tunnel" /\ Other(s) \in Sides
        /\ UNCHANGED <<alive, request, phase, sent, rd, got>>
        /\ UNCHANGED socket \/ Close(Other(s))
    BY <1>10 DEF Pipe, Other, Sides
  <2>2. Mode # "asked" /\ (UNCHANGED socket \/ Shut)
    BY <1>1, <2>1, Modes, CloseShuts
  <2> QED BY <1>1, <2>1, <2>2, LeaveStep
<1>11. CASE UNCHANGED vars
  BY <1>1, <1>11, LeaveStep DEF vars
<1>12. CASE DiesOtherwise
  BY <1>12, DieStep DEF DiesOtherwise
<1> QED
  BY <1>3, <1>4, <1>5, <1>6, <1>7, <1>8, <1>9, <1>10, <1>11, <1>12
  DEF Next, Read, Piped

\* The client has its answer at the latest when it does not wait any more.
LEMMA UnansweredStep ==
  ASSUME IInv, IInv', Ordered, Unanswered, [Next]_vars
  PROVE  Unanswered'
<1>1. [Promise!Next]_(Promise!vars) /\ "client" \in Sides /\ "upstream" \in Sides
  BY PromiseStep DEF Sides
<1>2. CASE UNCHANGED got
  <2>1. Mode' \in {"asking", "asked"} => Mode \in {"asking", "asked"}
    BY <1>1, <1>2, Modes DEF IInv, Base, Promise!Next, Promise!vars, Promise!GiveUp,
       Promise!Ask, Promise!Refuse, Promise!Open, Promise!Fail, Promise!Leave,
       Promise!Die,
       Promise!Send, Promise!Deliver
  <2> QED BY <1>2, <2>1 DEF Unanswered
<1>3. CASE got' # got
  <2>1. Mode' \notin {"asking", "asked"}
    BY <1>1, <1>3 DEF Promise!Next, Promise!vars, Promise!GiveUp,
       Promise!Ask, Promise!Refuse, Promise!Open, Promise!Fail, Promise!Leave,
       Promise!Die,
       Promise!Send, Promise!Deliver
  <2> QED BY <2>1 DEF Unanswered
<1> QED BY <1>2, <1>3

\* The proxy keeps the promise to its peers, for all streams and limits and in
\* every order of the events of its sockets.
THEOREM KeepsPromise == Spec => Promise!Safety
<1>1. Init => Ordered /\ Unanswered /\ Promise!Init
  <2>1. Init => Promise!Init
    BY DEF Init, Promise!Init, Mode, SentOn, Sides, Promise!Sides, Requests
  <2>2. Init => Unanswered
    BY DEF Init, Unanswered, Sides
  <2> QED BY <2>1, <2>2, OrderedInit
<1>2. IInv /\ Ordered /\ [Next]_vars => Ordered'
  BY OrderedStep DEF IInv, Base
<1>3. IInv /\ IInv' /\ Ordered /\ Unanswered /\ [Next]_vars =>
          Unanswered' /\ [Promise!Next]_(Promise!vars)
  BY UnansweredStep, PromiseStep
<1> QED BY InvariantHolds, <1>1, <1>2, <1>3, PTL DEF Spec, Promise!Safety
=============================================================================
