----------------------------- MODULE ConnectProxy -----------------------------
(***************************************************************************)
(* One connection of local-network-proxy.js: a client asks for a tunnel,   *)
(* the proxy connects to the upstream it names and pipes both ways.        *)
(* Connections share nothing but the process: what one of them makes it    *)
(* throw ends all of them.                                                 *)
(*                                                                         *)
(* A socket is what Node.js makes of it.  Its readable side emits 'end'    *)
(* when the peer has ended and all is read, paused or not; its writable    *)
(* side has 'finished' when end() was called and all is flushed; 'end'     *)
(* calls end() by itself (allowHalfOpen is off), and a socket that has     *)
(* ended and finished, or is destroyed, closes and drops what it holds.    *)
(***************************************************************************)
EXTENDS Naturals, Sequences, SequencesExt

CONSTANTS
    Data,           \* the bytes that peers send each other
    ClientBytes,    \* what the client sends behind its request, a sequence
    UpstreamBytes,  \* what the upstream sends
    HeaderLimit,    \* 16384 in the code
    HighWater       \* written data from which on a pipe waits

ASSUME BytesAssumption == ClientBytes \in Seq(Data) /\ UpstreamBytes \in Seq(Data)
ASSUME LimitAssumption == HeaderLimit \in Nat \ {0} /\ HighWater \in Nat \ {0}

\* What else goes over the sockets: a byte of the request, its end, an answer.
Bytes == Data \cup {"head", "end", "200", "405", "502"}

Sides == {"client", "upstream"}
Other(s) == IF s = "client" THEN "upstream" ELSE "client"

\* The requests, up to two bytes too long: CONNECT to a port, CONNECT to a number
\* that is no port, as it is above 65535, and anything else.
Requests == [line : {"connect", "badport", "other"}, head : 1 .. HeaderLimit + 2]

VARIABLES
    alive,    \* the process of the proxy
    request,  \* [line: what is asked for, head: bytes before its end]
    phase,    \* "header", "refused", "connecting" or "tunnel"
    buf,      \* header bytes read; then what was read behind the header
    socket,   \* side -> "none", "connecting", "open" or "closed"
    sent,     \* side -> number of bytes its peer has sent
    in,       \* side -> bytes sent by the peer, not read yet
    rd,       \* side -> readable side: "open", "fin" (not read yet), "ended" or
              \* "reset"
    out,      \* side -> bytes written, not flushed yet
    wr,       \* side -> writable side: "open", "ending", "finished"
    got       \* side -> what the peer has been sent

vars == <<alive, request, phase, buf, socket, sent, in, rd, out, wr, got>>

Stream(s) ==
    IF s = "upstream" THEN UpstreamBytes
    ELSE [i \in 1 .. request.head |-> "head"] \o <<"end">> \o ClientBytes

TypeOK ==
    /\ alive \in BOOLEAN
    /\ request \in Requests
    /\ phase \in {"header", "refused", "connecting", "tunnel"}
    /\ socket \in [Sides -> {"none", "connecting", "open", "closed"}]
    /\ sent \in [Sides -> Nat]
    /\ rd \in [Sides -> {"open", "fin", "ended", "reset"}]
    /\ wr \in [Sides -> {"open", "ending", "finished"}]
    /\ buf \in Seq(Bytes)
    /\ in \in [Sides -> Seq(Bytes)]
    /\ out \in [Sides -> Seq(Bytes)]
    /\ got \in [Sides -> Seq(Bytes)]
    /\ phase = "header" /\ socket["client"] = "open" => Len(buf) <= HeaderLimit

Init ==
    /\ alive = TRUE
    /\ request \in Requests
    /\ phase = "header"
    /\ buf = <<>>
    /\ socket = [s \in Sides |-> IF s = "client" THEN "open" ELSE "none"]
    /\ sent = [s \in Sides |-> 0]
    /\ in = [s \in Sides |-> <<>>]
    /\ rd = [s \in Sides |-> "open"]
    /\ out = [s \in Sides |-> <<>>]
    /\ wr = [s \in Sides |-> "open"]
    /\ got = [s \in Sides |-> <<>>]

IsOpen(s) == socket[s] = "open"

-----------------------------------------------------------------------------
(* The peers.                                                              *)

PeerSends(s) ==
    /\ IsOpen(s) /\ rd[s] = "open"
    /\ sent[s] < Len(Stream(s))
    /\ sent' = [sent EXCEPT ![s] = @ + 1]
    /\ in' = [in EXCEPT ![s] = Append(@, Stream(s)[sent'[s]])]
    /\ UNCHANGED <<alive, request, phase, buf, socket, rd, out, wr, got>>

PeerEnds(s) ==
    /\ IsOpen(s) /\ rd[s] = "open"
    /\ rd' = [rd EXCEPT ![s] = "fin"]
    /\ UNCHANGED <<alive, request, phase, buf, socket, sent, in, out, wr, got>>

-----------------------------------------------------------------------------
(* Closing.                                                                *)

\* Mutated: without the 'close' handlers.
CloseOne(s) == socket' = [socket EXCEPT ![s] = "closed"]

\* The 'close' event of s: once there is an upstream, each takes the other
\* along.
Close(s) ==
    socket' = [t \in Sides |-> IF t = s \/ socket[t] # "none" THEN "closed"
                               ELSE "none"]

\* The end of the process, which closes every socket.
Die == alive' = FALSE /\ Close("client")

\* ... is brought about by the request of another client, or by a connection
\* that cannot be accepted, at any time.
DiesOtherwise ==
    /\ alive
    /\ Die
    /\ UNCHANGED <<request, phase, buf, sent, in, rd, out, wr, got>>

\* A connection that breaks: 'error', on which the socket is destroyed.
Reset(s) ==
    /\ IsOpen(s)
    /\ rd' = [rd EXCEPT ![s] = "reset"]
    /\ Close(s)
    /\ UNCHANGED <<alive, request, phase, buf, sent, in, out, wr, got>>

\* 'end' of s: end() on itself and, through the pipe, on the other.
End(s) ==
    /\ IsOpen(s) /\ rd[s] = "fin" /\ in[s] = <<>>
    /\ rd' = [rd EXCEPT ![s] = "ended"]
    /\ wr' = [t \in Sides |->
                 IF wr[t] = "open" /\ (t = s \/ phase = "tunnel")
                 THEN "ending" ELSE wr[t]]
    /\ IF wr[s] = "finished" THEN Close(s) ELSE UNCHANGED socket
    /\ UNCHANGED <<alive, request, phase, buf, sent, in, out, got>>

Finish(s) ==
    /\ IsOpen(s) /\ wr[s] = "ending" /\ out[s] = <<>>
    /\ wr' = [wr EXCEPT ![s] = "finished"]
    /\ IF rd[s] = "ended" THEN Close(s) ELSE UNCHANGED socket
    /\ UNCHANGED <<alive, request, phase, buf, sent, in, rd, out, got>>

-----------------------------------------------------------------------------
(* The request.                                                            *)

Headed(bytes) == \E i \in DOMAIN bytes : bytes[i] = "end"
Behind(bytes) == SubSeq(bytes, request.head + 2, Len(bytes))

\* Mutated: the bytes of the separator are not counted.
TooLongButOne(bytes) == Len(bytes) > HeaderLimit + 1

\* A header without an end that is unreasonably large.
TooLong(bytes) == Len(bytes) > HeaderLimit

\* onHeaders() with a chunk of n bytes.  Asked for what is no port, net.connect()
\* throws, which nobody catches.
OnHeaders(n) ==
    LET read == buf \o SubSeq(in["client"], 1, n)
    IN /\ phase = "header" /\ IsOpen("client")
       /\ n \in 1 .. Len(in["client"])
       /\ in' = [in EXCEPT !["client"] = SubSeq(@, n + 1, Len(@))]
       /\ \/ /\ ~ Headed(read)
             /\ buf' = read
             /\ IF TooLong(read) THEN Close("client") ELSE UNCHANGED socket
             /\ UNCHANGED <<alive, phase, wr, got>>
          \/ /\ Headed(read) /\ request.line = "other"
             /\ phase' = "refused"
             /\ buf' = <<>>
             /\ got' = [got EXCEPT !["client"] = <<"405">>]
             /\ wr' = [wr EXCEPT !["client"] = "ending"]
             /\ UNCHANGED <<alive, socket>>
          \/ /\ Headed(read) /\ request.line # "other"
             /\ phase' = "connecting"
             /\ buf' = Behind(read)
             /\ IF request.line = "badport" THEN Die
                ELSE /\ socket' = [socket EXCEPT !["upstream"] = "connecting"]
                     /\ UNCHANGED alive
             /\ UNCHANGED <<wr, got>>
       /\ UNCHANGED <<request, sent, rd, out>>

\* Behind a refused request the client still flows, into nothing.
Discard ==
    /\ phase = "refused" /\ IsOpen("client") /\ in["client"] # <<>>
    /\ in' = [in EXCEPT !["client"] = <<>>]
    /\ UNCHANGED <<alive, request, phase, buf, socket, sent, rd, out, wr, got>>

-----------------------------------------------------------------------------
(* The tunnel.                                                             *)

\* Mutated: without client.pause(), what arrives before the tunnel is lost.
ConnectFlowing ==
    /\ socket["upstream"] = "connecting"
    /\ phase' = "tunnel"
    /\ socket' = [socket EXCEPT !["upstream"] = "open"]
    /\ got' = [got EXCEPT !["client"] = <<"200">>]
    /\ out' = [out EXCEPT !["upstream"] = buf]
    /\ in' = [in EXCEPT !["client"] = <<>>]
    /\ buf' = <<>>
    /\ UNCHANGED <<alive, request, sent, rd, wr>>

\* The upstream's 'connect'.  The answer is the first thing written to the
\* client and needs no waiting.  A client that has ended meanwhile cannot be
\* written to: the error closes both, what was read may have been passed on.
Connect ==
    /\ socket["upstream"] = "connecting"
    /\ phase' = "tunnel"
    /\ buf' = <<>>
    /\ IF wr["client"] = "open"
       THEN /\ socket' = [socket EXCEPT !["upstream"] = "open"]
            /\ got' = [got EXCEPT !["client"] = <<"200">>]
            /\ out' = [out EXCEPT !["upstream"] = buf]
       ELSE /\ Close("client")
            /\ \E b \in {<<>>, buf} : got' = [got EXCEPT !["upstream"] = b]
            /\ UNCHANGED out
    /\ UNCHANGED <<alive, request, sent, in, rd, wr>>

\* Mutated: a failed connection is torn down like a broken one.
DropConnect ==
    /\ socket["upstream"] = "connecting"
    /\ Close("upstream")
    /\ UNCHANGED <<alive, request, phase, buf, sent, in, rd, out, wr, got>>

\* The upstream's 'error' before it is connected, and the 'close' that follows it
\* in the same turn of the event loop, when an answer this short is with the
\* kernel already: a client that has ended cannot be told.
ConnectFails ==
    /\ socket["upstream"] = "connecting"
    /\ Close("upstream")
    /\ got' = IF wr["client"] = "open"
              THEN [got EXCEPT !["client"] = <<"502">>] ELSE got
    /\ UNCHANGED <<alive, request, phase, buf, sent, in, rd, out, wr>>

\* The pipe from s, with a chunk of n bytes: what is behind the high water mark
\* waits; a write to a side that is ending is an error, which closes both.
Pipe(s, n) ==
    LET o == Other(s)
    IN /\ phase = "tunnel" /\ IsOpen(s) /\ IsOpen(o)
       /\ n \in 1 .. Len(in[s])
       /\ Len(out[o]) < HighWater
       /\ in' = [in EXCEPT ![s] = SubSeq(@, n + 1, Len(@))]
       /\ IF wr[o] = "open"
          THEN /\ out' = [out EXCEPT ![o] = @ \o SubSeq(in[s], 1, n)]
               /\ UNCHANGED socket
          ELSE Close(o) /\ UNCHANGED out
       /\ UNCHANGED <<alive, request, phase, buf, sent, rd, wr, got>>

\* The kernel takes written data.
Flush(s) ==
    /\ IsOpen(s) /\ out[s] # <<>>
    /\ got' = [got EXCEPT ![s] = Append(@, Head(out[s]))]
    /\ out' = [out EXCEPT ![s] = Tail(@)]
    /\ UNCHANGED <<alive, request, phase, buf, socket, sent, in, rd, wr>>

-----------------------------------------------------------------------------
Read == Discard \/ \E n \in 1 .. Len(in["client"]) : OnHeaders(n)
Piped(s) == \E n \in 1 .. Len(in[s]) : Pipe(s, n)

Next ==
    \/ Read \/ Connect \/ ConnectFails \/ DiesOtherwise
    \/ \E s \in Sides : \/ PeerSends(s) \/ PeerEnds(s) \/ Reset(s) \/ End(s)
                        \/ Finish(s) \/ Piped(s) \/ Flush(s)

\* The event loop runs, a connection attempt has an outcome, and peers take
\* what they are sent.  No peer need ever send, end or break anything.
Fairness ==
    /\ WF_vars(Read)
    /\ WF_vars(Connect \/ ConnectFails)
    /\ \A s \in Sides : WF_vars(End(s)) /\ WF_vars(Finish(s))
                        /\ WF_vars(Piped(s)) /\ WF_vars(Flush(s))

Spec == Init /\ [][Next]_vars
FairSpec == Spec /\ Fairness

-----------------------------------------------------------------------------
(* Properties.                                                             *)

\* What the peer of s is to get of the other's stream: the client an answer
\* first, the upstream nothing of the request.
Payload(s) ==
    IF s = "client" THEN <<"200">> \o SubSeq(UpstreamBytes, 1, sent["upstream"])
    ELSE SubSeq(ClientBytes, 1, sent["client"] - request.head - 1)

\* Each peer gets the other's bytes in their order, none twice and none left
\* out, whenever they arrive: with the request, while the upstream is not yet
\* connected, or later.  As long as the tunnel stands none is lost either
\* (local-network-proxy.js:49, 58, 69-74).
InOrder ==
    /\ IsPrefix(got["upstream"], Payload("upstream"))
    /\ \/ IsPrefix(got["client"], Payload("client"))
       \/ got["client"] \in {<<"405">>, <<"502">>}
    /\ phase = "tunnel" /\ IsOpen("client") =>
        \A s \in Sides : got[s] \o out[s] \o in[Other(s)] = Payload(s)

\* A client whose request was read is not closed without an answer, unless it
\* gave up itself or the whole proxy is gone (local-network-proxy.js:51-54,
\* 64-71).
Answered ==
    alive /\ socket["client"] = "closed" /\ phase # "header" =>
        got["client"] # <<>> \/ rd["client"] # "open"

\* A peer that ends, at whatever moment, ends the whole connection: no socket
\* stays behind, not even of a client that ends while it is paused
\* (local-network-proxy.js:58-74).
EndsTogether ==
    \A s \in Sides : rd[s] = "fin" ~>
        \A t \in Sides : socket[t] \in {"none", "closed"}

-----------------------------------------------------------------------------
(* The proxy as the tunnel it promises: which is over for a client that was *)
(* refused, or whose proxy is gone, and whose bytes are those behind the    *)
(* request.                                                                 *)

Mode == IF socket["client"] = "closed" \/ phase = "refused" THEN "over"
        ELSE CASE phase = "header" -> "asking"
               [] phase = "connecting" -> "asked"
               [] phase = "tunnel" -> "open"

\* How many bytes each peer has sent for the other.
SentOn == [s \in Sides |->
              IF s = "upstream" THEN sent[s]
              ELSE IF sent[s] > request.head THEN sent[s] - request.head - 1
              ELSE 0]

Promise == INSTANCE Tunnel WITH
    mode <- Mode,
    gaveUp <- rd["client"] # "open",
    sent <- SentOn

\* Whatever happens to its two sockets, the peers of a connection see no more of
\* the proxy than an answer, bytes one by one and its end, each at its time
\* (local-network-proxy.js:39-74).
TunnelSpec == Promise!Spec
=============================================================================
