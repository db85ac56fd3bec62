--------------------------------- MODULE Tunnel ---------------------------------
(***************************************************************************)
(* What the two peers of one connection are promised by the proxy between  *)
(* them: one answer for the client; behind the answer 200 each gets the    *)
(* other's bytes, one after the other and nothing else, until both are     *)
(* left; and a client that waits for its answer is left by nobody but      *)
(* itself and a proxy that dies, with which everything is over.            *)
(***************************************************************************)
EXTENDS Naturals, Sequences

CONSTANTS ClientBytes,   \* what the client has for the upstream, a sequence
          UpstreamBytes  \* what the upstream has for the client

VARIABLES alive,   \* is the proxy there?
          mode,    \* "asking", "asked", "open" or "over"
          gaveUp,  \* has the client ended or broken the connection?
          sent,    \* side -> how many bytes its peer has sent for the other
          got      \* side -> what its peer has got

vars == <<alive, mode, gaveUp, sent, got>>

Sides == {"client", "upstream"}
Stream(s) == IF s = "client" THEN ClientBytes ELSE UpstreamBytes

\* What the peer of s is to get: the client an answer first.
Due(s) ==
    IF s = "client" THEN <<"200">> \o SubSeq(UpstreamBytes, 1, sent["upstream"])
    ELSE SubSeq(ClientBytes, 1, sent["client"])

Init ==
    /\ alive = TRUE
    /\ mode = "asking"
    /\ gaveUp = FALSE
    /\ sent = [s \in Sides |-> 0]
    /\ got = [s \in Sides |-> <<>>]

\* A client may send before it has its answer, and when nobody listens.
Send(s) ==
    /\ s = "upstream" => mode = "open"
    /\ sent[s] < Len(Stream(s))
    /\ sent' = [sent EXCEPT ![s] = @ + 1]
    /\ UNCHANGED <<alive, mode, gaveUp, got>>

GiveUp == gaveUp' = TRUE /\ UNCHANGED <<alive, mode, sent, got>>

Ask == mode = "asking" /\ mode' = "asked" /\ UNCHANGED <<alive, gaveUp, sent, got>>

Refuse ==
    /\ mode = "asking"
    /\ mode' = "over"
    /\ got' = [got EXCEPT !["client"] = <<"405">>]
    /\ UNCHANGED <<alive, gaveUp, sent>>

Open ==
    /\ mode = "asked"
    /\ mode' = "open"
    /\ got' = [got EXCEPT !["client"] = <<"200">>]
    /\ UNCHANGED <<alive, gaveUp, sent>>

Fail ==
    /\ mode = "asked"
    /\ mode' = "over"
    /\ got' = [got EXCEPT !["client"] = <<"502">>]
    /\ UNCHANGED <<alive, gaveUp, sent>>

\* The next byte.
Deliver(s) ==
    /\ mode = "open"
    /\ Len(got[s]) < Len(Due(s))
    /\ got' = [got EXCEPT ![s] = Append(@, Due(s)[Len(@) + 1])]
    /\ UNCHANGED <<alive, mode, gaveUp, sent>>

\* Both are left.  An upstream that is reached by then may have got something.
Leave ==
    /\ mode # "over"
    /\ mode' = "over"
    /\ gaveUp' \in {gaveUp, TRUE}
    /\ \/ mode # "asked" /\ UNCHANGED got
       \/ /\ mode = "asked" /\ gaveUp'
          /\ \E n \in 0 .. Len(Due("upstream")) :
                got' = [got EXCEPT !["upstream"] = SubSeq(Due("upstream"), 1, n)]
    /\ UNCHANGED <<alive, sent>>

\* The proxy ends, and everybody is left at once.
Die ==
    /\ alive
    /\ alive' = FALSE
    /\ mode' = "over"
    /\ UNCHANGED <<gaveUp, sent, got>>

Next ==
    \/ GiveUp \/ Ask \/ Refuse \/ Open \/ Fail \/ Leave \/ Die
    \/ \E s \in Sides : Send(s) \/ Deliver(s)

\* What never happens; and, with fairness, what does: a client that has asked
\* does not wait for ever, what was sent arrives as long as the tunnel is open,
\* and a client that gave up is left.
Safety == Init /\ [][Next]_vars
Spec ==
    /\ Safety
    /\ WF_vars(Open \/ Fail \/ (mode = "asked" /\ Leave))
    /\ \A s \in Sides : WF_vars(Deliver(s))
    /\ WF_vars(gaveUp /\ Leave)
=============================================================================
