--------------------------- MODULE PartyTransport ---------------------------
(***************************************************************************)
(* How two robots of a party talk to each other: the TQOS negotiation that *)
(* makes a route ready, the reliable packets with their window and         *)
(* acknowledgements, retries, the recovery of a stalled route, and the     *)
(* choice between the UDP route and the relay (dnf.RobotVo, party_tqos.go, *)
(* party_reliable.go, party_health.go).                                    *)
(*                                                                         *)
(* Both ends run the same code, each step with r.mu held.  Datagrams are   *)
(* lost, reordered and, with "dup" in Env, doubled.  Time is left out: what *)
(* waits for a time may happen at any time.  Every packet of a robot has   *)
(* the same flags and codec, so the epoch of a request always matches an   *)
(* initialised one.                                                        *)
(***************************************************************************)
EXTENDS Naturals, FiniteSets, Sequences, SequencesExt

CONSTANTS End,        \* the two robots
          Sender,     \* those that send data
          Route,      \* a subset of 1..2: UDP, relay
          Window,     \* partyReliableWindow
          MaxRetries, \* partyTQOSMaxRetries
          MaxData,    \* bound on the packets that are sent
          MaxNet,     \* bound on the datagrams under way
          MaxSeq,     \* bound on the sequence numbers of an epoch
          MaxResets,  \* bound on the resets of routes
          Env         \* "dup", "down" (routes fail), "stall" (recoveries),
                      \* "roster" (the peer is replaced for a while)

VARIABLES t,       \* the transport state of each end and route
          chosen,  \* partyPeerRoute, 0 if there is none
          up,      \* the routes whose socket an end has
          net,     \* datagrams under way
          sent,    \* how many packets have been sent
          resets,
          \* what happened, for the properties
          got,     \* packets an end has taken
          cleared, \* packets of the current epoch an acknowledgement cleared
          pure,    \* whether both ends began the current epoch of an end's
                   \* packets with nothing of an earlier one under way
          heard    \* the routes by which an end received something

vars == <<t, chosen, up, net, sent, resets, got, cleared, pure, heard>>

Other(e) == CHOOSE o \in End : o # e

NoReply == [on |-> FALSE, seq |-> 0, acked |-> FALSE, retries |-> 0, exhausted |-> FALSE]

\* resetPartyTQOSRouteUnsafe; failures and the time a route is blocked stay.
Fresh(x) ==
    [ready |-> FALSE, epoch |-> FALSE, rseq |-> 0, pending |-> <<>>,
     reply |-> NoReply, recv |-> {}, blocked |-> x.blocked]

Init ==
    /\ t = [e \in End |-> [q \in Route |-> Fresh([blocked |-> FALSE])]]
    /\ chosen = [e \in End |-> 0]
    /\ up = [e \in End |-> Route]
    /\ net = {} /\ sent = 0 /\ resets = 0
    /\ got = [e \in End |-> {}] /\ heard = [e \in End |-> {}]
    /\ cleared = [e \in End |-> [q \in Route |-> {}]]
    /\ pure = [e \in End |-> [q \in Route |-> TRUE]]

-----------------------------------------------------------------------------
(* Datagrams.                                                              *)

Tqos(e, q, state) == [to |-> Other(e), q |-> q, kind |-> "tqos", state |-> state, seq |-> 0, id |-> 0]
Offer(e, q, seq) == [to |-> Other(e), q |-> q, kind |-> "rel", state |-> 2, seq |-> seq, id |-> 0]
Data(e, q, seq, id) == [to |-> Other(e), q |-> q, kind |-> "rel", state |-> 9, seq |-> seq, id |-> id]
Ack(e, q, seq) == [to |-> Other(e), q |-> q, kind |-> "ack", state |-> 9, seq |-> seq + 1, id |-> 0]

\* What may be left of a datagram that was received: nothing, or a double.
Rest(m) == {net \ {m}} \cup IF "dup" \in Env THEN {net} ELSE {}

\* Reliable packets of an end, and acknowledgements to it, that are under way.
Echoes(e, q, n) ==
    {m \in n : m.q = q /\ \/ m.to = Other(e) /\ m.kind = "rel"
                          \/ m.to = e /\ m.kind = "ack"}

-----------------------------------------------------------------------------
(* Routes, party_health.go.                                                *)

PeerReady(e) == \E q \in Route : t[e][q].ready

\* partyRouteAvailableUnsafe and partyRouteEligibleUnsafe.
Available(e, q) == q \in up[e]
Eligible(e, q) == Available(e, q) /\ ~t[e][q].blocked

First(S) == CHOOSE q \in S : \A p \in S : q =< p

\* partyRouteForPeerUnsafe, for a robot as peer.
RouteForPeer(e) ==
    LET usable == {q \in Route : t[e][q].ready /\ Eligible(e, q)}
        eligible == {q \in Route : Eligible(e, q)}
        there == {q \in Route : Available(e, q)}
    IN IF chosen[e] \in usable THEN chosen[e]
       ELSE IF usable # {} THEN First(usable)
       ELSE IF eligible # {} THEN First(eligible)
       ELSE IF there # {} THEN First(there)
       ELSE First(Route)

\* setPartyRobotRouteReadyUnsafe and markPartyRouteFailureUnsafe, on the
\* routes of an end.
Failed(x, q) == [x EXCEPT ![q].ready = FALSE, ![q].blocked = TRUE]

ChosenAfterFailure(x, c, q) ==
    LET y == Failed(x, q) IN
    IF c = q /\ \E p \in Route : y[p].ready
    THEN CHOOSE p \in Route : y[p].ready
    ELSE c

\* Mutant: a robot that only answers a probe takes the route for ready.
MarkedEarly(x, m) == [x EXCEPT ![m.q].ready = @ \/ m.state \in {2, 3}]

\* markPartyRobotPeerReadyUnsafe on a TQOS packet: for the second state, be it
\* new or a double.
Marked(x, m) == [x EXCEPT ![m.q].ready = @ \/ m.state = 2]

-----------------------------------------------------------------------------
(* Sending.  A route without a socket fails.                               *)

\* An end's routes, its chosen route, and what it sends.
Step(e, x, c, out, n) ==
    /\ t' = [t EXCEPT ![e] = x]
    /\ chosen' = [chosen EXCEPT ![e] = c]
    /\ net' = n \cup out
    /\ Cardinality(net') =< MaxNet /\ \A q \in Route : x[q].rseq =< MaxSeq

\* sendPartyTransportUnsafe by route q, changing the routes to x when it works
\* and to y when it does not.
SendBy(e, q, x, y, out) ==
    IF Available(e, q) THEN Step(e, x, chosen[e], out, net)
    ELSE Step(e, Failed(y, q), ChosenAfterFailure(y, chosen[e], q), {}, net)

\* Routes of an end start over, by a recovery or by the peer's.
Restart(e, qs) ==
    /\ resets < MaxResets
    /\ resets' = resets + 1
    /\ cleared' = [cleared EXCEPT ![e] = [q \in Route |-> IF q \in qs THEN {} ELSE @[q]]]
    /\ pure' = [d \in End |-> [q \in Route |->
                  IF q \notin qs THEN pure[d][q]
                  ELSE /\ Echoes(d, q, net) = {}
                       /\ d = e \/ t[d][q].rseq = 0
                       /\ Other(d) = e \/ t[Other(d)][q].recv = {}]]

Unmarked == UNCHANGED <<got, cleared, pure, heard, resets>>

\* startPartyRobotPeerNegotiationUnsafe: the first state, by a route that is there.
Probe(e) ==
    LET q == RouteForPeer(e) IN
    /\ ~PeerReady(e)
    /\ Available(e, q)
    /\ Step(e, t[e], chosen[e], {Tqos(e, q, 3)}, net)
    /\ UNCHANGED <<up, sent>> /\ Unmarked

\* sendPartyReliableRouteUnsafe.
CanSend(e, q) == Eligible(e, q) /\ Len(t[e][q].pending) < Window

Queued(x, q, id) ==
    [x EXCEPT ![q].rseq = @ + 1, ![q].pending = Append(@, [seq |-> x[q].rseq, id |-> id])]

\* sendPartyReliableUnsafe: by the route for the peer, else by the other one.
SendData(e) ==
    LET q == RouteForPeer(e)
        others == {p \in Route \ {q} : Eligible(e, p)}
        p == IF CanSend(e, q) \/ others = {} THEN q ELSE First(others)
    IN /\ e \in Sender /\ sent < MaxData
       /\ CanSend(e, p)
       /\ sent' = sent + 1
       /\ Step(e, Queued(t[e], p, sent + 1), chosen[e],
               {Data(e, p, t[e][p].rseq, sent + 1)}, net)
       /\ UNCHANGED up /\ Unmarked

-----------------------------------------------------------------------------
(* What falls due, flushPartyRuntimeUnsafe.                                *)

\* flushPartyReliableUnsafe: a packet is sent again.
RetryData(e, q) ==
    \E i \in DOMAIN t[e][q].pending :
       LET p == t[e][q].pending[i] IN
       /\ SendBy(e, q, t[e], t[e], {Data(e, q, p.seq, p.id)})
       /\ UNCHANGED <<up, sent>> /\ Unmarked

\* recoverPartyRouteUnsafe: the oldest packet has waited too long.
Recover(e, q) ==
    /\ "stall" \in Env
    /\ t[e][q].pending # <<>>
    /\ Restart(e, {q})
    /\ LET x == Failed(t[e], q)
           y == [x EXCEPT ![q] = Fresh(x[q])]
       IN /\ t' = [t EXCEPT ![e] = y]
          /\ chosen' = [chosen EXCEPT ![e] = ChosenAfterFailure(t[e], chosen[e], q)]
          /\ net' = net \cup IF Available(e, q) THEN {Tqos(e, q, 3)} ELSE {}
          /\ Cardinality(net') =< MaxNet
    /\ UNCHANGED <<up, sent, got, heard>>

\* cancelPartyDungeonReliableUnsafe, on the routes with packets of the dungeon.
CancelDungeon(e) ==
    LET qs == {q \in Route : t[e][q].pending # <<>>} IN
    /\ "stall" \in Env
    /\ qs # {}
    /\ Restart(e, qs)
    /\ Step(e, [q \in Route |-> IF q \in qs THEN Fresh(t[e][q]) ELSE t[e][q]], chosen[e],
            {Tqos(e, q, 3) : q \in qs \cap up[e]}, net)
    /\ UNCHANGED <<up, sent, got, heard>>

\* resetPartyTQOSPeerUnsafe: the roster has somebody else in the peer's slot, and
\* then the peer again.
ForgetPeer(e) ==
    /\ "roster" \in Env
    /\ Restart(e, Route)
    /\ Step(e, [q \in Route |-> Fresh([blocked |-> FALSE])], 0, {}, net)
    /\ UNCHANGED <<up, sent, got, heard>>

\* flushPartyTQOSRepliesUnsafe: the reply is sent again, with a limit after
\* which the route counts as failed and the retries go on slowly.
RetryReply(e, q) ==
    LET s == t[e][q].reply
        again == [t[e] EXCEPT ![q].reply.retries = IF s.exhausted THEN @ ELSE @ + 1]
    IN /\ s.on /\ ~s.acked
       /\ s.exhausted \/ s.retries < MaxRetries
       /\ SendBy(e, q, again, t[e], {Offer(e, q, s.seq)})
       /\ UNCHANGED <<up, sent>> /\ Unmarked

ExhaustReply(e, q) ==
    LET s == t[e][q].reply
        x == [t[e] EXCEPT ![q].reply.exhausted = TRUE]
    IN /\ s.on /\ ~s.acked /\ ~s.exhausted /\ s.retries >= MaxRetries
       /\ Step(e, Failed(x, q), ChosenAfterFailure(x, chosen[e], q), {}, net)
       /\ UNCHANGED <<up, sent>> /\ Unmarked

\* probePartyRobotPeerHealthUnsafe: an idle route must be acknowledged again.
HealthProbe(e, q) ==
    LET s == t[e][q].reply
        x == [t[e] EXCEPT ![q].reply = [s EXCEPT !.acked = FALSE, !.exhausted = FALSE, !.retries = 0]]
    IN /\ t[e][q].ready /\ s.on /\ s.acked
       /\ SendBy(e, q, x, x, {Offer(e, q, s.seq)})
       /\ UNCHANGED <<up, sent>> /\ Unmarked

-----------------------------------------------------------------------------
(* Receiving, buildPartyTQOSRepliesUnsafe.                                 *)

\* markPartyRouteHealthyUnsafe.
Healthy(x, q) == [x EXCEPT ![q].blocked = FALSE]

\* Mutant: an acknowledgement clears the oldest packet.
AcknowledgedOldest(p, seq) == SelectSeq(p, LAMBDA i : i # Head(p))

\* acknowledgePartyReliableUnsafe: what is left of the packets.
Acknowledged(p, seq) == SelectSeq(p, LAMBDA i : i.seq + 1 # seq)

ReceiveAck(e, m) ==
    LET x == Healthy(t[e], m.q)
        left == Acknowledged(x[m.q].pending, m.seq)
        gone == {p.id : p \in ToSet(x[m.q].pending) \ ToSet(left)}
        mine == x[m.q].reply.on /\ x[m.q].reply.seq + 1 = m.seq
        y == [x EXCEPT ![m.q].pending = left,
                       ![m.q].ready = @ \/ mine \/ gone # {},
                       ![m.q].reply = IF mine
                                      THEN [@ EXCEPT !.acked = TRUE, !.exhausted = FALSE]
                                      ELSE @]
    IN /\ m.kind = "ack"
       /\ \E n \in Rest(m) : Step(e, y, m.q, {}, n)
       /\ cleared' = [cleared EXCEPT ![e][m.q] = @ \cup gone]
       /\ UNCHANGED <<got, pure, resets>>

\* A reliable packet is acknowledged, whether it is new or not.  Of a new one
\* that is no TQOS packet the payload is taken.
ReceiveReliable(e, m) ==
    LET x == Healthy(t[e], m.q)
        new == m.seq \notin x[m.q].recv
        y == Marked([x EXCEPT ![m.q].recv = @ \cup {m.seq}], m)
    IN /\ m.kind = "rel"
       /\ \E n \in Rest(m) : Step(e, y, m.q, {Ack(e, m.q, m.seq)}, n)
       /\ got' = [got EXCEPT ![e] = @ \cup IF new /\ m.id # 0 THEN {m.id} ELSE {}]
       /\ UNCHANGED <<cleared, pure, resets>>

\* beginPartyTQOSEpochUnsafe: the first state, unless it is a repetition, starts
\* the route over.  The answer is the state after it.
ReceiveProbe(e, m) ==
    LET x == Healthy(t[e], m.q)
        y == [x EXCEPT ![m.q] = [Fresh(@) EXCEPT !.epoch = TRUE]]
    IN
    /\ m.kind = "tqos" /\ m.state = 3
    /\ \E n \in Rest(m) :
       \/ /\ x[m.q].epoch
          /\ Step(e, Marked(x, m), m.q, {Tqos(e, m.q, 0)}, n)
          /\ UNCHANGED <<cleared, pure, resets>>
       \/ /\ Restart(e, {m.q})
          /\ Step(e, Marked(y, m), m.q, {Tqos(e, m.q, 0)}, n)
    /\ UNCHANGED got

\* The states 0 and 1.  A robot that has a ready route does not answer.
ReceiveState(e, m) ==
    LET x == Marked(Healthy(t[e], m.q), m)
        s == x[m.q].reply
        known == \E q \in Route : x[q].ready
        new == [NoReply EXCEPT !.on = TRUE, !.seq = x[m.q].rseq]
        y == [x EXCEPT ![m.q].reply = new, ![m.q].rseq = @ + 1]
    IN /\ m.kind = "tqos" /\ m.state \in {0, 1}
       /\ \E n \in Rest(m) :
          \/ known /\ Step(e, x, m.q, {}, n)
          \/ ~known /\ m.state = 0 /\ Step(e, x, m.q, {Tqos(e, m.q, 1)}, n)
          \* partyTQOSReliableReplyUnsafe: the reply that is waiting, or one that
          \* was acknowledged if the request is not newer, else another.
          \/ ~known /\ m.state = 1 /\ s.on /\ Step(e, x, m.q, {Offer(e, m.q, s.seq)}, n)
          \/ ~known /\ m.state = 1 /\ (~s.on \/ s.acked)
             /\ Step(e, y, m.q, {Offer(e, m.q, new.seq)}, n)
       /\ UNCHANGED <<got, cleared, pure, resets>>

Receive(e, m) ==
    /\ m.to = e
    /\ ReceiveAck(e, m) \/ ReceiveReliable(e, m) \/ ReceiveProbe(e, m) \/ ReceiveState(e, m)
    /\ heard' = [heard EXCEPT ![e] = @ \cup {m.q}]
    /\ UNCHANGED <<up, sent>>

-----------------------------------------------------------------------------
(* The surroundings.                                                       *)

Lose(m) == net' = net \ {m} /\ UNCHANGED <<t, chosen, up, sent, resets, got, cleared, pure, heard>>

\* A route is no longer blocked.
Unblock(e, q) ==
    /\ t[e][q].blocked
    /\ Step(e, Healthy(t[e], q), chosen[e], {}, net)
    /\ UNCHANGED <<up, sent>> /\ Unmarked

\* PartyLinks: a socket is lost, and comes back.  A new UDP socket starts its
\* route over (rebuildPartyUDPUnsafe), a new relay connection does not.
Down(e, q) ==
    /\ "down" \in Env /\ q \in up[e]
    /\ up' = [up EXCEPT ![e] = @ \ {q}]
    /\ UNCHANGED <<t, chosen, net, sent>> /\ Unmarked

\* writePartyUDPDatagramWithMTU fails.
WriteFails(e, q) ==
    /\ "down" \in Env /\ q \in up[e]
    /\ Step(e, Failed(t[e], q), ChosenAfterFailure(t[e], chosen[e], q), {}, net)
    /\ UNCHANGED <<up, sent>> /\ Unmarked

Up(e, q) ==
    /\ q \notin up[e]
    /\ up' = [up EXCEPT ![e] = @ \cup {q}]
    /\ IF q = 1
         THEN /\ t' = [t EXCEPT ![e][q] = Fresh([blocked |-> FALSE])]
              /\ Restart(e, {q})
              /\ UNCHANGED <<got, heard>>
         ELSE UNCHANGED t /\ Unmarked
    /\ UNCHANGED <<chosen, net, sent>>

Next ==
    \/ \E e \in End : Probe(e) \/ SendData(e) \/ CancelDungeon(e) \/ ForgetPeer(e)
    \/ \E e \in End, q \in Route :
          \/ RetryData(e, q) \/ Recover(e, q)
          \/ RetryReply(e, q) \/ ExhaustReply(e, q) \/ HealthProbe(e, q)
          \/ Unblock(e, q) \/ Down(e, q) \/ WriteFails(e, q) \/ Up(e, q)
    \/ \E m \in net : Lose(m) \/ \E e \in End : Receive(e, m)

Spec == Init /\ [][Next]_vars

-----------------------------------------------------------------------------
(* Properties.                                                             *)

\* In an epoch that both ends began with nothing of an earlier one under way, a
\* packet that an acknowledgement cleared was taken by the peer: neither loss
\* nor reordering nor doubles make the sender forget a packet that is missing.
ClearedWasTaken ==
    \A e \in End, q \in Route : pure[e][q] => cleared[e][q] \subseteq got[Other(e)]

\* A robot takes a route for ready, and prefers it, only if the peer has
\* received something from it by this route and it from the peer.
ReadyBothWays ==
    \A e \in End, q \in Route :
        t[e][q].ready => q \in heard[e] /\ q \in heard[Other(e)]
=============================================================================
