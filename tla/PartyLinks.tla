----------------------------- MODULE PartyLinks -----------------------------
(***************************************************************************)
(* The connections a robot keeps while it is in a party: the relay         *)
(* connection with its dialing, reading and writing goroutines, the UDP    *)
(* socket with its receive loop, and the party supervisor that restores    *)
(* them (dnf.RobotVo, party_relay.go, party_udp.go, party_supervisor.go).  *)
(*                                                                         *)
(* The fields of RobotVo change under r.mu; each step below holds r.mu     *)
(* once.  A generation or epoch is only ever compared with the one a       *)
(* goroutine was started with, so a goroutine is "current" until the       *)
(* number is raised and stale from then on; equal goroutines are counted.  *)
(***************************************************************************)
EXTENDS Naturals, FiniteSets

CONSTANTS Socket,     \* relay sockets; one is reused when nobody has it any more
          None,
          QueueSize,  \* partyRelayWriteQueueSize
          MaxStale,   \* bound on stale goroutines of a kind
          Env         \* what the surroundings offer, see below

\* Env is a subset of these.  "ports": a UDP port can be had.  "relay": the relay
\* can be reached.  "badframe": the game server sends a frame of invalid size.
\* "panic": the party supervisor panics.

VARIABLES r,      \* the RobotVo
          reader, \* where partyRelayLoop of each socket is
          wpc     \* where partyRelayWriteLoop of each socket is

vars == <<r, reader, wpc>>

Loops == [current : 0..2, stale : 0..MaxStale]

TypeOK ==
    /\ r \in [state : {"away", "run", "stop"}, \* StateRun, StateStop, any other
              link : BOOLEAN,                  \* Conn # nil
              party : {"none", "pending", "peers"},
              natInfoSent : BOOLEAN,
              supRun : BOOLEAN, sup : Loops,   \* partySupervisorRun
              udp : BOOLEAN, udpRun : BOOLEAN, udpLoop : Loops,
              conn : Socket \cup {None},       \* partyRelayConn
              connecting : BOOLEAN,
              waiting : BOOLEAN,               \* partyRelayNextAt is to come
              writer : Socket \cup {None},     \* partyRelayWriter, by its conn
              dial : Loops,
              queue : [Socket -> 0..QueueSize],
              done : [Socket -> 0..2],         \* how often the writer's done was
                                               \* closed; 1 before there is one
              open : SUBSET Socket]
    /\ reader \in [Socket -> {"none", "read", "beat", "detach", "close"}]
    /\ wpc \in [Socket -> {"none", "select", "write", "close"}]

NoLoop == [current |-> 0, stale |-> 0]

\* A session that logs in.
Init ==
    /\ r = [state |-> "away", link |-> TRUE, party |-> "none", natInfoSent |-> FALSE,
            supRun |-> FALSE, sup |-> NoLoop,
            udp |-> FALSE, udpRun |-> FALSE, udpLoop |-> NoLoop,
            conn |-> None, connecting |-> FALSE, waiting |-> FALSE, writer |-> None,
            dial |-> NoLoop,
            queue |-> [s \in Socket |-> 0], done |-> [s \in Socket |-> 1], open |-> {}]
    /\ reader = [s \in Socket |-> "none"]
    /\ wpc = [s \in Socket |-> "none"]

Started(l) == [l EXCEPT !.current = @ + 1]
Outdated(l) == [current |-> 0, stale |-> l.stale + l.current]
Ended(l) == [l EXCEPT !.current = @ - 1]
StaleEnded(l) == [l EXCEPT !.stale = @ - 1]

\* Nobody has the socket.
Unused(s) ==
    /\ s \notin {r.conn, r.writer} /\ s \notin r.open
    /\ reader[s] = "none" /\ wpc[s] = "none"

\* Whether net.ListenUDP succeeds.
Listens == {FALSE, "ports" \in Env}

\* The bound, on what a step leaves behind.
Within(v) == \A l \in {v.sup, v.udpLoop, v.dial} : l.stale =< MaxStale

\* partyActiveUnsafe.  That it drops an expired pending invitation itself is
\* PendingExpires: to nobody here does an expired one differ from none.
Active(v) == v.party # "none"

-----------------------------------------------------------------------------
(* What is called with r.mu held: functions from a RobotVo to the next.    *)

EnsureSupervisor(v) ==
    IF v.supRun \/ v.state # "run" \/ ~Active(v) THEN v
    ELSE [v EXCEPT !.sup = Started(Outdated(@)), !.supRun = TRUE]

StopSupervisor(v) == [v EXCEPT !.sup = Outdated(@), !.supRun = FALSE]

EnsureUDPLoop(v) ==
    IF ~v.udp \/ v.udpRun \/ ~Active(v) THEN v
    ELSE [v EXCEPT !.udpRun = TRUE, !.udpLoop = Started(@)]

CloseUDP(v) ==
    [v EXCEPT !.udpLoop = Outdated(@), !.udpRun = FALSE, !.udp = FALSE]

\* startPartyUDPUnsafe, on no socket.
StartUDP(v) ==
    EnsureUDPLoop([v EXCEPT !.udp = TRUE, !.udpLoop = Outdated(@), !.udpRun = FALSE])

\* sendNATInfoUpdateUnsafe; neither port may be free, and sending may fail.
SendNATInfo(v, force, listens, sends) ==
    LET w == IF v.udp THEN EnsureUDPLoop(v) ELSE StartUDP(v) IN
    IF v.state # "run" \/ (~force /\ v.natInfoSent) \/ ~v.link \/ ~(v.udp \/ listens)
    THEN v
    ELSE [w EXCEPT !.natInfoSent = @ \/ sends]

RebuildUDP(v, listens, sends) ==
    IF ~v.link THEN v
    ELSE SendNATInfo([(IF v.udp THEN CloseUDP(v) ELSE v) EXCEPT !.natInfoSent = FALSE],
                     FALSE, listens, sends)

EnsureUDPHealth(v, listens, sends) ==
    IF v.state # "run" \/ ~v.link \/ ~Active(v) \/ (v.udp /\ v.udpRun) THEN v
    ELSE RebuildUDP(v, listens, sends)

EnsureRelay(v) ==
    IF \/ v.conn # None \/ v.connecting
       \/ v.state # "run" \/ ~v.link \/ ~Active(v)
       \/ v.waiting
    THEN v
    ELSE [v EXCEPT !.connecting = TRUE, !.dial = Started(@)]

\* Mutant: a close forgets the dial under way, but not its generation.
NextGenerationKept(v) == [v EXCEPT !.connecting = FALSE]

\* The generation is raised: no dial under way may attach.
NextGeneration(v) == [v EXCEPT !.dial = Outdated(@), !.connecting = FALSE]

\* Mutant: the stopped writer stays registered.
StopWriterKept(v, s) ==
    IF v.writer = None \/ (s # None /\ v.writer # s) THEN v
    ELSE [v EXCEPT !.done[v.writer] = @ + 1]

\* stopPartyRelayWriterUnsafe; without a connection it stops any writer.
StopWriter(v, s) ==
    IF v.writer = None \/ (s # None /\ v.writer # s) THEN v
    ELSE [v EXCEPT !.writer = None, !.done[v.writer] = @ + 1]

\* Mutant: the writer is left to wait for packets.
CloseRelayOnly(v) ==
    [NextGeneration(v) EXCEPT !.conn = None, !.waiting = FALSE, !.writer = None,
                              !.open = @ \ {v.conn}]

CloseRelay(v) ==
    [StopWriter([NextGeneration(v) EXCEPT !.conn = None, !.waiting = FALSE], v.conn)
        EXCEPT !.open = @ \ {v.conn}]

ScheduleRetry(v) ==
    IF v.state = "run" /\ Active(v) THEN [v EXCEPT !.waiting = TRUE] ELSE v

DetachConn(v, s) ==
    IF v.conn # s THEN v
    ELSE ScheduleRetry(StopWriter([NextGeneration(v) EXCEPT !.conn = None], s))

\* enqueuePartyRelayPacketUnsafe: the writer is there since the connection
\* was attached (WriterOfTheConnection).
CanEnqueue(v, s) == v.conn = s /\ v.queue[s] < QueueSize
Enqueue(v, s) == [v EXCEPT !.queue[s] = @ + 1]

\* sendPartyTransportUnsafe over the relay, which closes it on failure.
SendByRelay(v) ==
    IF v.conn = None THEN v
    ELSE IF CanEnqueue(v, v.conn) THEN Enqueue(v, v.conn)
    ELSE [DetachConn(v, v.conn) EXCEPT !.open = @ \ {v.conn}]

SetPending(v) ==
    EnsureSupervisor(EnsureUDPLoop(
        [v EXCEPT !.party = IF @ = "none" THEN "pending" ELSE @]))

\* setPartyPeersUnsafe: an invitation no longer counts, only the peers do.
SetPeers(v, known) ==
    LET w == EnsureSupervisor(EnsureUDPLoop(
                 [v EXCEPT !.party = IF known THEN "peers" ELSE "none"]))
    IN IF Active(w) THEN w ELSE StopSupervisor(w)

ClearPending(v) == [v EXCEPT !.party = IF @ = "pending" THEN "none" ELSE @]

ClearParty(v) == CloseRelay([StopSupervisor(v) EXCEPT !.party = "none"])

CloseAll(v) == CloseRelay(CloseUDP(StopSupervisor(v)))

\* CheckUserState, RefishConnect and closeOutUnsafe where they end a session.
EndSession(v) == [CloseAll(v) EXCEPT !.link = FALSE, !.state = "stop"]

-----------------------------------------------------------------------------
(* Packets and calls of the session.                                       *)

Step(v) == r' = v /\ Within(v) /\ UNCHANGED <<reader, wpc>>

Receiving == r.state = "run" /\ r.link

\* The login ends in StateRun.
LoginDone ==
    /\ r.state = "away" /\ r.link
    /\ \E listens \in Listens, sends \in BOOLEAN :
       Step(SendNATInfo([r EXCEPT !.state = "run"], FALSE, listens, sends))

\* finishReturnToSelectUnsafe, of a recovery of the party or not.
ReturnToSelect ==
    /\ Receiving
    /\ LET v == [r EXCEPT !.state = "away"] IN
       Step(ClearParty(v)) \/ Step(ClearPending(CloseAll(v)))

\* An invitation is accepted, at once or by the fallback.
Invite == Receiving /\ Step(EnsureRelay(SetPending(r)))

\* Type 11, the party's addresses.
Snapshot == Receiving /\ \E known \in BOOLEAN : Step(EnsureRelay(SetPeers(r, known)))

\* Type 153, the party's identities, in as far as they change the peers.
Realtime == Receiving /\ \E known \in BOOLEAN : Step(SetPeers(r, known))

PendingExpires == r.party = "pending" /\ Step(ClearPending(r))

\* A packet to a peer goes over the relay.
Send == Active(r) /\ r.conn # None /\ Step(SendByRelay(r))

\* CheckUserState.  A DisconReason ends the session as another state does.
CheckUserState ==
    /\ r.state # "stop"
    /\ \/ Step(EndSession(r))
       \/ /\ r.state = "run" /\ Active(r)
          /\ Step(EnsureRelay(EnsureUDPLoop(EnsureSupervisor(r))))
       \/ /\ r.state = "run" /\ ~Active(r)
          /\ LET v == StopSupervisor(r) IN Step(IF v.conn = None THEN v ELSE CloseRelay(v))

\* CloseOut; RefishConnect keeps the invitation, which ends by itself.
CloseOut == Step(ClearPending(EndSession(r))) \/ Step(EndSession(r))

\* A frame of invalid size: the party's connections are not closed.
BadFrame ==
    /\ "badframe" \in Env /\ r.state # "stop" /\ r.link
    /\ Step([r EXCEPT !.state = "stop", !.link = FALSE])

RetryElapses == r.waiting /\ Step([r EXCEPT !.waiting = FALSE])

-----------------------------------------------------------------------------
(* The party supervisor, partySupervisorStep.                              *)

\* Each second: the UDP socket, its announcement while the server has not
\* told the robot's identity, the relay, a roster that was confirmed. A rebuild
\* that fails is followed by an announcement, with the outcomes of a rebuild.
Healths(v) == {EnsureUDPHealth(v, listens, sends) : listens \in Listens, sends \in BOOLEAN}

Announced(v) == {SendNATInfo(v, TRUE, TRUE, sends) : sends \in BOOLEAN}

Rebuilt(v) == {RebuildUDP(v, listens, sends) : listens \in Listens, sends \in BOOLEAN}

Identities(v) == {v} \cup IF v.udp THEN Announced(v) \cup Rebuilt(v) ELSE {}

Rosters(v) == {v, SetPeers(v, TRUE), SetPeers(v, FALSE)}

Maintained(v) ==
    UNION {Rosters(EnsureRelay(w)) : w \in UNION {Identities(h) : h \in Healths(v)}}

Supervising == r.sup.current > 0 /\ r.state = "run" /\ Active(r)

\* Then what is due to be sent.
SupervisorMaintains ==
    /\ Supervising
    /\ \E v \in Maintained(r) : Step(v) \/ Step(SendByRelay(v))

SupervisorEnds ==
    /\ r.sup.current > 0 /\ ~Supervising
    /\ Step([r EXCEPT !.sup = Ended(@), !.supRun = FALSE])

SupervisorPanics ==
    /\ "panic" \in Env /\ Supervising
    /\ Step([r EXCEPT !.sup = Ended(@), !.supRun = FALSE])

StaleSupervisorEnds == r.sup.stale > 0 /\ Step([r EXCEPT !.sup = StaleEnded(@)])

-----------------------------------------------------------------------------
(* The UDP receive loop.                                                   *)

UDPLoopEnds == [r EXCEPT !.udpLoop = Ended(@), !.udpRun = FALSE]

UDPLoopStops ==
    /\ r.udpLoop.current > 0 /\ (r.state = "stop" \/ ~Active(r))
    /\ Step(UDPLoopEnds)

\* Reading fails for good, or for partyUDPReadRecycleAfter.
UDPLoopFails == r.udpLoop.current > 0 /\ Step(UDPLoopEnds)

StaleUDPLoopEnds == r.udpLoop.stale > 0 /\ Step([r EXCEPT !.udpLoop = StaleEnded(@)])

-----------------------------------------------------------------------------
(* connectPartyRelay: dial and authenticate without the lock, then finish. *)

\* Mutant: connecting is only reset by a close.
FinishedDialConnecting == [r EXCEPT !.dial = Ended(@)]

FinishedDial == [r EXCEPT !.dial = Ended(@), !.connecting = FALSE]

DialFails ==
    /\ r.dial.current > 0
    /\ Step(IF r.conn = None THEN ScheduleRetry(FinishedDial) ELSE FinishedDial)

\* finishPartyRelayConnect refuses the connection and the dialer, who alone
\* has it, closes it.
DialRefused ==
    /\ "relay" \in Env /\ r.dial.current > 0
    /\ r.conn # None \/ r.state # "run" \/ ~Active(r)
    /\ Step(FinishedDial)

\* Of another generation: refused or failed, it changes nothing.
StaleDialEnds == r.dial.stale > 0 /\ Step([r EXCEPT !.dial = StaleEnded(@)])

\* It attaches the connection; reader and writer start.
DialAttaches ==
    /\ "relay" \in Env /\ r.dial.current > 0
    /\ r.conn = None /\ r.state = "run" /\ Active(r)
    /\ \E s \in Socket :
       /\ Unused(s)
       /\ r' = [FinishedDial EXCEPT
                   !.conn = s, !.waiting = FALSE, !.open = @ \cup {s}, !.writer = s,
                   !.done = [t \in Socket |-> IF t = s THEN 0
                                              ELSE IF t = r.writer THEN r.done[t] + 1
                                              ELSE r.done[t]]]
       /\ reader' = [reader EXCEPT ![s] = "read"]
       /\ wpc' = [wpc EXCEPT ![s] = "select"]

-----------------------------------------------------------------------------
(* partyRelayLoop, on socket s.                                            *)

ReaderGoes(s, from, to, v) ==
    /\ reader[s] = from
    /\ reader' = [reader EXCEPT ![s] = to]
    /\ r' = v /\ Within(v)
    /\ UNCHANGED wpc

CloseSocket(s) == [r EXCEPT !.open = @ \ {s}]

\* Reading fails, as it does on a closed socket, or a packet has a bad size.
ReadFails(s) == ReaderGoes(s, "read", "close", DetachConn(r, s))

\* Nothing was read for two seconds.
ReadTimesOut(s) ==
    /\ s \in r.open
    /\ LET stopped == r.state = "stop" \/ r.conn # s IN
       \/ stopped /\ ReaderGoes(s, "read", "close", r)
       \/ ~stopped /\ ReaderGoes(s, "read", "beat", r)

Heartbeat(s) ==
    \/ CanEnqueue(r, s) /\ ReaderGoes(s, "beat", "read", Enqueue(r, s))
    \/ ~CanEnqueue(r, s) /\ ReaderGoes(s, "beat", "detach", r)

\* handlePartyRelayPacket answers a peer.  When that fails it detaches and
\* closes, and the loop does so again when it reads from the closed socket.
Reply(s) ==
    /\ s \in r.open
    /\ \/ CanEnqueue(r, s) /\ ReaderGoes(s, "read", "read", Enqueue(r, s))
       \/ ~CanEnqueue(r, s) /\ ReaderGoes(s, "read", "detach", r)

ReaderDetaches(s) == ReaderGoes(s, "detach", "close", DetachConn(r, s))

ReaderCloses(s) == ReaderGoes(s, "close", "none", CloseSocket(s))

-----------------------------------------------------------------------------
(* partyRelayWriteLoop, on socket s.                                       *)

WriterGoes(s, from, to, v) ==
    /\ wpc[s] = from
    /\ wpc' = [wpc EXCEPT ![s] = to]
    /\ r' = v /\ Within(v)
    /\ UNCHANGED reader

\* The queue goes with the goroutine that reads it.
Drained(v, s) == [v EXCEPT !.queue[s] = 0]

WriterDone(s) == r.done[s] > 0 /\ WriterGoes(s, "select", "none", Drained(r, s))

\* The loop looks at done first, but done may be closed right after that.
WriterTakes(s) ==
    /\ r.queue[s] > 0
    /\ WriterGoes(s, "select", "write", [r EXCEPT !.queue[s] = @ - 1])

Written(s) == s \in r.open /\ WriterGoes(s, "write", "select", r)

\* Mutant: the writer closes the connection and leaves it attached.
WriteFailsAttached(s) == WriterGoes(s, "write", "close", r)

WriteFails(s) == WriterGoes(s, "write", "close", DetachConn(r, s))

WriterCloses(s) == WriterGoes(s, "close", "none", Drained(CloseSocket(s), s))

-----------------------------------------------------------------------------

Session ==
    \/ LoginDone \/ ReturnToSelect \/ Invite \/ Snapshot \/ Realtime \/ PendingExpires
    \/ Send \/ CheckUserState \/ CloseOut \/ BadFrame \/ RetryElapses

Goroutines ==
    \/ SupervisorMaintains \/ SupervisorEnds \/ SupervisorPanics \/ StaleSupervisorEnds
    \/ UDPLoopStops \/ UDPLoopFails \/ StaleUDPLoopEnds
    \/ DialFails \/ DialRefused \/ StaleDialEnds \/ DialAttaches

Reader(s) ==
    \/ ReadFails(s) \/ ReadTimesOut(s) \/ Heartbeat(s) \/ Reply(s)
    \/ ReaderDetaches(s) \/ ReaderCloses(s)

Writer(s) ==
    \/ WriterDone(s) \/ WriterTakes(s)
    \/ Written(s) \/ WriteFails(s) \/ WriterCloses(s)

Next == Session \/ Goroutines \/ \E s \in Socket : Reader(s) \/ Writer(s)

Spec == Init /\ [][Next]_vars

\* Steps that go on by themselves: a round of the supervisor that dials, the end
\* of a dial, and the reader of a socket.
Dials == SupervisorMaintains /\ ~r.connecting /\ r'.connecting
DialEnds == DialFails \/ DialRefused \/ DialAttaches
ReaderRuns(s) ==
    \/ ReadTimesOut(s) \/ Heartbeat(s) \/ ReaderDetaches(s) \/ ReaderCloses(s)
    \/ s \notin r.open /\ ReadFails(s)

-----------------------------------------------------------------------------
(* Properties.                                                             *)

Flag(b) == IF b THEN 1 ELSE 0

\* A flag that says that a goroutine is at work is never left behind by one
\* that has ended, else nobody would start another; and no second one starts
\* besides it: one supervisor, one UDP loop, one dial that may attach.
OneAtATime ==
    /\ r.sup.current = Flag(r.supRun)
    /\ r.udpLoop.current = Flag(r.udpRun)
    /\ r.dial.current = Flag(r.connecting)
    /\ r.connecting => r.conn = None

\* An attached relay connection, which keeps ensurePartyRelayUnsafe from
\* dialing, has a reader that will notice its end and a writer for its queue,
\* as long as the session is not stopped; and the writer's done channel is
\* never closed twice, which would panic, however reader, writer, senders and
\* the session compete to end a connection.
AttachedIsServed ==
    /\ r.conn # None /\ r.state # "stop" =>
        /\ reader[r.conn] \in {"read", "beat", "detach"}
        /\ r.writer = r.conn
        /\ wpc[r.conn] \in {"select", "write"}
        /\ r.done[r.conn] = 0
    /\ \A s \in Socket : r.done[s] =< 1

\* A relay socket that is not attached but not yet left by its goroutines.
LeftOver(s) == r.conn # s /\ ~Unused(s)

\* The party goes on under its supervisor, without a relay connection.
Supervised == r.state = "run" /\ r.link /\ Active(r) /\ r.supRun
Unconnected == r.conn = None
=============================================================================
