-------------------------- MODULE PartyLinksProofs --------------------------
(***************************************************************************)
(* Proofs about a party's connections (module PartyLinks).                 *)
(*                                                                         *)
(* Every operation of the package on a RobotVo runs under r.mu and is a    *)
(* chain of helpers. The proofs follow the code in this: Sound says what a *)
(* holder of the lock leaves behind, and each helper is shown once, for    *)
(* any RobotVo, to keep it, to attach no connection and to bring no        *)
(* stopped session back (Follows). An action of the session or of a        *)
(* goroutine is then a chain of helpers that follow each other; only the   *)
(* dial that succeeds attaches, and only the readers and the writers move  *)
(* their own program counters.                                             *)
(***************************************************************************)
EXTENDS PartyLinks, TLAPS

Loop == [current : Nat, stale : Nat]

\* A RobotVo, without the bounds of the model.
Vo == [state : {"away", "run", "stop"}, link : BOOLEAN, party : {"none", "pending", "peers"},
       natInfoSent : BOOLEAN, supRun : BOOLEAN, sup : Loop, udp : BOOLEAN, udpRun : BOOLEAN,
       udpLoop : Loop, conn : Socket \cup {None}, connecting : BOOLEAN, waiting : BOOLEAN,
       writer : Socket \cup {None}, dial : Loop, queue : [Socket -> Nat], done : [Socket -> Nat],
       open : SUBSET Socket]

\* What every holder of r.mu leaves behind: flags that tell the goroutines at work,
\* a writer for the connection and no other, and done closed at most once.
Sound(v) ==
  /\ v \in Vo
  /\ v.sup.current = Flag(v.supRun)
  /\ v.udpLoop.current = Flag(v.udpRun)
  /\ v.dial.current = Flag(v.connecting)
  /\ v.connecting => v.conn = None
  /\ v.writer = v.conn
  /\ v.conn # None => v.done[v.conn] = 0
  /\ \A s \in Socket : v.done[s] <= 1

\* A step that attaches no connection and brings no stopped session back.
Follows(v, w) ==
  /\ Sound(w)
  /\ w.conn = v.conn \/ w.conn = None
  /\ v.state = "stop" => w.state = "stop"

\* Two steps taken under one lock, or under two, follow each other.
LEMMA FollowsTwice ==
  ASSUME NEW v, NEW w, NEW x, Follows(v, w), Follows(w, x)
  PROVE  Follows(v, x)
BY DEF Follows

\* What starting, outdating and ending do to a count of goroutines.
LEMMA LoopFacts ==
  ASSUME NEW l \in Loop
  PROVE  /\ Started(l) \in Loop /\ Started(l).current = l.current + 1
         /\ Outdated(l) \in Loop /\ Outdated(l).current = 0
         /\ l.current > 0 => Ended(l) \in Loop /\ Ended(l).current = l.current - 1
         /\ l.stale > 0 => StaleEnded(l) \in Loop /\ StaleEnded(l).current = l.current
BY DEF Loop, Started, Outdated, Ended, StaleEnded

\* A goroutine started where none is current is the only current one.
LEMMA StartedFacts ==
  ASSUME NEW l \in Loop, l.current = 0
  PROVE  Started(l) \in Loop /\ Started(l).current = 1
BY DEF Loop, Started

\* A step that changes only what Sound is not about.
SameCore(v, w) ==
  /\ w.sup = v.sup /\ w.supRun = v.supRun /\ w.udpLoop = v.udpLoop /\ w.udpRun = v.udpRun
  /\ w.dial = v.dial /\ w.connecting = v.connecting
  /\ w.conn = v.conn /\ w.writer = v.writer /\ w.done = v.done
  /\ v.state = "stop" => w.state = "stop"

\* Such a step keeps all that Sound says.
LEMMA PlainFollows ==
  ASSUME NEW v, NEW w \in Vo, Sound(v), SameCore(v, w)
  PROVE  Follows(v, w)
BY DEF Sound, Follows, SameCore

\* ensurePartySupervisorUnsafe leaves one current supervisor, whatever it replaces.
LEMMA EnsureSupervisorFollows ==
  ASSUME NEW v, Sound(v)
  PROVE  Follows(v, EnsureSupervisor(v)) /\ EnsureSupervisor(v).state = v.state
<1> DEFINE w == [v EXCEPT !.sup = Started(Outdated(@)), !.supRun = TRUE]
<1>1. CASE EnsureSupervisor(v) = v BY <1>1 DEF Follows
<1>2. CASE EnsureSupervisor(v) = w
  <2>1. v \in Vo BY DEF Sound
  <2>2. v.sup \in Loop BY <2>1 DEF Vo
  <2>a. Outdated(v.sup) \in Loop /\ Outdated(v.sup).current = 0 BY <2>2, LoopFacts
  <2>3. Started(Outdated(v.sup)) \in Loop /\ Started(Outdated(v.sup)).current = 1 BY <2>a, StartedFacts
  <2>4. w \in Vo BY <2>1, <2>3 DEF Vo
  <2>5. /\ w.sup.current = 1 /\ w.supRun = TRUE /\ w.udpLoop = v.udpLoop /\ w.udpRun = v.udpRun /\ w.dial = v.dial
        /\ w.connecting = v.connecting /\ w.conn = v.conn /\ w.writer = v.writer /\ w.done = v.done /\ w.state = v.state
    BY <2>1, <2>3 DEF Vo
  <2> HIDE DEF w
  <2> QED BY <1>2, <2>4, <2>5 DEF Sound, Follows, Flag
<1> QED BY <1>1, <1>2 DEF EnsureSupervisor

\* stopPartySupervisorUnsafe leaves none, and the flag says so.
LEMMA StopSupervisorFollows ==
  ASSUME NEW v, Sound(v)
  PROVE  Follows(v, StopSupervisor(v)) /\ StopSupervisor(v).state = v.state
<1> DEFINE w == StopSupervisor(v)
<1>1. v \in Vo /\ v.sup \in Loop BY DEF Sound, Vo
<1>2. Outdated(v.sup) \in Loop /\ Outdated(v.sup).current = 0 BY <1>1, LoopFacts
<1>3. w \in Vo BY <1>1, <1>2 DEF Vo, StopSupervisor
<1>4. /\ w.sup.current = 0 /\ w.supRun = FALSE /\ w.udpLoop = v.udpLoop /\ w.udpRun = v.udpRun /\ w.dial = v.dial
      /\ w.connecting = v.connecting /\ w.conn = v.conn /\ w.writer = v.writer /\ w.done = v.done /\ w.state = v.state
  BY <1>1, <1>2 DEF Vo, StopSupervisor
<1> HIDE DEF w
<1>5. Follows(v, w) /\ w.state = v.state BY <1>3, <1>4 DEF Sound, Follows, Flag
<1> QED BY <1>5 DEF w

\* ensurePartyUDPLoopUnsafe starts a loop only where none is current.
LEMMA EnsureUDPLoopFollows ==
  ASSUME NEW v, Sound(v)
  PROVE  Follows(v, EnsureUDPLoop(v)) /\ EnsureUDPLoop(v).state = v.state /\ EnsureUDPLoop(v).link = v.link
<1> DEFINE w == [v EXCEPT !.udpRun = TRUE, !.udpLoop = Started(@)]
<1>1. CASE EnsureUDPLoop(v) = v BY <1>1 DEF Follows
<1>2. CASE EnsureUDPLoop(v) = w /\ ~v.udpRun
  <2>1. v \in Vo BY DEF Sound
  <2>2. v.udpLoop \in Loop /\ v.udpLoop.current = 0 BY <1>2, <2>1 DEF Sound, Vo, Flag
  <2>3. Started(v.udpLoop) \in Loop /\ Started(v.udpLoop).current = 1 BY <2>2, StartedFacts
  <2>4. w \in Vo BY <2>1, <2>3 DEF Vo
  <2>5. /\ w.sup = v.sup /\ w.supRun = v.supRun /\ w.udpLoop.current = 1 /\ w.udpRun = TRUE /\ w.dial = v.dial
        /\ w.connecting = v.connecting /\ w.conn = v.conn /\ w.writer = v.writer /\ w.done = v.done
        /\ w.state = v.state /\ w.link = v.link
    BY <2>1, <2>3 DEF Vo
  <2> HIDE DEF w
  <2> QED BY <1>2, <2>4, <2>5 DEF Sound, Follows, Flag
<1> QED BY <1>1, <1>2 DEF EnsureUDPLoop

\* closePartyUDPUnsafe outdates the loop and lowers its flag.
LEMMA CloseUDPFollows ==
  ASSUME NEW v, Sound(v)
  PROVE  Follows(v, CloseUDP(v)) /\ CloseUDP(v).state = v.state
<1> DEFINE w == CloseUDP(v)
<1>1. v \in Vo /\ v.udpLoop \in Loop BY DEF Sound, Vo
<1>2. Outdated(v.udpLoop) \in Loop /\ Outdated(v.udpLoop).current = 0 BY <1>1, LoopFacts
<1>3. w \in Vo BY <1>1, <1>2 DEF Vo, CloseUDP
<1>4. /\ w.sup = v.sup /\ w.supRun = v.supRun /\ w.udpLoop.current = 0 /\ w.udpRun = FALSE /\ w.dial = v.dial
      /\ w.connecting = v.connecting /\ w.conn = v.conn /\ w.writer = v.writer /\ w.done = v.done /\ w.state = v.state
  BY <1>1, <1>2 DEF Vo, CloseUDP
<1> HIDE DEF w
<1>5. Follows(v, w) /\ w.state = v.state BY <1>3, <1>4 DEF Sound, Follows, Flag
<1> QED BY <1>5 DEF w

\* startPartyUDPUnsafe replaces the loop of the socket before.
LEMMA StartUDPFollows ==
  ASSUME NEW v, Sound(v)
  PROVE  Follows(v, StartUDP(v)) /\ StartUDP(v).state = v.state
<1> DEFINE w == [v EXCEPT !.udp = TRUE, !.udpLoop = Outdated(@), !.udpRun = FALSE]
<1>1. v \in Vo /\ v.udpLoop \in Loop BY DEF Sound, Vo
<1>2. Outdated(v.udpLoop) \in Loop /\ Outdated(v.udpLoop).current = 0 BY <1>1, LoopFacts
<1>3. w \in Vo BY <1>1, <1>2 DEF Vo
<1>4. /\ w.sup = v.sup /\ w.supRun = v.supRun /\ w.udpLoop.current = 0 /\ w.udpRun = FALSE /\ w.dial = v.dial
      /\ w.connecting = v.connecting /\ w.conn = v.conn /\ w.writer = v.writer /\ w.done = v.done /\ w.state = v.state
  BY <1>1, <1>2 DEF Vo
<1>s. StartUDP(v) = EnsureUDPLoop(w) BY DEF StartUDP
<1> HIDE DEF w
<1>5. Follows(v, w) /\ w.state = v.state /\ Sound(w) BY <1>3, <1>4 DEF Sound, Follows, Flag
<1>6. Follows(w, EnsureUDPLoop(w)) /\ EnsureUDPLoop(w).state = w.state BY <1>5, EnsureUDPLoopFollows
<1> QED BY <1>5, <1>6, <1>s, FollowsTwice

\* sendNATInfoUpdateUnsafe, whether it listens and sends or fails to.
LEMMA SendNATInfoFollows ==
  ASSUME NEW v, Sound(v), NEW force, NEW listens, NEW sends \in BOOLEAN
  PROVE  Follows(v, SendNATInfo(v, force, listens, sends)) /\ SendNATInfo(v, force, listens, sends).state = v.state
<1> DEFINE w == IF v.udp THEN EnsureUDPLoop(v) ELSE StartUDP(v)
           x == [w EXCEPT !.natInfoSent = @ \/ sends]
<1>1. Follows(v, w) /\ w.state = v.state BY EnsureUDPLoopFollows, StartUDPFollows
<1>2. SendNATInfo(v, force, listens, sends) = v \/ SendNATInfo(v, force, listens, sends) = x BY DEF SendNATInfo
<1> HIDE DEF w
<1>3. w \in Vo /\ Sound(w) BY <1>1 DEF Follows, Sound
<1>4. x \in Vo /\ SameCore(w, x) /\ x.state = w.state BY <1>3 DEF Vo, SameCore
<1> HIDE DEF x
<1>5. Follows(w, x) BY <1>3, <1>4, PlainFollows
<1>6. Follows(v, x) BY <1>1, <1>5, FollowsTwice
<1>7. Follows(v, v) BY DEF Follows
<1> QED BY <1>1, <1>2, <1>4, <1>6, <1>7

\* rebuildPartyUDPUnsafe: the old socket closed, a new one announced or not.
LEMMA RebuildUDPFollows ==
  ASSUME NEW v, Sound(v), NEW listens, NEW sends \in BOOLEAN
  PROVE  Follows(v, RebuildUDP(v, listens, sends)) /\ RebuildUDP(v, listens, sends).state = v.state
<1> DEFINE w == IF v.udp THEN CloseUDP(v) ELSE v
           x == [w EXCEPT !.natInfoSent = FALSE]
           y == SendNATInfo(x, FALSE, listens, sends)
<1>0. RebuildUDP(v, listens, sends) = v \/ RebuildUDP(v, listens, sends) = y BY DEF RebuildUDP
<1>7. Follows(v, v) BY DEF Follows
<1>1. Follows(v, w) /\ w.state = v.state BY <1>7, CloseUDPFollows
<1> HIDE DEF w
<1>3. w \in Vo /\ Sound(w) BY <1>1 DEF Follows, Sound
<1>4. x \in Vo /\ SameCore(w, x) /\ x.state = w.state BY <1>3 DEF Vo, SameCore
<1> HIDE DEF x
<1>5. Follows(w, x) /\ Sound(x) BY <1>3, <1>4, PlainFollows DEF Follows
<1>6. Follows(x, y) /\ y.state = x.state BY <1>5, SendNATInfoFollows
<1> HIDE DEF y
<1>8. Follows(v, y) BY <1>1, <1>5, <1>6, FollowsTwice
<1> QED BY <1>0, <1>1, <1>4, <1>6, <1>7, <1>8

\* ensurePartyUDPHealthUnsafe is a rebuild or nothing.
LEMMA EnsureUDPHealthFollows ==
  ASSUME NEW v, Sound(v), NEW listens, NEW sends \in BOOLEAN
  PROVE  Follows(v, EnsureUDPHealth(v, listens, sends))
BY RebuildUDPFollows DEF EnsureUDPHealth, Follows

\* ensurePartyRelayUnsafe dials only where no connection and no dial is.
LEMMA EnsureRelayFollows ==
  ASSUME NEW v, Sound(v)
  PROVE  Follows(v, EnsureRelay(v)) /\ EnsureRelay(v).state = v.state
<1> DEFINE w == [v EXCEPT !.connecting = TRUE, !.dial = Started(@)]
<1>1. CASE EnsureRelay(v) = v BY <1>1 DEF Follows
<1>2. CASE EnsureRelay(v) = w /\ ~v.connecting /\ v.conn = None
  <2>1. v \in Vo BY DEF Sound
  <2>2. v.dial \in Loop /\ v.dial.current = 0 BY <1>2, <2>1 DEF Sound, Vo, Flag
  <2>3. Started(v.dial) \in Loop /\ Started(v.dial).current = 1 BY <2>2, StartedFacts
  <2>4. w \in Vo BY <2>1, <2>3 DEF Vo
  <2>5. /\ w.sup = v.sup /\ w.supRun = v.supRun /\ w.udpLoop = v.udpLoop /\ w.udpRun = v.udpRun /\ w.dial.current = 1
        /\ w.connecting = TRUE /\ w.conn = v.conn /\ w.writer = v.writer /\ w.done = v.done /\ w.state = v.state
    BY <2>1, <2>3 DEF Vo
  <2> HIDE DEF w
  <2> QED BY <1>2, <2>4, <2>5 DEF Sound, Follows, Flag
<1> QED BY <1>1, <1>2 DEF EnsureRelay

\* Stopping the writer of the connection that was attached closes its done channel,
\* for the first time.
LEMMA WriterStops ==
  ASSUME NEW v, Sound(v), NEW n \in Vo, n.writer = v.writer, n.done = v.done
  PROVE  LET w == StopWriter(n, v.conn)
         IN  /\ w \in Vo /\ w.writer = None /\ w.dial = n.dial /\ w.connecting = n.connecting /\ w.conn = n.conn
             /\ w.sup = n.sup /\ w.supRun = n.supRun /\ w.udpLoop = n.udpLoop /\ w.udpRun = n.udpRun /\ w.state = n.state
             /\ \A s \in Socket : w.done[s] <= 1
<1> DEFINE w == StopWriter(n, v.conn)
<1>1. v \in Vo /\ v.writer = v.conn /\ (v.conn # None => v.done[v.conn] = 0) /\ \A s \in Socket : v.done[s] <= 1 BY DEF Sound
<1>2. CASE v.conn = None
  <2>1. w = n BY <1>1, <1>2 DEF StopWriter
  <2> QED BY <1>1, <1>2, <2>1
<1>3. CASE v.conn # None
  <2>1. v.conn \in Socket BY <1>1, <1>3 DEF Vo
  <2>2. w = [n EXCEPT !.writer = None, !.done[n.writer] = @ + 1] BY <1>1, <1>3 DEF StopWriter
  <2>3. n.done \in [Socket -> Nat] /\ n.writer = v.conn /\ n.done[v.conn] = 0 /\ \A s \in Socket : n.done[s] <= 1
    BY <1>1, <1>3 DEF Vo
  <2>4. w.done = [n.done EXCEPT ![n.writer] = @ + 1] BY <2>1, <2>2, <2>3 DEF Vo
  <2>5. w.done \in [Socket -> Nat] /\ \A s \in Socket : w.done[s] <= 1 BY <2>1, <2>3, <2>4
  <2>6. [n.done EXCEPT ![n.writer] = @ + 1] \in [Socket -> Nat] BY <2>4, <2>5
  <2>7. w \in Vo BY <2>2, <2>6 DEF Vo
  <2>8. /\ w.writer = None /\ w.dial = n.dial /\ w.connecting = n.connecting /\ w.conn = n.conn
        /\ w.sup = n.sup /\ w.supRun = n.supRun /\ w.udpLoop = n.udpLoop /\ w.udpRun = n.udpRun /\ w.state = n.state
    BY <2>2 DEF Vo
  <2> QED BY <2>5, <2>7, <2>8
<1> QED BY <1>2, <1>3

\* What closing the relay does, and detaching the connection: the generation is
\* raised, and the writer of the connection told to end.
LEMMA CloseRelayFollows ==
  ASSUME NEW v, Sound(v)
  PROVE  Follows(v, CloseRelay(v)) /\ CloseRelay(v).state = v.state /\ CloseRelay(v).conn = None
<1> DEFINE g == NextGeneration(v)
           n == [g EXCEPT !.conn = None, !.waiting = FALSE]
           w == StopWriter(n, v.conn)
           x == [w EXCEPT !.open = @ \ {v.conn}]
<1>0. x = CloseRelay(v) BY DEF CloseRelay
<1>1. v \in Vo /\ v.dial \in Loop BY DEF Sound, Vo
<1>2. Outdated(v.dial) \in Loop /\ Outdated(v.dial).current = 0 BY <1>1, LoopFacts
<1>3. /\ n \in Vo /\ n.dial.current = 0 /\ n.connecting = FALSE /\ n.conn = None
      /\ n.sup = v.sup /\ n.supRun = v.supRun /\ n.udpLoop = v.udpLoop /\ n.udpRun = v.udpRun
      /\ n.writer = v.writer /\ n.done = v.done /\ n.state = v.state
  BY <1>1, <1>2 DEF Vo, NextGeneration
<1> HIDE DEF n
<1>4. /\ w \in Vo /\ w.dial.current = 0 /\ w.connecting = FALSE /\ w.conn = None /\ w.writer = None
      /\ w.sup = v.sup /\ w.supRun = v.supRun /\ w.udpLoop = v.udpLoop /\ w.udpRun = v.udpRun /\ w.state = v.state
      /\ \A s \in Socket : w.done[s] <= 1
  BY <1>3, WriterStops
<1> HIDE DEF w
<1>5. /\ x \in Vo /\ x.dial.current = 0 /\ x.connecting = FALSE /\ x.conn = None /\ x.writer = None
      /\ x.sup = v.sup /\ x.supRun = v.supRun /\ x.udpLoop = v.udpLoop /\ x.udpRun = v.udpRun /\ x.state = v.state
      /\ x.done = w.done
  BY <1>4 DEF Vo
<1> HIDE DEF x
<1>6. Follows(v, x) BY <1>4, <1>5 DEF Follows, Sound, Flag
<1> QED BY <1>0, <1>5, <1>6

\* schedulePartyRelayRetryUnsafe only delays the next dial.
LEMMA ScheduleRetryFollows ==
  ASSUME NEW v, Sound(v)
  PROVE  Follows(v, ScheduleRetry(v)) /\ ScheduleRetry(v).state = v.state /\ ScheduleRetry(v).conn = v.conn
<1> DEFINE w == [v EXCEPT !.waiting = TRUE]
<1>1. ScheduleRetry(v) = v \/ ScheduleRetry(v) = w BY DEF ScheduleRetry
<1>2. v \in Vo BY DEF Sound
<1>3. w \in Vo /\ SameCore(v, w) /\ w.state = v.state /\ w.conn = v.conn BY <1>2 DEF Vo, SameCore
<1> HIDE DEF w
<1>4. Follows(v, w) BY <1>3, PlainFollows
<1>5. Follows(v, v) BY DEF Follows
<1> QED BY <1>1, <1>3, <1>4, <1>5

\* detachPartyRelayConn lets go of the connection of its caller, and of no other.
LEMMA DetachConnFollows ==
  ASSUME NEW v, Sound(v), NEW s \in Socket, None \notin Socket
  PROVE  Follows(v, DetachConn(v, s)) /\ DetachConn(v, s).state = v.state /\ DetachConn(v, s).conn # s
<1>1. CASE v.conn # s BY <1>1 DEF DetachConn, Follows
<1>2. CASE v.conn = s
  <2> DEFINE n == [NextGeneration(v) EXCEPT !.conn = None]
             w == StopWriter(n, s)
  <2>0. DetachConn(v, s) = ScheduleRetry(w) BY <1>2 DEF DetachConn
  <2>1. v \in Vo /\ v.dial \in Loop BY DEF Sound, Vo
  <2>2. Outdated(v.dial) \in Loop /\ Outdated(v.dial).current = 0 BY <2>1, LoopFacts
  <2>3. /\ n \in Vo /\ n.dial.current = 0 /\ n.connecting = FALSE /\ n.conn = None
        /\ n.sup = v.sup /\ n.supRun = v.supRun /\ n.udpLoop = v.udpLoop /\ n.udpRun = v.udpRun
        /\ n.writer = v.writer /\ n.done = v.done /\ n.state = v.state
    BY <2>1, <2>2 DEF Vo, NextGeneration
  <2> HIDE DEF n
  <2>4. /\ w \in Vo /\ w.dial.current = 0 /\ w.connecting = FALSE /\ w.conn = None /\ w.writer = None
        /\ w.sup = v.sup /\ w.supRun = v.supRun /\ w.udpLoop = v.udpLoop /\ w.udpRun = v.udpRun /\ w.state = v.state
        /\ \A t \in Socket : w.done[t] <= 1
    BY <1>2, <2>3, WriterStops
  <2> HIDE DEF w
  <2>5. Follows(v, w) /\ Sound(w) BY <2>4 DEF Follows, Sound, Flag
  <2>6. Follows(w, ScheduleRetry(w)) /\ ScheduleRetry(w).state = w.state /\ ScheduleRetry(w).conn = None
    BY <2>4, <2>5, ScheduleRetryFollows
  <2>7. Follows(v, ScheduleRetry(w)) BY <2>5, <2>6, FollowsTwice
  <2> QED BY <2>0, <2>4, <2>6, <2>7
<1> QED BY <1>1, <1>2

\* A frame put into the queue of a writer.
LEMMA EnqueueFollows ==
  ASSUME NEW v, Sound(v), NEW s \in Socket
  PROVE  Follows(v, Enqueue(v, s))
<1> DEFINE w == Enqueue(v, s)
<1>1. v \in Vo BY DEF Sound
<1>2. w \in Vo /\ SameCore(v, w) BY <1>1 DEF Vo, SameCore, Enqueue
<1> HIDE DEF w
<1>3. Follows(v, w) BY <1>2, PlainFollows
<1> QED BY <1>3 DEF w

\* Closing a socket, attached or not, changes nothing that Sound is about.
LEMMA CloseFollows ==
  ASSUME NEW v, Sound(v), NEW s
  PROVE  Follows(v, [v EXCEPT !.open = @ \ {s}])
<1> DEFINE w == [v EXCEPT !.open = @ \ {s}]
<1>1. v \in Vo BY DEF Sound
<1>2. w \in Vo /\ SameCore(v, w) BY <1>1 DEF Vo, SameCore
<1> HIDE DEF w
<1>3. Follows(v, w) BY <1>2, PlainFollows
<1> QED BY <1>3 DEF w

\* A send by the relay: queued, or the connection detached and closed when the queue is full.
LEMMA SendByRelayFollows ==
  ASSUME NEW v, Sound(v), None \notin Socket
  PROVE  Follows(v, SendByRelay(v))
<1>1. CASE v.conn = None BY <1>1 DEF SendByRelay, Follows
<1>2. CASE v.conn # None /\ CanEnqueue(v, v.conn)
  <2>1. v.conn \in Socket BY <1>2 DEF Sound, Vo
  <2> QED BY <1>2, <2>1, EnqueueFollows DEF SendByRelay
<1>3. CASE v.conn # None /\ ~CanEnqueue(v, v.conn)
  <2>1. v.conn \in Socket BY <1>3 DEF Sound, Vo
  <2> DEFINE w == DetachConn(v, v.conn)
             x == [w EXCEPT !.open = @ \ {v.conn}]
  <2>2. SendByRelay(v) = x BY <1>3 DEF SendByRelay
  <2>3. Follows(v, w) BY <2>1, DetachConnFollows
  <2>4. Follows(w, x)
    <3> HIDE DEF w
    <3> QED BY <2>3, CloseFollows DEF Follows
  <2> HIDE DEF w, x
  <2> QED BY <2>2, <2>3, <2>4, FollowsTwice
<1> QED BY <1>1, <1>2, <1>3

\* The session's own fields: the party, its state and the game connection.
LEMMA PartyFollows ==
  ASSUME NEW v, Sound(v), NEW p \in {"none", "pending", "peers"}
  PROVE  Follows(v, [v EXCEPT !.party = p]) /\ [v EXCEPT !.party = p].state = v.state
<1> DEFINE w == [v EXCEPT !.party = p]
<1>1. v \in Vo BY DEF Sound
<1>2. w \in Vo /\ SameCore(v, w) /\ w.state = v.state BY <1>1 DEF Vo, SameCore
<1> HIDE DEF w
<1>3. Follows(v, w) /\ w.state = v.state BY <1>2, PlainFollows
<1> QED BY <1>3 DEF w

\* A session that is stopped stays so; any other may change its state and lose its link.
LEMMA StateFollows ==
  ASSUME NEW v, Sound(v), NEW st \in {"away", "run", "stop"}, v.state = "stop" => st = "stop", NEW l \in BOOLEAN
  PROVE  /\ Follows(v, [v EXCEPT !.state = st])
         /\ Follows(v, [v EXCEPT !.state = st, !.link = l]) /\ Follows(v, [v EXCEPT !.link = l, !.state = st])
<1> DEFINE w == [v EXCEPT !.state = st]
           x == [v EXCEPT !.state = st, !.link = l]
           y == [v EXCEPT !.link = l, !.state = st]
<1>1. v \in Vo BY DEF Sound
<1>2. w \in Vo /\ SameCore(v, w) BY <1>1 DEF Vo, SameCore
<1>3. x \in Vo /\ SameCore(v, x) BY <1>1 DEF Vo, SameCore
<1>4. y \in Vo /\ SameCore(v, y) BY <1>1 DEF Vo, SameCore
<1> HIDE DEF w, x, y
<1>5. Follows(v, w) /\ Follows(v, x) /\ Follows(v, y) BY <1>2, <1>3, <1>4, PlainFollows
<1> QED BY <1>5 DEF w, x, y

\* An invitation accepted starts the loop and the supervisor once.
LEMMA SetPendingFollows ==
  ASSUME NEW v, Sound(v)
  PROVE  Follows(v, SetPending(v))
<1> DEFINE p == IF v.party = "none" THEN "pending" ELSE v.party
           w == [v EXCEPT !.party = p]
           x == EnsureUDPLoop(w)
           y == EnsureSupervisor(x)
<1>0. SetPending(v) = y BY DEF SetPending
<1>1. p \in {"none", "pending", "peers"} BY DEF Sound, Vo
<1> HIDE DEF p
<1>2. Follows(v, w) BY <1>1, PartyFollows
<1> HIDE DEF w
<1>3. Follows(w, x) BY <1>2, EnsureUDPLoopFollows DEF Follows
<1> HIDE DEF x
<1>4. Follows(x, y) BY <1>3, EnsureSupervisorFollows DEF Follows
<1> HIDE DEF y
<1> QED BY <1>0, <1>2, <1>3, <1>4, FollowsTwice

\* The party's addresses, known or gone.
LEMMA SetPeersFollows ==
  ASSUME NEW v, Sound(v), NEW known \in BOOLEAN
  PROVE  Follows(v, SetPeers(v, known))
<1> DEFINE p == IF known THEN "peers" ELSE "none"
           w == [v EXCEPT !.party = p]
           x == EnsureUDPLoop(w)
           y == EnsureSupervisor(x)
           z == StopSupervisor(y)
<1>0. SetPeers(v, known) = y \/ SetPeers(v, known) = z BY DEF SetPeers
<1>1. p \in {"none", "pending", "peers"} OBVIOUS
<1> HIDE DEF p
<1>2. Follows(v, w) BY <1>1, PartyFollows
<1> HIDE DEF w
<1>3. Follows(w, x) BY <1>2, EnsureUDPLoopFollows DEF Follows
<1> HIDE DEF x
<1>4. Follows(x, y) BY <1>3, EnsureSupervisorFollows DEF Follows
<1> HIDE DEF y
<1>5. Follows(y, z) BY <1>4, StopSupervisorFollows DEF Follows
<1> HIDE DEF z
<1>6. Follows(v, y) BY <1>2, <1>3, <1>4, FollowsTwice
<1> QED BY <1>0, <1>5, <1>6, FollowsTwice

\* The expiry of an invitation.
LEMMA ClearPendingFollows ==
  ASSUME NEW v, Sound(v)
  PROVE  Follows(v, ClearPending(v)) /\ ClearPending(v).state = v.state
<1> DEFINE p == IF v.party = "pending" THEN "none" ELSE v.party
<1>0. ClearPending(v) = [v EXCEPT !.party = p] BY DEF ClearPending
<1>1. p \in {"none", "pending", "peers"} BY DEF Sound, Vo
<1> HIDE DEF p
<1> QED BY <1>0, <1>1, PartyFollows

\* clearPartyUnsafe: supervisor, party and relay, in this order.
LEMMA ClearPartyFollows ==
  ASSUME NEW v, Sound(v)
  PROVE  Follows(v, ClearParty(v))
<1> DEFINE w == StopSupervisor(v)
           x == [w EXCEPT !.party = "none"]
           y == CloseRelay(x)
<1>0. ClearParty(v) = y BY DEF ClearParty
<1>1. Follows(v, w) BY StopSupervisorFollows
<1> HIDE DEF w
<1>2. Follows(w, x) BY <1>1, PartyFollows DEF Follows
<1> HIDE DEF x
<1>3. Follows(x, y) BY <1>2, CloseRelayFollows DEF Follows
<1> HIDE DEF y
<1> QED BY <1>0, <1>1, <1>2, <1>3, FollowsTwice

\* The end of all connections of the party.
LEMMA CloseAllFollows ==
  ASSUME NEW v, Sound(v)
  PROVE  Follows(v, CloseAll(v)) /\ CloseAll(v).state = v.state
<1> DEFINE w == StopSupervisor(v)
           x == CloseUDP(w)
           y == CloseRelay(x)
<1>0. CloseAll(v) = y BY DEF CloseAll
<1>1. Follows(v, w) /\ w.state = v.state BY StopSupervisorFollows
<1> HIDE DEF w
<1>2. Follows(w, x) /\ x.state = w.state BY <1>1, CloseUDPFollows DEF Follows
<1> HIDE DEF x
<1>3. Follows(x, y) /\ y.state = x.state BY <1>2, CloseRelayFollows DEF Follows
<1> HIDE DEF y
<1> QED BY <1>0, <1>1, <1>2, <1>3, FollowsTwice

\* The end of the session, whoever ends it.
LEMMA EndSessionFollows ==
  ASSUME NEW v, Sound(v)
  PROVE  Follows(v, EndSession(v))
<1> DEFINE w == CloseAll(v)
           x == [w EXCEPT !.link = FALSE, !.state = "stop"]
<1>0. EndSession(v) = x BY DEF EndSession
<1>1. Follows(v, w) BY CloseAllFollows
<1> HIDE DEF w
<1>2. Follows(w, x) BY <1>1, StateFollows DEF Follows
<1> HIDE DEF x
<1> QED BY <1>0, <1>1, <1>2, FollowsTwice

\* A round of the supervisor.
LEMMA MaintainedFollows ==
  ASSUME NEW v, Sound(v), NEW m \in Maintained(v)
  PROVE  Follows(v, m)
<1>h. PICK h \in Healths(v) : \E w \in Identities(h) : m \in Rosters(EnsureRelay(w)) BY DEF Maintained
<1>1. PICK w \in Identities(h) : m \in Rosters(EnsureRelay(w)) BY <1>h
<1>2. Follows(v, h) BY EnsureUDPHealthFollows DEF Healths
<1>3. Follows(h, w)
  <2>1. Sound(h) BY <1>2 DEF Follows
  <2>2. Follows(h, h) BY <2>1 DEF Follows
  <2>3. \/ w = h \/ (\E sends \in BOOLEAN : w = SendNATInfo(h, TRUE, TRUE, sends))
        \/ (\E listens \in Listens, sends \in BOOLEAN : w = RebuildUDP(h, listens, sends))
    <3>1. w = h \/ w \in Announced(h) \/ w \in Rebuilt(h) BY DEF Identities
    <3>2. w \in Announced(h) => \E sends \in BOOLEAN : w = SendNATInfo(h, TRUE, TRUE, sends) BY DEF Announced
    <3>3. w \in Rebuilt(h) => \E listens \in Listens, sends \in BOOLEAN : w = RebuildUDP(h, listens, sends)
      BY DEF Rebuilt
    <3> QED BY <3>1, <3>2, <3>3
  <2>4. \A sends \in BOOLEAN : Follows(h, SendNATInfo(h, TRUE, TRUE, sends)) BY <2>1, SendNATInfoFollows
  <2>5. \A listens \in Listens, sends \in BOOLEAN : Follows(h, RebuildUDP(h, listens, sends)) BY <2>1, RebuildUDPFollows
  <2> QED BY <2>2, <2>3, <2>4, <2>5
<1>4. Follows(w, EnsureRelay(w)) BY <1>3, EnsureRelayFollows DEF Follows
<1>5. Follows(EnsureRelay(w), m)
  <2> DEFINE x == EnsureRelay(w)
  <2>1. Sound(x) BY <1>4 DEF Follows
  <2>2. m \in Rosters(x) BY <1>1
  <2> HIDE DEF x
  <2>3. Follows(x, x) BY <2>1 DEF Follows
  <2>4. Follows(x, m) BY <2>1, <2>2, <2>3, SetPeersFollows DEF Rosters
  <2> QED BY <2>4 DEF x
<1> QED BY <1>2, <1>3, <1>4, <1>5, FollowsTwice

-----------------------------------------------------------------------------
(* The goroutines *)

\* The goroutines of the attached connection are at work.
Served ==
  r.conn # None /\ r.state # "stop" =>
    reader[r.conn] \in {"read", "beat", "detach"} /\ wpc[r.conn] \in {"select", "write"}

\* The inductive invariant.
LinksInv ==
  /\ Sound(r)
  /\ reader \in [Socket -> {"none", "read", "beat", "detach", "close"}]
  /\ wpc \in [Socket -> {"none", "select", "write", "close"}]
  /\ Served

\* A step of a holder of r.mu that moves neither reader nor writer.
LEMMA StepKeeps ==
  ASSUME LinksInv, NEW v, Follows(r, v), Step(v)
  PROVE  LinksInv'
BY DEF LinksInv, Step, Follows, Served

\* A reader or writer that goes on, if it does not leave the attached connection.
LEMMA ReaderKeeps ==
  ASSUME LinksInv, NEW s \in Socket, NEW v, NEW from, NEW to \in {"none", "read", "beat", "detach", "close"},
         Follows(r, v), ReaderGoes(s, from, to, v),
         v.conn = s /\ v.state # "stop" => to \in {"read", "beat", "detach"}
  PROVE  LinksInv'
<1>1. r' = v /\ wpc' = wpc /\ reader' = [reader EXCEPT ![s] = to] BY DEF ReaderGoes
<1>2. \A t \in Socket : reader'[t] = IF t = s THEN to ELSE reader[t] BY <1>1 DEF LinksInv
<1>3. v.conn \in Socket \cup {None} BY DEF Follows, Sound, Vo
<1>4. Served' BY <1>1, <1>2, <1>3 DEF Served, Follows, LinksInv
<1> QED BY <1>1, <1>4 DEF LinksInv, Follows

\* The same for a writer.
LEMMA WriterKeeps ==
  ASSUME LinksInv, NEW s \in Socket, NEW v, NEW from, NEW to \in {"none", "select", "write", "close"},
         Follows(r, v), WriterGoes(s, from, to, v),
         v.conn = s /\ v.state # "stop" => to \in {"select", "write"}
  PROVE  LinksInv'
<1>1. r' = v /\ reader' = reader /\ wpc' = [wpc EXCEPT ![s] = to] BY DEF WriterGoes
<1>2. \A t \in Socket : wpc'[t] = IF t = s THEN to ELSE wpc[t] BY <1>1 DEF LinksInv
<1>3. v.conn \in Socket \cup {None} BY DEF Follows, Sound, Vo
<1>4. Served' BY <1>1, <1>2, <1>3 DEF Served, Follows, LinksInv
<1> QED BY <1>1, <1>4 DEF LinksInv, Follows

\* The session: its packets, its checks of the user's state and its end.
LEMMA SessionKeeps ==
  ASSUME LinksInv, None \notin Socket, Session
  PROVE  LinksInv'
<1>0. Sound(r) /\ r \in Vo BY DEF LinksInv, Sound
<1>r. Follows(r, r) BY <1>0 DEF Follows
<1>1. CASE LoginDone
  <2>1. PICK listens \in Listens, sends \in BOOLEAN : Step(SendNATInfo([r EXCEPT !.state = "run"], FALSE, listens, sends))
    BY <1>1 DEF LoginDone
  <2> DEFINE v == [r EXCEPT !.state = "run"]
             w == SendNATInfo(v, FALSE, listens, sends)
  <2>2. r.state # "stop" BY <1>1 DEF LoginDone
  <2>3. Follows(r, v) BY <1>0, <2>2, StateFollows
  <2> HIDE DEF v
  <2>4. Follows(v, w) BY <2>3, SendNATInfoFollows DEF Follows
  <2>5. Step(w) BY <2>1 DEF v
  <2> HIDE DEF w
  <2> QED BY <2>3, <2>4, <2>5, FollowsTwice, StepKeeps
<1>2. CASE ReturnToSelect
  <2> DEFINE v == [r EXCEPT !.state = "away"]
             w == CloseAll(v)
  <2>1. r.state # "stop" BY <1>2 DEF ReturnToSelect, Receiving
  <2>2. Follows(r, v) BY <1>0, <2>1, StateFollows
  <2>3. Step(ClearParty(v)) \/ Step(ClearPending(w)) BY <1>2 DEF ReturnToSelect
  <2> HIDE DEF v
  <2>4. Follows(v, ClearParty(v)) /\ Follows(v, w) BY <2>2, ClearPartyFollows, CloseAllFollows DEF Follows
  <2> HIDE DEF w
  <2>5. Follows(w, ClearPending(w)) BY <2>4, ClearPendingFollows DEF Follows
  <2>6. Follows(r, ClearParty(v)) /\ Follows(r, ClearPending(w)) BY <2>2, <2>4, <2>5, FollowsTwice
  <2> QED BY <2>3, <2>6, StepKeeps
<1>3. CASE Invite
  <2> DEFINE v == SetPending(r)
  <2>1. Follows(r, v) BY <1>0, SetPendingFollows
  <2>2. Step(EnsureRelay(v)) BY <1>3 DEF Invite
  <2> HIDE DEF v
  <2>3. Follows(v, EnsureRelay(v)) BY <2>1, EnsureRelayFollows DEF Follows
  <2> QED BY <2>1, <2>2, <2>3, FollowsTwice, StepKeeps
<1>4. CASE Snapshot
  <2>1. PICK known \in BOOLEAN : Step(EnsureRelay(SetPeers(r, known))) BY <1>4 DEF Snapshot
  <2> DEFINE v == SetPeers(r, known)
  <2>2. Follows(r, v) BY <1>0, SetPeersFollows
  <2>3. Step(EnsureRelay(v)) BY <2>1
  <2> HIDE DEF v
  <2>4. Follows(v, EnsureRelay(v)) BY <2>2, EnsureRelayFollows DEF Follows
  <2> QED BY <2>2, <2>3, <2>4, FollowsTwice, StepKeeps
<1>5. CASE Realtime BY <1>0, <1>5, SetPeersFollows, StepKeeps DEF Realtime
<1>6. CASE PendingExpires BY <1>0, <1>6, ClearPendingFollows, StepKeeps DEF PendingExpires
<1>7. CASE Send BY <1>0, <1>7, SendByRelayFollows, StepKeeps DEF Send
<1>8. CASE CheckUserState
  <2>1. CASE Step(EndSession(r)) BY <1>0, <2>1, EndSessionFollows, StepKeeps
  <2>2. CASE Step(EnsureRelay(EnsureUDPLoop(EnsureSupervisor(r))))
    <3> DEFINE v == EnsureSupervisor(r)
               w == EnsureUDPLoop(v)
    <3>1. Follows(r, v) BY <1>0, EnsureSupervisorFollows
    <3>2. Step(EnsureRelay(w)) BY <2>2
    <3> HIDE DEF v
    <3>3. Follows(v, w) BY <3>1, EnsureUDPLoopFollows DEF Follows
    <3> HIDE DEF w
    <3>4. Follows(w, EnsureRelay(w)) BY <3>3, EnsureRelayFollows DEF Follows
    <3> QED BY <3>1, <3>2, <3>3, <3>4, FollowsTwice, StepKeeps
  <2>3. CASE LET v == StopSupervisor(r) IN Step(IF v.conn = None THEN v ELSE CloseRelay(v))
    <3> DEFINE v == StopSupervisor(r)
    <3>1. Follows(r, v) BY <1>0, StopSupervisorFollows
    <3>2. Step(v) \/ Step(CloseRelay(v)) BY <2>3
    <3> HIDE DEF v
    <3>3. Follows(v, CloseRelay(v)) BY <3>1, CloseRelayFollows DEF Follows
    <3>4. Follows(r, CloseRelay(v)) BY <3>1, <3>3, FollowsTwice
    <3> QED BY <3>1, <3>2, <3>4, StepKeeps
  <2> QED BY <1>8, <2>1, <2>2, <2>3 DEF CheckUserState
<1>9. CASE CloseOut
  <2> DEFINE v == EndSession(r)
  <2>1. Follows(r, v) BY <1>0, EndSessionFollows
  <2>2. Step(ClearPending(v)) \/ Step(v) BY <1>9 DEF CloseOut
  <2> HIDE DEF v
  <2>3. Follows(v, ClearPending(v)) BY <2>1, ClearPendingFollows DEF Follows
  <2>4. Follows(r, ClearPending(v)) BY <2>1, <2>3, FollowsTwice
  <2> QED BY <2>1, <2>2, <2>4, StepKeeps
<1>10. CASE BadFrame
  <2> DEFINE v == [r EXCEPT !.state = "stop", !.link = FALSE]
  <2>1. Follows(r, v) /\ Step(v) BY <1>0, <1>10, StateFollows DEF BadFrame
  <2> HIDE DEF v
  <2> QED BY <2>1, StepKeeps
<1>11. CASE RetryElapses
  <2> DEFINE v == [r EXCEPT !.waiting = FALSE]
  <2>1. v \in Vo /\ SameCore(r, v) BY <1>0 DEF Vo, SameCore
  <2>2. Step(v) BY <1>11 DEF RetryElapses
  <2> HIDE DEF v
  <2> QED BY <1>0, <2>1, <2>2, PlainFollows, StepKeeps
<1> QED BY <1>1, <1>2, <1>3, <1>4, <1>5, <1>6, <1>7, <1>8, <1>9, <1>10, <1>11 DEF Session

\* The end of a goroutine that is current, and of one that is stale.
LEMMA SupervisorEndFollows ==
  ASSUME Sound(r), r.sup.current > 0
  PROVE  Follows(r, [r EXCEPT !.sup = Ended(@), !.supRun = FALSE])
<1> DEFINE w == [r EXCEPT !.sup = Ended(@), !.supRun = FALSE]
<1>1. r \in Vo /\ r.sup \in Loop /\ r.sup.current = 1 BY DEF Sound, Vo, Flag
<1>2. Ended(r.sup) \in Loop /\ Ended(r.sup).current = 0 BY <1>1 DEF Ended, Loop
<1>3. w \in Vo BY <1>1, <1>2 DEF Vo
<1>4. /\ w.sup.current = 0 /\ w.supRun = FALSE /\ w.udpLoop = r.udpLoop /\ w.udpRun = r.udpRun /\ w.dial = r.dial
      /\ w.connecting = r.connecting /\ w.conn = r.conn /\ w.writer = r.writer /\ w.done = r.done /\ w.state = r.state
  BY <1>1, <1>2 DEF Vo
<1> HIDE DEF w
<1>5. Follows(r, w) BY <1>3, <1>4 DEF Sound, Follows, Flag
<1> QED BY <1>5 DEF w

\* The UDP loop that ends itself lowers its own flag.
LEMMA UDPLoopEndFollows ==
  ASSUME Sound(r), r.udpLoop.current > 0
  PROVE  Follows(r, UDPLoopEnds)
<1> DEFINE w == UDPLoopEnds
<1>1. r \in Vo /\ r.udpLoop \in Loop /\ r.udpLoop.current = 1 BY DEF Sound, Vo, Flag
<1>2. Ended(r.udpLoop) \in Loop /\ Ended(r.udpLoop).current = 0 BY <1>1 DEF Ended, Loop
<1>3. w \in Vo BY <1>1, <1>2 DEF Vo, UDPLoopEnds
<1>4. /\ w.sup = r.sup /\ w.supRun = r.supRun /\ w.udpLoop.current = 0 /\ w.udpRun = FALSE /\ w.dial = r.dial
      /\ w.connecting = r.connecting /\ w.conn = r.conn /\ w.writer = r.writer /\ w.done = r.done /\ w.state = r.state
  BY <1>1, <1>2 DEF Vo, UDPLoopEnds
<1> HIDE DEF w
<1>5. Follows(r, w) BY <1>3, <1>4 DEF Sound, Follows, Flag
<1> QED BY <1>5 DEF w

\* A dial that may attach is the only one, and nothing is attached meanwhile.
LEMMA DialEndFollows ==
  ASSUME Sound(r), r.dial.current > 0
  PROVE  /\ Follows(r, FinishedDial) /\ FinishedDial.connecting = FALSE /\ FinishedDial.dial.current = 0
         /\ FinishedDial.conn = None /\ r.conn = None
<1> DEFINE w == FinishedDial
<1>1. r \in Vo /\ r.dial \in Loop /\ r.dial.current = 1 /\ r.connecting BY DEF Sound, Vo, Flag
<1>2. Ended(r.dial) \in Loop /\ Ended(r.dial).current = 0 BY <1>1 DEF Ended, Loop
<1>3. w \in Vo BY <1>1, <1>2 DEF Vo, FinishedDial
<1>4. /\ w.sup = r.sup /\ w.supRun = r.supRun /\ w.udpLoop = r.udpLoop /\ w.udpRun = r.udpRun /\ w.dial.current = 0
      /\ w.connecting = FALSE /\ w.conn = r.conn /\ w.writer = r.writer /\ w.done = r.done /\ w.state = r.state
  BY <1>1, <1>2 DEF Vo, FinishedDial
<1>c. r.conn = None BY <1>1 DEF Sound
<1> HIDE DEF w
<1>5. Follows(r, w) BY <1>3, <1>4 DEF Sound, Follows, Flag
<1> QED BY <1>4, <1>5, <1>c DEF w

\* A goroutine whose generation is over changes no flag.
LEMMA StaleEndFollows ==
  ASSUME Sound(r)
  PROVE  /\ r.sup.stale > 0 => Follows(r, [r EXCEPT !.sup = StaleEnded(@)])
         /\ r.udpLoop.stale > 0 => Follows(r, [r EXCEPT !.udpLoop = StaleEnded(@)])
         /\ r.dial.stale > 0 => Follows(r, [r EXCEPT !.dial = StaleEnded(@)])
<1>0. r \in Vo /\ r.sup \in Loop /\ r.udpLoop \in Loop /\ r.dial \in Loop BY DEF Sound, Vo
<1>1. ASSUME r.sup.stale > 0 PROVE Follows(r, [r EXCEPT !.sup = StaleEnded(@)])
  <2> DEFINE w == [r EXCEPT !.sup = StaleEnded(@)]
  <2>1. StaleEnded(r.sup) \in Loop /\ StaleEnded(r.sup).current = r.sup.current BY <1>0, <1>1, LoopFacts
  <2>2. w \in Vo BY <1>0, <2>1 DEF Vo
  <2>3. /\ w.sup.current = r.sup.current /\ w.supRun = r.supRun /\ w.udpLoop = r.udpLoop /\ w.udpRun = r.udpRun /\ w.dial = r.dial
        /\ w.connecting = r.connecting /\ w.conn = r.conn /\ w.writer = r.writer /\ w.done = r.done /\ w.state = r.state
    BY <1>0, <2>1 DEF Vo
  <2> HIDE DEF w
  <2>4. Follows(r, w) BY <2>2, <2>3 DEF Sound, Follows
  <2> QED BY <2>4 DEF w
<1>2. ASSUME r.udpLoop.stale > 0 PROVE Follows(r, [r EXCEPT !.udpLoop = StaleEnded(@)])
  <2> DEFINE w == [r EXCEPT !.udpLoop = StaleEnded(@)]
  <2>1. StaleEnded(r.udpLoop) \in Loop /\ StaleEnded(r.udpLoop).current = r.udpLoop.current BY <1>0, <1>2, LoopFacts
  <2>2. w \in Vo BY <1>0, <2>1 DEF Vo
  <2>3. /\ w.sup = r.sup /\ w.supRun = r.supRun /\ w.udpLoop.current = r.udpLoop.current /\ w.udpRun = r.udpRun /\ w.dial = r.dial
        /\ w.connecting = r.connecting /\ w.conn = r.conn /\ w.writer = r.writer /\ w.done = r.done /\ w.state = r.state
    BY <1>0, <2>1 DEF Vo
  <2> HIDE DEF w
  <2>4. Follows(r, w) BY <2>2, <2>3 DEF Sound, Follows
  <2> QED BY <2>4 DEF w
<1>3. ASSUME r.dial.stale > 0 PROVE Follows(r, [r EXCEPT !.dial = StaleEnded(@)])
  <2> DEFINE w == [r EXCEPT !.dial = StaleEnded(@)]
  <2>1. StaleEnded(r.dial) \in Loop /\ StaleEnded(r.dial).current = r.dial.current BY <1>0, <1>3, LoopFacts
  <2>2. w \in Vo BY <1>0, <2>1 DEF Vo
  <2>3. /\ w.sup = r.sup /\ w.supRun = r.supRun /\ w.udpLoop = r.udpLoop /\ w.udpRun = r.udpRun /\ w.dial.current = r.dial.current
        /\ w.connecting = r.connecting /\ w.conn = r.conn /\ w.writer = r.writer /\ w.done = r.done /\ w.state = r.state
    BY <1>0, <2>1 DEF Vo
  <2> HIDE DEF w
  <2>4. Follows(r, w) BY <2>2, <2>3 DEF Sound, Follows
  <2> QED BY <2>4 DEF w
<1> QED BY <1>1, <1>2, <1>3

\* A connection is attached only where none is, with a socket nobody has.
LEMMA AttachKeeps ==
  ASSUME LinksInv, None \notin Socket, DialAttaches
  PROVE  LinksInv'
<1>0. Sound(r) /\ r \in Vo /\ r.done \in [Socket -> Nat] BY DEF LinksInv, Sound, Vo
<1>1. PICK s \in Socket :
        /\ r' = [FinishedDial EXCEPT
                   !.conn = s, !.waiting = FALSE, !.open = @ \cup {s}, !.writer = s,
                   !.done = [t \in Socket |-> IF t = s THEN 0 ELSE IF t = r.writer THEN r.done[t] + 1 ELSE r.done[t]]]
        /\ reader' = [reader EXCEPT ![s] = "read"]
        /\ wpc' = [wpc EXCEPT ![s] = "select"]
  BY DEF DialAttaches
<1>2. /\ Follows(r, FinishedDial) /\ FinishedDial.connecting = FALSE /\ FinishedDial.dial.current = 0
      /\ r.conn = None /\ r.writer = None
  BY <1>0, DialEndFollows DEF DialAttaches, Sound
<1> DEFINE d == [t \in Socket |-> IF t = s THEN 0 ELSE IF t = r.writer THEN r.done[t] + 1 ELSE r.done[t]]
           f == FinishedDial
           w == [f EXCEPT !.conn = s, !.waiting = FALSE, !.open = @ \cup {s}, !.writer = s, !.done = d]
<1>3. d \in [Socket -> Nat] /\ d[s] = 0 /\ \A t \in Socket : d[t] <= 1
  <2>1. \A t \in Socket : r.done[t] <= 1 /\ t # r.writer BY <1>0, <1>2 DEF Sound
  <2> QED BY <1>0, <2>1
<1>4. r' = w BY <1>1
<1> HIDE DEF d, f
<1>5. f \in Vo /\ Sound(f) /\ f.connecting = FALSE BY <1>2 DEF Follows, Sound, f
<1>6. w \in Vo BY <1>3, <1>5 DEF Vo
<1>7. /\ w.conn = s /\ w.writer = s /\ w.done = d /\ w.sup = f.sup /\ w.supRun = f.supRun /\ w.udpLoop = f.udpLoop
      /\ w.udpRun = f.udpRun /\ w.dial = f.dial /\ w.connecting = f.connecting
  BY <1>5 DEF Vo
<1> HIDE DEF w
<1>8. Sound(w) BY <1>3, <1>5, <1>6, <1>7 DEF Sound
<1>9. Served' BY <1>1, <1>4, <1>7 DEF Served, LinksInv
<1> QED BY <1>1, <1>4, <1>8, <1>9 DEF LinksInv

\* The supervisor, the UDP loop and the dial, current or stale.
LEMMA GoroutinesKeep ==
  ASSUME LinksInv, None \notin Socket, Goroutines
  PROVE  LinksInv'
<1>0. Sound(r) BY DEF LinksInv
<1>1. CASE SupervisorMaintains
  <2>1. PICK v \in Maintained(r) : Step(v) \/ Step(SendByRelay(v)) BY <1>1 DEF SupervisorMaintains
  <2>2. Follows(r, v) BY <1>0, MaintainedFollows
  <2>3. Follows(v, SendByRelay(v)) BY <2>2, SendByRelayFollows DEF Follows
  <2>4. Follows(r, SendByRelay(v)) BY <2>2, <2>3, FollowsTwice
  <2> QED BY <2>1, <2>2, <2>4, StepKeeps
<1>2. CASE SupervisorEnds BY <1>0, <1>2, SupervisorEndFollows, StepKeeps DEF SupervisorEnds
<1>3. CASE SupervisorPanics BY <1>0, <1>3, SupervisorEndFollows, StepKeeps DEF SupervisorPanics, Supervising
<1>4. CASE StaleSupervisorEnds BY <1>0, <1>4, StaleEndFollows, StepKeeps DEF StaleSupervisorEnds
<1>5. CASE UDPLoopStops BY <1>0, <1>5, UDPLoopEndFollows, StepKeeps DEF UDPLoopStops
<1>6. CASE UDPLoopFails BY <1>0, <1>6, UDPLoopEndFollows, StepKeeps DEF UDPLoopFails
<1>7. CASE StaleUDPLoopEnds BY <1>0, <1>7, StaleEndFollows, StepKeeps DEF StaleUDPLoopEnds
<1>8. CASE DialFails
  <2>1. Follows(r, FinishedDial) BY <1>0, <1>8, DialEndFollows DEF DialFails
  <2>2. Follows(FinishedDial, ScheduleRetry(FinishedDial)) BY <2>1, ScheduleRetryFollows DEF Follows
  <2>3. Follows(r, ScheduleRetry(FinishedDial)) BY <2>1, <2>2, FollowsTwice
  <2>4. Step(FinishedDial) \/ Step(ScheduleRetry(FinishedDial)) BY <1>8 DEF DialFails
  <2> QED BY <2>1, <2>3, <2>4, StepKeeps
<1>9. CASE DialRefused BY <1>0, <1>9, DialEndFollows, StepKeeps DEF DialRefused
<1>10. CASE StaleDialEnds BY <1>0, <1>10, StaleEndFollows, StepKeeps DEF StaleDialEnds
<1>11. CASE DialAttaches BY <1>11, AttachKeeps
<1> QED BY <1>1, <1>2, <1>3, <1>4, <1>5, <1>6, <1>7, <1>8, <1>9, <1>10, <1>11 DEF Goroutines

\* The reader of a connection, the attached one or not.
LEMMA ReadersKeep ==
  ASSUME LinksInv, None \notin Socket, NEW s \in Socket, Reader(s)
  PROVE  LinksInv'
<1>0. Sound(r) /\ Follows(r, r) BY DEF LinksInv, Follows
<1>d. Follows(r, DetachConn(r, s)) /\ DetachConn(r, s).conn # s BY <1>0, DetachConnFollows
<1>e. Follows(r, Enqueue(r, s)) BY <1>0, EnqueueFollows
<1>1. CASE ReadFails(s) BY <1>1, <1>d, ReaderKeeps DEF ReadFails
<1>2. CASE ReadTimesOut(s)
  <2>1. CASE (r.state = "stop" \/ r.conn # s) /\ ReaderGoes(s, "read", "close", r) BY <1>0, <2>1, ReaderKeeps
  <2>2. CASE ReaderGoes(s, "read", "beat", r) BY <1>0, <2>2, ReaderKeeps
  <2> QED BY <1>2, <2>1, <2>2 DEF ReadTimesOut
<1>3. CASE Heartbeat(s)
  <2>1. CASE ReaderGoes(s, "beat", "read", Enqueue(r, s)) BY <1>e, <2>1, ReaderKeeps
  <2>2. CASE ReaderGoes(s, "beat", "detach", r) BY <1>0, <2>2, ReaderKeeps
  <2> QED BY <1>3, <2>1, <2>2 DEF Heartbeat
<1>4. CASE Reply(s)
  <2>1. CASE ReaderGoes(s, "read", "read", Enqueue(r, s)) BY <1>e, <2>1, ReaderKeeps
  <2>2. CASE ReaderGoes(s, "read", "detach", r) BY <1>0, <2>2, ReaderKeeps
  <2> QED BY <1>4, <2>1, <2>2 DEF Reply
<1>5. CASE ReaderDetaches(s) BY <1>5, <1>d, ReaderKeeps DEF ReaderDetaches
<1>6. CASE ReaderCloses(s)
  <2>1. ReaderGoes(s, "close", "none", CloseSocket(s)) BY <1>6 DEF ReaderCloses
  <2>2. Follows(r, CloseSocket(s)) BY <1>0, CloseFollows DEF CloseSocket
  <2>3. CloseSocket(s).conn = r.conn /\ CloseSocket(s).state = r.state BY <1>0 DEF Sound, Vo, CloseSocket
  <2>4. reader[s] = "close" BY <2>1 DEF ReaderGoes
  <2>5. ~(r.conn = s /\ r.state # "stop") BY <2>4 DEF LinksInv, Served
  <2> QED BY <2>1, <2>2, <2>3, <2>5, ReaderKeeps
<1> QED BY <1>1, <1>2, <1>3, <1>4, <1>5, <1>6 DEF Reader

\* The writer of a connection, the attached one or not.
LEMMA WritersKeep ==
  ASSUME LinksInv, None \notin Socket, NEW s \in Socket, Writer(s)
  PROVE  LinksInv'
<1>0. Sound(r) /\ Follows(r, r) /\ r \in Vo BY DEF LinksInv, Follows, Sound
<1>d. Follows(r, DetachConn(r, s)) /\ DetachConn(r, s).conn # s BY <1>0, DetachConnFollows
<1>q. ASSUME NEW v, Sound(v), NEW n \in Nat
      PROVE  LET w == [v EXCEPT !.queue[s] = n] IN Follows(v, w) /\ w.conn = v.conn /\ w.state = v.state
  <2> DEFINE w == [v EXCEPT !.queue[s] = n]
  <2>1. v \in Vo BY <1>q DEF Sound
  <2>2. w \in Vo /\ SameCore(v, w) /\ w.conn = v.conn /\ w.state = v.state BY <2>1 DEF Vo, SameCore
  <2> HIDE DEF w
  <2>3. Follows(v, w) BY <1>q, <2>2, PlainFollows
  <2> QED BY <2>2, <2>3 DEF w
<1>1. CASE WriterDone(s)
  <2>1. WriterGoes(s, "select", "none", Drained(r, s)) /\ r.done[s] > 0 BY <1>1 DEF WriterDone
  <2>2. Follows(r, Drained(r, s)) /\ Drained(r, s).conn = r.conn BY <1>0, <1>q DEF Drained
  <2>3. r.conn # s BY <1>0, <2>1 DEF Sound
  <2> QED BY <2>1, <2>2, <2>3, WriterKeeps
<1>2. CASE WriterTakes(s)
  <2> DEFINE n == r.queue[s] - 1
  <2>1. n \in Nat BY <1>0, <1>2 DEF WriterTakes, Vo
  <2>2. WriterGoes(s, "select", "write", [r EXCEPT !.queue[s] = n]) BY <1>2 DEF WriterTakes
  <2> HIDE DEF n
  <2>3. Follows(r, [r EXCEPT !.queue[s] = n]) BY <1>0, <1>q, <2>1
  <2> QED BY <2>2, <2>3, WriterKeeps
<1>3. CASE Written(s) BY <1>0, <1>3, WriterKeeps DEF Written
<1>4. CASE WriteFails(s) BY <1>4, <1>d, WriterKeeps DEF WriteFails
<1>5. CASE WriterCloses(s)
  <2> DEFINE v == CloseSocket(s)
  <2>1. WriterGoes(s, "close", "none", Drained(v, s)) BY <1>5 DEF WriterCloses
  <2>2. Follows(r, v) BY <1>0, CloseFollows DEF CloseSocket
  <2>3. v.conn = r.conn /\ v.state = r.state BY <1>0 DEF Vo, CloseSocket
  <2> HIDE DEF v
  <2>4. Follows(v, Drained(v, s)) /\ Drained(v, s).conn = v.conn /\ Drained(v, s).state = v.state
    BY <1>q, <2>2 DEF Drained, Follows
  <2>5. Follows(r, Drained(v, s)) BY <2>2, <2>4, FollowsTwice
  <2>6. wpc[s] = "close" BY <2>1 DEF WriterGoes
  <2>7. ~(r.conn = s /\ r.state # "stop") BY <2>6 DEF LinksInv, Served
  <2> QED BY <2>1, <2>3, <2>4, <2>5, <2>7, WriterKeeps
<1> QED BY <1>1, <1>2, <1>3, <1>4, <1>5 DEF Writer

\* A session starts with no connection of a party.
LEMMA LinksInit ==
  ASSUME Init
  PROVE  LinksInv
<1>1. NoLoop \in Loop /\ NoLoop.current = 0 BY DEF NoLoop, Loop
<1>2. r \in Vo BY <1>1 DEF Init, Vo
<1>3. Sound(r) BY <1>1, <1>2 DEF Init, Sound, Flag
<1> QED BY <1>3 DEF Init, LinksInv, Served

-----------------------------------------------------------------------------
(* Results *)

\* The inductive invariant, for any relay sockets, queue sizes and surroundings,
\* panics of the supervisor and invalid frames of the game server among them.
THEOREM LinksInvariant ==
  ASSUME None \notin Socket
  PROVE  Spec => []LinksInv
<1>1. Init => LinksInv BY LinksInit
<1>2. LinksInv /\ [Next]_vars => LinksInv'
  <2>1. LinksInv /\ Next => LinksInv' BY SessionKeeps, GoroutinesKeep, ReadersKeep, WritersKeep DEF Next
  <2>2. LinksInv /\ UNCHANGED vars => LinksInv' BY DEF LinksInv, vars, Served
  <2> QED BY <2>1, <2>2
<1> QED BY <1>1, <1>2, PTL DEF Spec

\* One supervisor, one UDP loop, one dial that may attach, and a flag for each
\* that tells so: ensurePartySupervisorUnsafe, ensurePartyUDPLoopUnsafe and
\* ensurePartyRelayUnsafe neither start a second one nor refuse to start one
\* for a goroutine that has ended.
THEOREM LinksOneAtATime ==
  ASSUME None \notin Socket
  PROVE  Spec => []OneAtATime
<1>1. LinksInv => OneAtATime BY DEF LinksInv, Sound, OneAtATime
<1> QED BY <1>1, LinksInvariant, PTL

\* The attached connection of a session that is not stopped is read and written,
\* and no done channel is closed twice, however the reader, the writer, the
\* senders, the supervisor and the session compete to end a connection.
THEOREM LinksAttachedIsServed ==
  ASSUME None \notin Socket
  PROVE  Spec => []AttachedIsServed
<1>1. LinksInv => AttachedIsServed BY DEF LinksInv, Sound, Served, AttachedIsServed
<1> QED BY <1>1, LinksInvariant, PTL

=============================================================================
